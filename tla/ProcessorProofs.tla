--------------------------- MODULE ProcessorProofs ---------------------------
(***************************************************************************)
(* Proofs about Processor for every number of processors and months, every *)
(* length of a month and every choice of times that satisfies              *)
(* GraceAssumption; at the end, about their locks (TableLocks).            *)
(*                                                                         *)
(* A processor never sees what the tables it bills from were built from:   *)
(* another one may have replaced them, twice.  The argument measures a     *)
(* table against the moment a processor's Refresh began: once that         *)
(* processor has built a table of its own, every later version of it has   *)
(* all that had arrived by then (Complete), because only one transaction   *)
(* at a time can build one, and cuts open ranges at most one timeout       *)
(* before (Recent), because whoever committed it was in time.  The grace   *)
(* period covers both.                                                     *)
(***************************************************************************)
EXTENDS Loop, TLAPS

Building == {"events", "components"}
EventsDone == {"check", "build", "components", "byday", "refreshed", "month",
               "insert"}
ComponentsDone == {"byday", "refreshed", "month", "insert"}
Consolidating == {"month", "insert"}

(* Everything that must have arrived by time x is among the rows of s.     *)
Complete(s, x) == \A t \in happened : t + MaxLag < x => t \in s.rows

(* The ranges that were open are cut no earlier than a timeout before x.   *)
Recent(s, x) == x =< s.upTo + RefreshTimeout

RawComplete == \A t \in happened : t \in raw \/ now =< t + MaxLag

HappenedInPast == \A t \in happened : t =< now

BeganInPast ==
  \A p \in Processors : began[p] =< now /\ startedAt[p] = began[p]

(* No table is built from usage that did not happen.                       *)
RowsHappened ==
  /\ events.rows \subseteq happened
  /\ components.rows \subseteq happened
  /\ \A p \in Processors : draft[p].rows \subseteq happened

OneBuilder ==
  \A p, q \in Processors : p # q /\ pc[p] \in Building => pc[q] # pc[p]

EventsDraftGood ==
  \A p \in Processors : pc[p] = "events" =>
    /\ draft[p].upTo = began[p]
    /\ \A q \in Processors :
         q = p \/ pc[q] \in EventsDone => Complete(draft[p], began[q])

EventsGood ==
  \A p \in Processors : pc[p] \in EventsDone =>
    Complete(events, began[p]) /\ Recent(events, began[p])

ComponentsDraftGood ==
  \A p \in Processors : pc[p] = "components" =>
    \A q \in Processors : q = p \/ pc[q] \in ComponentsDone =>
      Complete(draft[p], began[q]) /\ Recent(draft[p], began[q])

ComponentsGood ==
  \A p \in Processors : pc[p] \in ComponentsDone =>
    Complete(components, began[p]) /\ Recent(components, began[p])

(* Refresh has returned before its timeout, and nothing happens between.   *)
RefreshedInTime == \A p \in Processors : pc[p] = "refreshed" => InTime(p)

TodoIsOld ==
  \A p \in Processors : \A m \in todo[p] :
    /\ pc[p] \in Consolidating
    /\ MonthEnd(m) + Grace =< began[p] + RefreshTimeout

(* What the committed and the open transactions have billed.               *)
Billed(p) == history \cup newBills[p]

BilledByOne ==
  /\ \A p \in Processors : newBills[p] # {} => pc[p] \in Consolidating
  /\ \A p \in Processors : newBills[p] \cap history = {}
  /\ \A p, q \in Processors : p # q => newBills[p] \cap newBills[q] = {}

(* A month is billed after every month before it.                          *)
MonthsInOrder ==
  \A p \in Processors : \A m \in todo[p], k \in Months :
    k < m => k \in todo[p] \cup Billed(p)

NoGap ==
  \A p \in Processors : \A m \in Billed(p), k \in Months :
    k < m => k \in Billed(p)

BilledIsOver ==
  /\ \A m \in history : MonthEnd(m) =< now
  /\ \A p \in Processors : \A m \in newBills[p] : MonthEnd(m) =< now

OpenBillsComplete ==
  \A p \in Processors : \A m \in newBills[p] : bill[m] = CompleteBill(m)

ClockInv == RawComplete /\ HappenedInPast /\ BeganInPast

TableInv == /\ RowsHappened
            /\ OneBuilder
            /\ EventsDraftGood
            /\ EventsGood
            /\ ComponentsDraftGood
            /\ ComponentsGood

MonthInv == /\ RefreshedInTime
            /\ TodoIsOld
            /\ BilledByOne
            /\ MonthsInOrder
            /\ NoGap
            /\ NoMonthLeftOut

BillInv == BilledIsOver /\ OpenBillsComplete /\ BillsAreComplete

IInv == TypeOK /\ ClockInv /\ TableInv /\ MonthInv /\ BillInv

------------------------------------------------------------------------------
(* Every action of a processor keeps the types.                            *)
LEMMA ProcessorTypes ==
  ASSUME TypeOK, NEW p \in Processors, Step(p)
  PROVE  TypeOK'
<1> USE ClockAssumption, GraceAssumption
<1>1. "idle" \in PCs /\ "begin" \in PCs /\ "events" \in PCs /\ "check" \in PCs
      /\ "build" \in PCs /\ "components" \in PCs /\ "byday" \in PCs
      /\ "refreshed" \in PCs /\ "month" \in PCs /\ "insert" \in PCs
  BY DEF PCs
<1>2. NoRows \in Snapshot
  BY DEF NoRows, Snapshot
<1>3. \A m \in Months : MonthEnd(m) \in Nat
  BY DEF Months, MonthEnd
<1>4. CASE BeginRefresh(p)
  BY <1>1, <1>4 DEF BeginRefresh, Goto, TypeOK, usageVars, tableVars, ledgerVars
<1>5. CASE BuildEvents(p)
  <2>1. [upTo |-> startedAt[p], rows |-> raw] \in Snapshot
    BY DEF TypeOK, Snapshot
  <2> QED
    BY <1>1, <1>5, <2>1 DEF BuildEvents, Goto, TypeOK, usageVars, tableVars, ledgerVars
<1>6. CASE CommitEvents(p)
  BY <1>1, <1>2, <1>6 DEF CommitEvents, Goto, TypeOK, usageVars, ledgerVars
<1>7. CASE CheckPlans(p) \/ CommitByDay(p)
  BY <1>1, <1>7 DEF CheckPlans, CommitByDay, Goto, TypeOK, usageVars, tableVars,
                    ledgerVars
<1>8. CASE BuildComponents(p)
  BY <1>1, <1>8 DEF BuildComponents, Goto, TypeOK, usageVars, tableVars, ledgerVars
<1>9. CASE CommitComponents(p)
  BY <1>1, <1>2, <1>9 DEF CommitComponents, Goto, TypeOK, usageVars, ledgerVars
<1>10. CASE BeginConsolidation(p)
  BY <1>1, <1>10 DEF BeginConsolidation, Goto, TypeOK, usageVars, tableVars,
                     ledgerVars
<1>11. ASSUME NEW m \in Months, SkipMonth(p, m) \/ NeedMonth(p, m)
       PROVE  TypeOK'
  BY <1>1, <1>11 DEF SkipMonth, NeedMonth, Goto, TypeOK, usageVars, tableVars,
                     ledgerVars
<1>12. ASSUME NEW m \in Months, InsertMonth(p, m)
       PROVE  TypeOK'
  <2>1. BillOf(components, m) \in [upTo : Nat, rows : SUBSET Times]
    BY <1>3 DEF TypeOK, Snapshot, BillOf
  <2> QED
    BY <1>1, <1>12, <2>1 DEF InsertMonth, Goto, TypeOK, usageVars, tableVars
<1>13. CASE CommitConsolidation(p)
  BY <1>1, <1>2, <1>13 DEF CommitConsolidation, Idle, TypeOK, usageVars, tableVars
<1>14. CASE Fail(p)
  <2>1. NoRows \in [upTo : Nat, rows : SUBSET Times]
    BY DEF NoRows
  <2> QED
    BY <1>1, <1>2, <1>14, <2>1
       DEF Fail, Rollback, Idle, TypeOK, usageVars, tableVars
<1> QED
  BY <1>4, <1>5, <1>6, <1>7, <1>8, <1>9, <1>10, <1>11, <1>12, <1>13, <1>14 DEF Step

(* So do the steps of time and of collection.                              *)
LEMMA TypeStep ==
  TypeOK /\ [Next]_vars => TypeOK'
<1> SUFFICES ASSUME TypeOK, [Next]_vars PROVE TypeOK'
  OBVIOUS
<1> USE ClockAssumption
<1>1. CASE Happen
  BY <1>1 DEF Happen, TypeOK, tableVars, ledgerVars, procVars
<1>2. ASSUME NEW t \in Times, Arrive(t)
      PROVE  TypeOK'
  BY <1>2 DEF Arrive, TypeOK, tableVars, ledgerVars, procVars
<1>3. CASE Tick
  BY <1>3 DEF Tick, TypeOK, usageVars, tableVars, ledgerVars, procVars
<1>4. CASE UNCHANGED vars
  BY <1>4 DEF TypeOK, vars, usageVars, tableVars, ledgerVars, procVars
<1> QED
  BY <1>1, <1>2, <1>3, <1>4, ProcessorTypes DEF Next, Environment

(* The types hold in every reachable state, whatever the constants.        *)
THEOREM TypeCorrect == Spec => []TypeOK
<1>1. Init => TypeOK
  BY ClockAssumption DEF Init, TypeOK, PCs, Snapshot, NoRows
<1> QED
  BY <1>1, TypeStep, PTL DEF Spec

------------------------------------------------------------------------------
(* Months end in order.                                                    *)
LEMMA MonthEnds ==
  /\ \A m \in Months : m \in Nat /\ MonthEnd(m) \in Nat
  /\ \A k, m \in Months : k < m => MonthEnd(k) =< MonthEnd(m)
<1>1. \A m \in Months : m \in Nat /\ MonthEnd(m) \in Nat
  BY ClockAssumption DEF Months, MonthEnd
<1>2. ASSUME NEW k \in Months, NEW m \in Months, k < m
      PROVE  MonthEnd(k) =< MonthEnd(m)
  <2>1. PICK d \in Nat : m = k + d
    <3>1. m - k \in Nat /\ m = k + (m - k)
      BY <1>1, <1>2
    <3> QED
      BY <3>1
  <2>2. (m + 1) * MonthLen = (k + 1) * MonthLen + d * MonthLen
    BY <1>1, <2>1, ClockAssumption
  <2>3. d * MonthLen \in Nat /\ (k + 1) * MonthLen \in Nat
    BY <1>1, <2>1, ClockAssumption
  <2> QED
    BY <2>2, <2>3 DEF MonthEnd
<1> QED
  BY <1>1, <1>2

(* The numbers of a state, for the steps that calculate with them.         *)
LEMMA Numbers ==
  ASSUME TypeOK
  PROVE  /\ now \in Nat /\ MaxLag \in Nat /\ RefreshTimeout \in Nat /\ Grace \in Nat
         /\ \A t \in happened : t \in Nat
         /\ events.upTo \in Nat /\ components.upTo \in Nat
         /\ \A p \in Processors : began[p] \in Nat /\ draft[p].upTo \in Nat
  BY ClockAssumption, GraceAssumption DEF TypeOK, Times, Snapshot

(* A month that consolidation may take has ended so long before its Refresh *)
(* began that the tables have all of it and are cut after its end.         *)
LEMMA GraceSuffices ==
  ASSUME TypeOK, NEW p \in Processors, NEW m \in Months,
         MonthEnd(m) + Grace =< began[p] + RefreshTimeout,
         Complete(components, began[p]), Recent(components, began[p]),
         components.rows \subseteq happened
  PROVE  BillOf(components, m) = CompleteBill(m)
<1> USE Numbers, MonthEnds
<1>1. MonthEnd(m) =< components.upTo
  BY GraceAssumption DEF Recent
<1>2. \A t \in happened : t < MonthEnd(m) => t \in components.rows
  BY GraceAssumption DEF Complete
<1>3. {t \in components.rows : t < MonthEnd(m)} = {t \in happened : t < MonthEnd(m)}
  BY <1>2
<1>4. (IF components.upTo < MonthEnd(m) THEN components.upTo ELSE MonthEnd(m))
        = MonthEnd(m)
  BY <1>1
<1> QED
  BY <1>3, <1>4, Zenon DEF BillOf, CompleteBill

(* At the moment the rows are read, whoever began before has them all.     *)
LEMMA ArrivedInTime ==
  ASSUME TypeOK, RawComplete, NEW p \in Processors, began[p] =< now,
         NEW s, s.rows = raw
  PROVE  Complete(s, began[p])
  BY Numbers DEF RawComplete, Complete

(* A bill stays complete when later usage happens.                         *)
LEMMA BillsStay ==
  ASSUME TypeOK, NEW m \in Months, MonthEnd(m) =< now,
         happened' \subseteq happened \cup {now}, happened \subseteq happened'
  PROVE  CompleteBill(m)' = CompleteBill(m)
<1>1. ~(now < MonthEnd(m))
  BY Numbers, MonthEnds
<1> QED
  BY <1>1 DEF CompleteBill, MonthEnd

------------------------------------------------------------------------------
(* Usage, collection and time.                                             *)

LEMMA HappenStep ==
  ASSUME IInv, TypeOK', Happen
  PROVE  IInv'
<1> USE Numbers
<1>1. /\ happened' = happened \cup {now}
      /\ UNCHANGED <<now, raw, events, components, history, bill, pc, began,
                     startedAt, draft, todo, newBills>>
  BY DEF Happen, tableVars, ledgerVars, procVars
<1>2. TypeOK
  BY DEF IInv
<1>3. ClockInv'
  BY <1>1, <1>2 DEF IInv, ClockInv, RawComplete, HappenedInPast, BeganInPast
<1>4. ASSUME NEW s, NEW q \in Processors, Complete(s, began[q])
      PROVE  Complete(s, began[q])'
  BY <1>1, <1>2, <1>4 DEF Complete, IInv, ClockInv, BeganInPast
<1>5. TableInv'
  <2>1. RowsHappened' /\ OneBuilder'
    BY <1>1 DEF IInv, TableInv, RowsHappened, OneBuilder
  <2>2. EventsDraftGood' /\ EventsGood'
    BY <1>1, <1>4 DEF IInv, TableInv, EventsDraftGood, EventsGood, Recent, Complete
  <2>3. ComponentsDraftGood' /\ ComponentsGood'
    BY <1>1, <1>4 DEF IInv, TableInv, ComponentsDraftGood, ComponentsGood, Recent,
                      Complete
  <2> QED
    BY <2>1, <2>2, <2>3 DEF TableInv
<1>6. MonthInv'
  BY <1>1 DEF IInv, MonthInv, RefreshedInTime, InTime, TodoIsOld, BilledByOne,
              MonthsInOrder, NoGap, NoMonthLeftOut, Billed, MonthEnd
<1>7. BillInv'
  <2>1. BilledIsOver'
    BY <1>1 DEF IInv, BillInv, BilledIsOver, MonthEnd
  <2>2. BillsAreComplete'
    <3>1. \A m \in history : m \in Months /\ MonthEnd(m) =< now
      BY DEF IInv, BillInv, BilledIsOver, TypeOK
    <3>2. \A m \in history : CompleteBill(m)' = CompleteBill(m)
      BY <1>1, <1>2, <3>1, BillsStay
    <3> QED
      BY <1>1, <3>2 DEF IInv, BillInv, BillsAreComplete, CompleteBill
  <2>3. OpenBillsComplete'
    <3>1. \A p \in Processors : \A m \in newBills[p] :
            m \in Months /\ MonthEnd(m) =< now
      BY DEF IInv, BillInv, BilledIsOver, TypeOK
    <3>2. \A p \in Processors : \A m \in newBills[p] :
            CompleteBill(m)' = CompleteBill(m)
      BY <1>1, <1>2, <3>1, BillsStay
    <3> QED
      BY <1>1, <3>2 DEF IInv, BillInv, OpenBillsComplete, CompleteBill
  <2> QED
    BY <2>1, <2>2, <2>3 DEF BillInv
<1> QED
  BY <1>3, <1>5, <1>6, <1>7 DEF IInv

LEMMA ArriveStep ==
  ASSUME IInv, TypeOK', NEW x \in Times, Arrive(x)
  PROVE  IInv'
<1>1. /\ raw' = raw \cup {x}
      /\ UNCHANGED <<now, happened, events, components, history, bill, pc, began,
                     startedAt, draft, todo, newBills>>
  BY DEF Arrive, tableVars, ledgerVars, procVars
<1>2. ClockInv'
  BY <1>1 DEF IInv, ClockInv, RawComplete, HappenedInPast, BeganInPast
<1>3. TableInv'
  BY <1>1 DEF IInv, TableInv, RowsHappened, OneBuilder, EventsDraftGood, EventsGood,
              ComponentsDraftGood, ComponentsGood, Complete, Recent
<1>4. MonthInv' /\ BillInv'
  BY <1>1 DEF IInv, MonthInv, RefreshedInTime, InTime, TodoIsOld, BilledByOne,
              MonthsInOrder, NoGap, NoMonthLeftOut, Billed, MonthEnd, BillInv,
              BilledIsOver, OpenBillsComplete, BillsAreComplete, CompleteBill
<1> QED
  BY <1>2, <1>3, <1>4 DEF IInv

(* Time passes only while no Refresh has just returned.                    *)
LEMMA TickStep ==
  ASSUME IInv, TypeOK', Tick
  PROVE  IInv'
<1> USE Numbers
<1>1. /\ now' = now + 1
      /\ \A t \in happened \ raw : now < t + MaxLag
      /\ \A p \in Processors : pc[p] # "refreshed"
      /\ UNCHANGED <<happened, raw, events, components, history, bill, pc, began,
                     startedAt, draft, todo, newBills>>
  BY DEF Tick, usageVars, tableVars, ledgerVars, procVars
<1>2. TypeOK
  BY DEF IInv
<1>3. ClockInv'
  BY <1>1, <1>2 DEF IInv, ClockInv, RawComplete, HappenedInPast, BeganInPast
<1>4. TableInv'
  BY <1>1 DEF IInv, TableInv, RowsHappened, OneBuilder, EventsDraftGood, EventsGood,
              ComponentsDraftGood, ComponentsGood, Complete, Recent
<1>5. MonthInv'
  BY <1>1 DEF IInv, MonthInv, RefreshedInTime, TodoIsOld, BilledByOne,
              MonthsInOrder, NoGap, NoMonthLeftOut, Billed, MonthEnd
<1>6. BillInv'
  <2>1. BilledIsOver'
    <3>1. \A m \in Months : MonthEnd(m) =< now => MonthEnd(m) =< now'
      BY <1>1, <1>2, MonthEnds
    <3> QED
      BY <1>1, <3>1 DEF IInv, BillInv, BilledIsOver, TypeOK, MonthEnd
  <2> QED
    BY <1>1, <2>1 DEF IInv, BillInv, OpenBillsComplete, BillsAreComplete, CompleteBill,
                      MonthEnd
<1> QED
  BY <1>3, <1>4, <1>5, <1>6 DEF IInv

------------------------------------------------------------------------------
(* Refresh.  Its steps leave months and bills alone.                       *)
LEMMA RefreshKeepsMonths ==
  ASSUME IInv, NEW p \in Processors,
         UNCHANGED <<now, happened, history, bill, todo, newBills>>,
         pc[p] \notin Consolidating,
         pc'[p] \notin Consolidating,
         pc'[p] = "refreshed" => InTime(p)',
         \A q \in Processors \ {p} : pc'[q] = pc[q] /\ began'[q] = began[q]
  PROVE  MonthInv' /\ BillInv'
<1>1. newBills[p] = {} /\ todo[p] = {}
  BY DEF IInv, MonthInv, BilledByOne, TodoIsOld, TypeOK
<1>2. RefreshedInTime'
  BY DEF IInv, MonthInv, RefreshedInTime, InTime
<1>3. TodoIsOld'
  BY <1>1 DEF IInv, MonthInv, TodoIsOld, MonthEnd
<1>4. BilledByOne'
  BY <1>1 DEF IInv, MonthInv, BilledByOne
<1>5. MonthsInOrder' /\ NoGap' /\ NoMonthLeftOut'
  BY DEF IInv, MonthInv, MonthsInOrder, NoGap, NoMonthLeftOut, Billed
<1>6. BillInv'
  BY DEF IInv, BillInv, BilledIsOver, OpenBillsComplete, BillsAreComplete,
         CompleteBill, MonthEnd
<1> QED
  BY <1>2, <1>3, <1>4, <1>5, <1>6 DEF MonthInv

LEMMA BeginRefreshStep ==
  ASSUME IInv, TypeOK', NEW p \in Processors, BeginRefresh(p)
  PROVE  IInv'
<1> USE Numbers
<1>1. /\ pc[p] = "idle"
      /\ pc' = [pc EXCEPT ![p] = "begin"]
      /\ began' = [began EXCEPT ![p] = now]
      /\ startedAt' = [startedAt EXCEPT ![p] = now]
      /\ UNCHANGED <<now, happened, raw, events, components, history, bill, draft,
                     todo, newBills>>
  BY DEF BeginRefresh, Goto, usageVars, tableVars, ledgerVars
<1>2. TypeOK
  BY DEF IInv
<1>3. /\ pc'[p] = "begin" /\ began'[p] = now
      /\ \A q \in Processors \ {p} : pc'[q] = pc[q] /\ began'[q] = began[q]
  BY <1>1, <1>2 DEF TypeOK
<1>4. ClockInv'
  BY <1>1, <1>2 DEF IInv, ClockInv, RawComplete, HappenedInPast, BeganInPast, TypeOK
<1>5. TableInv'
  BY <1>1, <1>3
     DEF IInv, TableInv, RowsHappened, OneBuilder, EventsDraftGood, EventsGood,
         ComponentsDraftGood, ComponentsGood, Complete, Recent, Building, EventsDone,
         ComponentsDone
<1>6. MonthInv' /\ BillInv'
  BY <1>1, <1>3, RefreshKeepsMonths DEF Consolidating
<1> QED
  BY <1>4, <1>5, <1>6 DEF IInv

(* The rows that are read have all that arrived before any Refresh that    *)
(* runs now began.                                                         *)
LEMMA BuildEventsStep ==
  ASSUME IInv, TypeOK', NEW p \in Processors, BuildEvents(p)
  PROVE  IInv'
<1> USE Numbers
<1>1. /\ pc[p] = "begin"
      /\ pc' = [pc EXCEPT ![p] = "events"]
      /\ \A q \in Processors : pc[q] # "events"
      /\ draft' = [draft EXCEPT ![p] = [upTo |-> startedAt[p], rows |-> raw]]
      /\ UNCHANGED <<now, happened, raw, events, components, history, bill, began,
                     startedAt, todo, newBills>>
  BY DEF BuildEvents, Goto, usageVars, tableVars, ledgerVars
<1>2. TypeOK
  BY DEF IInv
<1>3. /\ pc'[p] = "events"
      /\ draft'[p].upTo = began[p] /\ draft'[p].rows = raw
      /\ \A q \in Processors \ {p} : pc'[q] = pc[q] /\ draft'[q] = draft[q]
  BY <1>1, <1>2 DEF TypeOK, IInv, ClockInv, BeganInPast
<1>4. ClockInv'
  BY <1>1 DEF IInv, ClockInv, RawComplete, HappenedInPast, BeganInPast
<1>5. RowsHappened' /\ OneBuilder'
  BY <1>1, <1>2, <1>3
     DEF IInv, TableInv, RowsHappened, OneBuilder, TypeOK, Building
<1>6. EventsDraftGood'
  <2>1. \A q \in Processors : Complete(draft'[p], began[q])
    BY <1>2, <1>3, ArrivedInTime DEF IInv, ClockInv, BeganInPast
  <2> QED
    BY <1>1, <1>3, <2>1 DEF EventsDraftGood, Complete
<1>7. EventsGood' /\ ComponentsDraftGood' /\ ComponentsGood'
  BY <1>1, <1>3
     DEF IInv, TableInv, EventsGood, ComponentsDraftGood, ComponentsGood, Complete,
         Recent, EventsDone, ComponentsDone
<1>8. MonthInv' /\ BillInv'
  BY <1>1, <1>3, RefreshKeepsMonths DEF Consolidating
<1> QED
  BY <1>4, <1>5, <1>6, <1>7, <1>8 DEF IInv, TableInv

(* Whoever commits is in time, so its ranges are cut less than a timeout   *)
(* before now.                                                             *)
LEMMA CommitEventsStep ==
  ASSUME IInv, TypeOK', NEW p \in Processors, CommitEvents(p)
  PROVE  IInv'
<1> USE Numbers
<1>1. /\ pc[p] = "events"
      /\ pc' = [pc EXCEPT ![p] = "check"]
      /\ now =< began[p] + RefreshTimeout
      /\ events' = draft[p]
      /\ draft' = [draft EXCEPT ![p] = NoRows]
      /\ UNCHANGED <<now, happened, raw, components, history, bill, began,
                     startedAt, todo, newBills>>
  BY DEF CommitEvents, Goto, InTime, usageVars, ledgerVars
<1>2. TypeOK
  BY DEF IInv
<1>3. /\ pc'[p] = "check" /\ draft'[p].rows = {}
      /\ \A q \in Processors \ {p} : pc'[q] = pc[q] /\ draft'[q] = draft[q]
  BY <1>1, <1>2 DEF TypeOK, NoRows
<1>4. ClockInv'
  BY <1>1 DEF IInv, ClockInv, RawComplete, HappenedInPast, BeganInPast
<1>5. RowsHappened' /\ OneBuilder'
  BY <1>1, <1>3 DEF IInv, TableInv, RowsHappened, OneBuilder, Building
<1>6. EventsGood'
  <2>1. \A q \in Processors : q = p \/ pc[q] \in EventsDone =>
          Complete(draft[p], began[q])
    BY <1>1 DEF IInv, TableInv, EventsDraftGood
  <2>2. draft[p].upTo = began[p]
    BY <1>1 DEF IInv, TableInv, EventsDraftGood
  <2>3. \A q \in Processors : Recent(draft[p], began[q])
    BY <1>1, <1>2, <2>2 DEF Recent, IInv, ClockInv, BeganInPast
  <2> QED
    BY <1>1, <1>3, <2>1, <2>3 DEF EventsGood, Complete, Recent
<1>7. EventsDraftGood' /\ ComponentsDraftGood' /\ ComponentsGood'
  <2>1. \A q \in Processors \ {p} : pc[q] # "events"
    BY <1>1 DEF IInv, TableInv, OneBuilder, Building
  <2> QED
    BY <1>1, <1>3, <2>1
       DEF IInv, TableInv, EventsDraftGood, ComponentsDraftGood, ComponentsGood,
           Complete, Recent, ComponentsDone
<1>8. MonthInv' /\ BillInv'
  BY <1>1, <1>3, RefreshKeepsMonths DEF Consolidating
<1> QED
  BY <1>4, <1>5, <1>6, <1>7, <1>8 DEF IInv, TableInv

LEMMA CheckStep ==
  ASSUME IInv, TypeOK', NEW p \in Processors, CheckPlans(p) \/ CommitByDay(p)
  PROVE  IInv'
<1>1. /\ InTime(p)
      /\ \/ pc[p] = "check" /\ pc' = [pc EXCEPT ![p] = "build"]
         \/ pc[p] = "byday" /\ pc' = [pc EXCEPT ![p] = "refreshed"]
      /\ UNCHANGED <<now, happened, raw, events, components, history, bill, began,
                     startedAt, draft, todo, newBills>>
  BY DEF CheckPlans, CommitByDay, Goto, usageVars, tableVars, ledgerVars
<1>2. /\ \/ pc[p] = "check" /\ pc'[p] = "build"
         \/ pc[p] = "byday" /\ pc'[p] = "refreshed"
      /\ \A q \in Processors \ {p} : pc'[q] = pc[q]
  BY <1>1 DEF IInv, TypeOK
<1>3. ClockInv'
  BY <1>1 DEF IInv, ClockInv, RawComplete, HappenedInPast, BeganInPast
<1>4. RowsHappened' /\ OneBuilder'
  BY <1>1, <1>2 DEF IInv, TableInv, RowsHappened, OneBuilder, Building
<1>5. EventsDraftGood' /\ EventsGood'
  BY <1>1, <1>2 DEF IInv, TableInv, EventsDraftGood, EventsGood, Complete, Recent,
                    EventsDone
<1>6. ComponentsDraftGood' /\ ComponentsGood'
  BY <1>1, <1>2 DEF IInv, TableInv, ComponentsDraftGood, ComponentsGood, Complete,
                    Recent, ComponentsDone
<1>7. MonthInv' /\ BillInv'
  <2>1. InTime(p)'
    BY <1>1 DEF InTime
  <2> QED
    BY <1>1, <1>2, <2>1, RefreshKeepsMonths DEF Consolidating
<1> QED
  BY <1>3, <1>4, <1>5, <1>6, <1>7 DEF IInv, TableInv

LEMMA BuildComponentsStep ==
  ASSUME IInv, TypeOK', NEW p \in Processors, BuildComponents(p)
  PROVE  IInv'
<1>1. /\ pc[p] = "build"
      /\ pc' = [pc EXCEPT ![p] = "components"]
      /\ \A q \in Processors : pc[q] # "components"
      /\ draft' = [draft EXCEPT ![p] = events]
      /\ UNCHANGED <<now, happened, raw, events, components, history, bill, began,
                     startedAt, todo, newBills>>
  BY DEF BuildComponents, Goto, usageVars, tableVars, ledgerVars
<1>2. /\ pc'[p] = "components" /\ draft'[p] = events
      /\ \A q \in Processors \ {p} : pc'[q] = pc[q] /\ draft'[q] = draft[q]
  BY <1>1 DEF IInv, TypeOK
<1>3. ClockInv'
  BY <1>1 DEF IInv, ClockInv, RawComplete, HappenedInPast, BeganInPast
<1>4. RowsHappened' /\ OneBuilder'
  BY <1>1, <1>2 DEF IInv, TableInv, RowsHappened, OneBuilder, Building
<1>5. EventsDraftGood' /\ EventsGood'
  BY <1>1, <1>2 DEF IInv, TableInv, EventsDraftGood, EventsGood, Complete, Recent,
                    EventsDone
<1>6. ComponentsDraftGood' /\ ComponentsGood'
  BY <1>1, <1>2 DEF IInv, TableInv, EventsGood, ComponentsDraftGood, ComponentsGood,
                    Complete, Recent, EventsDone, ComponentsDone
<1>7. MonthInv' /\ BillInv'
  BY <1>1, <1>2, RefreshKeepsMonths DEF Consolidating
<1> QED
  BY <1>3, <1>4, <1>5, <1>6, <1>7 DEF IInv, TableInv

LEMMA CommitComponentsStep ==
  ASSUME IInv, TypeOK', NEW p \in Processors, CommitComponents(p)
  PROVE  IInv'
<1>1. /\ pc[p] = "components"
      /\ pc' = [pc EXCEPT ![p] = "byday"]
      /\ components' = draft[p]
      /\ draft' = [draft EXCEPT ![p] = NoRows]
      /\ UNCHANGED <<now, happened, raw, events, history, bill, began, startedAt,
                     todo, newBills>>
  BY DEF CommitComponents, Goto, usageVars, ledgerVars
<1>2. /\ pc'[p] = "byday" /\ draft'[p].rows = {}
      /\ \A q \in Processors \ {p} : pc'[q] = pc[q] /\ draft'[q] = draft[q]
  BY <1>1 DEF IInv, TypeOK, NoRows
<1>3. ClockInv'
  BY <1>1 DEF IInv, ClockInv, RawComplete, HappenedInPast, BeganInPast
<1>4. RowsHappened' /\ OneBuilder'
  BY <1>1, <1>2 DEF IInv, TableInv, RowsHappened, OneBuilder, Building
<1>5. EventsDraftGood' /\ EventsGood'
  BY <1>1, <1>2 DEF IInv, TableInv, EventsDraftGood, EventsGood, Complete, Recent,
                    EventsDone
<1>6. ComponentsDraftGood'
  <2>1. \A q \in Processors : pc'[q] # "components"
    BY <1>1, <1>2 DEF IInv, TableInv, OneBuilder, Building
  <2> QED
    BY <2>1 DEF ComponentsDraftGood
<1>7. ComponentsGood'
  BY <1>1, <1>2 DEF IInv, TableInv, ComponentsDraftGood, ComponentsGood, Complete,
                    Recent, ComponentsDone
<1>8. MonthInv' /\ BillInv'
  BY <1>1, <1>2, RefreshKeepsMonths DEF Consolidating
<1> QED
  BY <1>3, <1>4, <1>5, <1>6, <1>7, <1>8 DEF IInv, TableInv

------------------------------------------------------------------------------
(* ConsolidateAll.  Its steps leave the tables alone.                      *)
LEMMA ConsolidationKeepsTables ==
  ASSUME IInv, NEW p \in Processors,
         UNCHANGED <<now, happened, raw, events, components, began, startedAt,
                     draft>>,
         pc[p] \in ComponentsDone, pc'[p] \in Consolidating,
         \A q \in Processors \ {p} : pc'[q] = pc[q]
  PROVE  ClockInv' /\ TableInv'
<1>1. ClockInv'
  BY DEF IInv, ClockInv, RawComplete, HappenedInPast, BeganInPast
<1>2. RowsHappened' /\ OneBuilder'
  BY DEF IInv, TableInv, RowsHappened, OneBuilder, Building, Consolidating
<1>3. EventsDraftGood' /\ EventsGood'
  BY DEF IInv, TableInv, EventsDraftGood, EventsGood, Complete, Recent, EventsDone,
         ComponentsDone, Consolidating
<1>4. ComponentsDraftGood' /\ ComponentsGood'
  BY DEF IInv, TableInv, ComponentsDraftGood, ComponentsGood, Complete, Recent,
         ComponentsDone, Consolidating
<1> QED
  BY <1>1, <1>2, <1>3, <1>4 DEF TableInv

(* Neither does the return to the select of the loop.                      *)
LEMMA IdleKeepsTables ==
  ASSUME IInv, NEW p \in Processors, Idle(p)
  PROVE  ClockInv' /\ TableInv'
<1> USE Numbers
<1>1. /\ pc' = [pc EXCEPT ![p] = "idle"]
      /\ began' = [began EXCEPT ![p] = 0]
      /\ startedAt' = [startedAt EXCEPT ![p] = 0]
      /\ draft' = [draft EXCEPT ![p] = NoRows]
      /\ UNCHANGED <<now, happened, raw, events, components>>
  BY DEF Idle, usageVars, tableVars
<1>2. TypeOK
  BY DEF IInv
<1>3. /\ pc'[p] = "idle" /\ draft'[p].rows = {} /\ began'[p] = 0 /\ startedAt'[p] = 0
      /\ \A q \in Processors \ {p} : /\ pc'[q] = pc[q] /\ draft'[q] = draft[q]
                                     /\ began'[q] = began[q]
                                     /\ startedAt'[q] = startedAt[q]
  BY <1>1, <1>2 DEF TypeOK, NoRows
<1>4. ClockInv'
  <2>1. \A q \in Processors : began'[q] =< now' /\ startedAt'[q] = began'[q]
    BY <1>1, <1>2, <1>3 DEF IInv, ClockInv, BeganInPast
  <2> QED
    BY <1>1, <2>1 DEF IInv, ClockInv, RawComplete, HappenedInPast, BeganInPast
<1>5. RowsHappened' /\ OneBuilder'
  BY <1>1, <1>3 DEF IInv, TableInv, RowsHappened, OneBuilder, Building
<1>6. EventsDraftGood' /\ EventsGood'
  BY <1>1, <1>3 DEF IInv, TableInv, EventsDraftGood, EventsGood, Complete, Recent,
                    EventsDone
<1>7. ComponentsDraftGood' /\ ComponentsGood'
  BY <1>1, <1>3 DEF IInv, TableInv, ComponentsDraftGood, ComponentsGood, Complete,
                    Recent, ComponentsDone
<1> QED
  BY <1>4, <1>5, <1>6, <1>7 DEF TableInv

(* The months that are old enough, with none of them left out.             *)
LEMMA BeginConsolidationStep ==
  ASSUME IInv, TypeOK', NEW p \in Processors, BeginConsolidation(p)
  PROVE  IInv'
<1> USE Numbers, MonthEnds
<1>1. /\ pc[p] = "refreshed"
      /\ pc' = [pc EXCEPT ![p] = "month"]
      /\ todo' = [todo EXCEPT ![p] = {m \in Months : MonthEnd(m) + Grace =< now}]
      /\ UNCHANGED <<now, happened, raw, events, components, history, bill, began,
                     startedAt, draft, newBills>>
  BY DEF BeginConsolidation, Goto, usageVars, tableVars, ledgerVars
<1>2. TypeOK
  BY DEF IInv
<1>3. /\ pc'[p] = "month"
      /\ todo'[p] = {m \in Months : MonthEnd(m) + Grace =< now}
      /\ \A q \in Processors \ {p} : pc'[q] = pc[q] /\ todo'[q] = todo[q]
  BY <1>1, <1>2 DEF TypeOK
<1>4. ClockInv' /\ TableInv'
  BY <1>1, <1>3, ConsolidationKeepsTables DEF ComponentsDone, Consolidating
<1>5. RefreshedInTime'
  BY <1>1, <1>3 DEF IInv, MonthInv, RefreshedInTime, InTime
<1>6. TodoIsOld'
  <2>1. now =< began[p] + RefreshTimeout
    BY <1>1 DEF IInv, MonthInv, RefreshedInTime, InTime
  <2>2. \A m \in todo'[p] : MonthEnd(m) + Grace =< began[p] + RefreshTimeout
    BY <1>2, <1>3, <2>1
  <2> QED
    BY <1>1, <1>3, <2>2 DEF IInv, MonthInv, TodoIsOld, MonthEnd, Consolidating
<1>7. BilledByOne' /\ NoGap' /\ NoMonthLeftOut'
  BY <1>1, <1>3
     DEF IInv, MonthInv, BilledByOne, NoGap, NoMonthLeftOut, Billed, Consolidating
<1>8. MonthsInOrder'
  <2>1. \A m \in todo'[p], k \in Months : k < m => k \in todo'[p]
    BY <1>2, <1>3
  <2> QED
    BY <1>1, <1>3, <2>1 DEF IInv, MonthInv, MonthsInOrder, Billed
<1>9. BillInv'
  BY <1>1 DEF IInv, BillInv, BilledIsOver, OpenBillsComplete, BillsAreComplete,
              CompleteBill, MonthEnd
<1> QED
  BY <1>4, <1>5, <1>6, <1>7, <1>8, <1>9 DEF IInv, MonthInv

LEMMA SkipMonthStep ==
  ASSUME IInv, TypeOK', NEW p \in Processors, NEW x \in Months, SkipMonth(p, x)
  PROVE  IInv'
<1>1. /\ pc[p] = "month"
      /\ x \in history
      /\ todo' = [todo EXCEPT ![p] = @ \ {x}]
      /\ UNCHANGED <<now, happened, raw, events, components, history, bill, pc, began,
                     startedAt, draft, newBills>>
  BY DEF SkipMonth, usageVars, tableVars, ledgerVars
<1>2. /\ todo'[p] = todo[p] \ {x}
      /\ \A q \in Processors \ {p} : todo'[q] = todo[q]
  BY <1>1 DEF IInv, TypeOK
<1>3. ClockInv' /\ TableInv'
  BY <1>1, ConsolidationKeepsTables DEF ComponentsDone, Consolidating
<1>4. RefreshedInTime' /\ TodoIsOld'
  BY <1>1, <1>2 DEF IInv, MonthInv, RefreshedInTime, InTime, TodoIsOld, MonthEnd
<1>5. BilledByOne' /\ NoGap' /\ NoMonthLeftOut'
  BY <1>1 DEF IInv, MonthInv, BilledByOne, NoGap, NoMonthLeftOut, Billed
<1>6. MonthsInOrder'
  BY <1>1, <1>2 DEF IInv, MonthInv, MonthsInOrder, Billed
<1>7. BillInv'
  BY <1>1 DEF IInv, BillInv, BilledIsOver, OpenBillsComplete, BillsAreComplete,
              CompleteBill, MonthEnd
<1> QED
  BY <1>3, <1>4, <1>5, <1>6, <1>7 DEF IInv, MonthInv

LEMMA NeedMonthStep ==
  ASSUME IInv, TypeOK', NEW p \in Processors, NEW x \in Months, NeedMonth(p, x)
  PROVE  IInv'
<1>1. /\ pc[p] = "month"
      /\ pc' = [pc EXCEPT ![p] = "insert"]
      /\ UNCHANGED <<now, happened, raw, events, components, history, bill, began,
                     startedAt, draft, todo, newBills>>
  BY DEF NeedMonth, Goto, usageVars, tableVars, ledgerVars
<1>2. /\ pc'[p] = "insert"
      /\ \A q \in Processors \ {p} : pc'[q] = pc[q]
  BY <1>1 DEF IInv, TypeOK
<1>3. ClockInv' /\ TableInv'
  BY <1>1, <1>2, ConsolidationKeepsTables DEF ComponentsDone, Consolidating
<1>4. RefreshedInTime' /\ TodoIsOld' /\ BilledByOne'
  BY <1>1, <1>2 DEF IInv, MonthInv, RefreshedInTime, InTime, TodoIsOld, BilledByOne,
                    MonthEnd, Consolidating
<1>5. MonthsInOrder' /\ NoGap' /\ NoMonthLeftOut'
  BY <1>1 DEF IInv, MonthInv, MonthsInOrder, NoGap, NoMonthLeftOut, Billed
<1>6. BillInv'
  BY <1>1 DEF IInv, BillInv, BilledIsOver, OpenBillsComplete, BillsAreComplete,
              CompleteBill, MonthEnd
<1> QED
  BY <1>3, <1>4, <1>5, <1>6 DEF IInv, MonthInv

(* A month is inserted when all before it are billed, from tables that     *)
(* have all of it.                                                         *)
LEMMA InsertMonthStep ==
  ASSUME IInv, TypeOK', NEW p \in Processors, NEW x \in Months, InsertMonth(p, x)
  PROVE  IInv'
<1> USE Numbers, MonthEnds
<1>1. /\ pc[p] = "insert"
      /\ pc' = [pc EXCEPT ![p] = "month"]
      /\ x \in todo[p] /\ \A k \in todo[p] : x =< k
      /\ \A q \in Processors \ {p} : x \notin newBills[q]
      /\ x \notin history
      /\ todo' = [todo EXCEPT ![p] = @ \ {x}]
      /\ newBills' = [newBills EXCEPT ![p] = @ \cup {x}]
      /\ bill' = [bill EXCEPT ![x] = BillOf(components, x)]
      /\ UNCHANGED <<now, happened, raw, events, components, history, began,
                     startedAt, draft>>
  BY DEF InsertMonth, Goto, IsNextMonth, MonthHeld, usageVars, tableVars
<1>2. TypeOK
  BY DEF IInv
<1>3. /\ pc'[p] = "month"
      /\ todo'[p] = todo[p] \ {x}
      /\ newBills'[p] = newBills[p] \cup {x}
      /\ \A q \in Processors \ {p} : /\ pc'[q] = pc[q] /\ todo'[q] = todo[q]
                                     /\ newBills'[q] = newBills[q]
      /\ bill'[x] = BillOf(components, x)
      /\ \A m \in Months \ {x} : bill'[m] = bill[m]
  BY <1>1, <1>2 DEF TypeOK
<1>4. MonthEnd(x) + Grace =< began[p] + RefreshTimeout
  BY <1>1 DEF IInv, MonthInv, TodoIsOld
<1>5. ClockInv' /\ TableInv'
  BY <1>1, <1>3, ConsolidationKeepsTables DEF ComponentsDone, Consolidating
<1>6. RefreshedInTime' /\ TodoIsOld'
  BY <1>1, <1>3 DEF IInv, MonthInv, RefreshedInTime, InTime, TodoIsOld, MonthEnd,
                    Consolidating
<1>7. BilledByOne'
  BY <1>1, <1>3 DEF IInv, MonthInv, BilledByOne, Consolidating
<1>8. MonthsInOrder'
  BY <1>1, <1>3 DEF IInv, MonthInv, MonthsInOrder, Billed
<1>9. NoGap' /\ NoMonthLeftOut'
  <2>1. \A k \in Months : k < x => k \in Billed(p)
    <3>1. \A k \in Months : k < x => k \in todo[p] \cup Billed(p)
      BY <1>1 DEF IInv, MonthInv, MonthsInOrder
    <3>2. \A k \in Months : k < x => k \notin todo[p]
      BY <1>1, <1>2
    <3> QED
      BY <3>1, <3>2
  <2>2. Billed(p)' = Billed(p) \cup {x}
        /\ \A q \in Processors \ {p} : Billed(q)' = Billed(q)
    BY <1>1, <1>3 DEF Billed
  <2> QED
    BY <1>1, <2>1, <2>2 DEF IInv, MonthInv, NoGap, NoMonthLeftOut
<1>10. MonthEnd(x) =< now
  BY <1>2, <1>4, GraceAssumption DEF IInv, ClockInv, BeganInPast
<1>11. bill'[x] = CompleteBill(x)
  <2>1. Complete(components, began[p]) /\ Recent(components, began[p])
    BY <1>1 DEF IInv, TableInv, ComponentsGood, ComponentsDone
  <2> QED
    BY <1>2, <1>3, <1>4, <2>1, GraceSuffices DEF IInv, TableInv, RowsHappened
<1>12. BilledIsOver'
  BY <1>1, <1>3, <1>10 DEF IInv, BillInv, BilledIsOver, MonthEnd
<1>13. OpenBillsComplete' /\ BillsAreComplete'
  <2>1. \A m \in Months : CompleteBill(m)' = CompleteBill(m)
    BY <1>1 DEF CompleteBill, MonthEnd
  <2>2. \A m \in history : m \in Months \ {x} /\ bill[m] = CompleteBill(m)
    BY <1>1, <1>2 DEF IInv, BillInv, BillsAreComplete, TypeOK
  <2>3. ASSUME NEW q \in Processors, NEW m \in newBills'[q]
        PROVE  bill'[m] = CompleteBill(m)
    <3>1. m \in Months /\ (m = x \/ m \in newBills[q])
      BY <1>2, <1>3, <2>3 DEF TypeOK
    <3>2. m # x => bill[m] = CompleteBill(m)
      BY <3>1 DEF IInv, BillInv, OpenBillsComplete
    <3> QED
      BY <1>3, <1>11, <3>1, <3>2
  <2>4. \A m \in history' : m \in Months /\ bill'[m] = CompleteBill(m)
    BY <1>1, <1>3, <2>2
  <2>5. OpenBillsComplete'
    <3>1. \A q \in Processors : newBills'[q] \subseteq Months
      BY DEF TypeOK
    <3> QED
      BY <2>1, <2>3, <3>1 DEF OpenBillsComplete
  <2> QED
    BY <2>1, <2>4, <2>5 DEF BillsAreComplete
<1> QED
  BY <1>5, <1>6, <1>7, <1>8, <1>9, <1>12, <1>13 DEF IInv, MonthInv, BillInv

LEMMA CommitConsolidationStep ==
  ASSUME IInv, TypeOK', NEW p \in Processors, CommitConsolidation(p)
  PROVE  IInv'
<1>1. /\ pc[p] = "month"
      /\ history' = history \cup newBills[p]
      /\ todo' = [todo EXCEPT ![p] = {}]
      /\ newBills' = [newBills EXCEPT ![p] = {}]
      /\ pc' = [pc EXCEPT ![p] = "idle"]
      /\ began' = [began EXCEPT ![p] = 0]
      /\ UNCHANGED <<now, happened, bill>>
      /\ Idle(p)
  BY DEF CommitConsolidation, Idle, usageVars, tableVars
<1>2. TypeOK
  BY DEF IInv
<1>3. /\ pc'[p] = "idle" /\ todo'[p] = {} /\ newBills'[p] = {}
      /\ \A q \in Processors \ {p} : /\ pc'[q] = pc[q] /\ todo'[q] = todo[q]
                                     /\ newBills'[q] = newBills[q]
                                     /\ began'[q] = began[q]
  BY <1>1, <1>2 DEF TypeOK
<1>4. ClockInv' /\ TableInv'
  BY <1>1, IdleKeepsTables
<1>5. RefreshedInTime' /\ TodoIsOld'
  BY <1>1, <1>3 DEF IInv, MonthInv, RefreshedInTime, InTime, TodoIsOld, MonthEnd
<1>6. BilledByOne'
  BY <1>1, <1>3 DEF IInv, MonthInv, BilledByOne
<1>7. MonthsInOrder'
  BY <1>1, <1>3 DEF IInv, MonthInv, MonthsInOrder, Billed
<1>8. NoGap' /\ NoMonthLeftOut'
  BY <1>1, <1>3 DEF IInv, MonthInv, NoGap, NoMonthLeftOut, Billed
<1>9. BilledIsOver'
  BY <1>1, <1>3 DEF IInv, BillInv, BilledIsOver, MonthEnd
<1>10. OpenBillsComplete' /\ BillsAreComplete'
  BY <1>1, <1>3 DEF IInv, BillInv, OpenBillsComplete, BillsAreComplete, CompleteBill,
                    MonthEnd
<1> QED
  BY <1>4, <1>5, <1>6, <1>7, <1>8, <1>9, <1>10 DEF IInv, MonthInv, BillInv

(* Rolling back takes out of the bills only what was never committed.      *)
LEMMA FailStep ==
  ASSUME IInv, TypeOK', NEW p \in Processors, Fail(p)
  PROVE  IInv'
<1>1. /\ bill' = [m \in Months |-> IF m \in newBills[p] THEN NoRows ELSE bill[m]]
      /\ todo' = [todo EXCEPT ![p] = {}]
      /\ newBills' = [newBills EXCEPT ![p] = {}]
      /\ pc' = [pc EXCEPT ![p] = "idle"]
      /\ began' = [began EXCEPT ![p] = 0]
      /\ UNCHANGED <<now, happened, history>>
      /\ Idle(p)
  BY DEF Fail, Rollback, Idle, usageVars, tableVars
<1>2. TypeOK
  BY DEF IInv
<1>3. /\ pc'[p] = "idle" /\ todo'[p] = {} /\ newBills'[p] = {}
      /\ \A q \in Processors \ {p} : /\ pc'[q] = pc[q] /\ todo'[q] = todo[q]
                                     /\ newBills'[q] = newBills[q]
                                     /\ began'[q] = began[q]
      /\ \A m \in Months \ newBills[p] : bill'[m] = bill[m]
  BY <1>1, <1>2 DEF TypeOK
<1>4. ClockInv' /\ TableInv'
  BY <1>1, IdleKeepsTables
<1>5. RefreshedInTime' /\ TodoIsOld'
  BY <1>1, <1>3 DEF IInv, MonthInv, RefreshedInTime, InTime, TodoIsOld, MonthEnd
<1>6. BilledByOne'
  BY <1>1, <1>3 DEF IInv, MonthInv, BilledByOne
<1>7. MonthsInOrder'
  BY <1>1, <1>3 DEF IInv, MonthInv, MonthsInOrder, Billed
<1>8. NoGap' /\ NoMonthLeftOut'
  BY <1>1, <1>3 DEF IInv, MonthInv, NoGap, NoMonthLeftOut, Billed
<1>9. BilledIsOver'
  BY <1>1, <1>3 DEF IInv, BillInv, BilledIsOver, MonthEnd
<1>10. \A m \in Months : CompleteBill(m)' = CompleteBill(m)
  BY <1>1 DEF CompleteBill, MonthEnd
<1>11. OpenBillsComplete'
  <2>1. \A q \in Processors : \A m \in newBills'[q] :
          m \in Months \ newBills[p] /\ bill[m] = CompleteBill(m)
    BY <1>2, <1>3 DEF IInv, MonthInv, BilledByOne, BillInv, OpenBillsComplete, TypeOK
  <2> QED
    BY <1>3, <1>10, <2>1 DEF OpenBillsComplete
<1>12. BillsAreComplete'
  <2>1. \A m \in history : m \in Months \ newBills[p] /\ bill[m] = CompleteBill(m)
    BY <1>2 DEF IInv, MonthInv, BilledByOne, BillInv, BillsAreComplete, TypeOK
  <2> QED
    BY <1>1, <1>3, <1>10, <2>1 DEF BillsAreComplete
<1> QED
  BY <1>4, <1>5, <1>6, <1>7, <1>8, <1>9, <1>11, <1>12 DEF IInv, MonthInv, BillInv

LEMMA StutterStep ==
  ASSUME IInv, UNCHANGED vars
  PROVE  IInv'
<1> USE DEF vars, usageVars, tableVars, ledgerVars, procVars
<1>1. TypeOK'
  BY TypeStep DEF IInv
<1>2. ClockInv'
  BY DEF IInv, ClockInv, RawComplete, HappenedInPast, BeganInPast
<1>3. TableInv'
  BY DEF IInv, TableInv, RowsHappened, OneBuilder, EventsDraftGood, EventsGood,
         ComponentsDraftGood, ComponentsGood, Complete, Recent
<1>4. MonthInv' /\ BillInv'
  BY DEF IInv, MonthInv, RefreshedInTime, InTime, TodoIsOld, BilledByOne,
         MonthsInOrder, NoGap, NoMonthLeftOut, Billed, MonthEnd, BillInv,
         BilledIsOver, OpenBillsComplete, BillsAreComplete, CompleteBill
<1> QED
  BY <1>1, <1>2, <1>3, <1>4 DEF IInv

------------------------------------------------------------------------------
LEMMA InvariantInit ==
  ASSUME Init
  PROVE  IInv
<1>1. TypeOK
  BY ClockAssumption DEF Init, TypeOK, PCs, Snapshot, NoRows
<1>2. ClockInv
  BY DEF Init, ClockInv, RawComplete, HappenedInPast, BeganInPast
<1>3. TableInv
  BY DEF Init, TableInv, RowsHappened, OneBuilder, EventsDraftGood, EventsGood,
         ComponentsDraftGood, ComponentsGood, Building, EventsDone, ComponentsDone,
         NoRows
<1>4. MonthInv /\ BillInv
  BY DEF Init, MonthInv, RefreshedInTime, TodoIsOld, BilledByOne, MonthsInOrder,
         NoGap, NoMonthLeftOut, Billed, BillInv, BilledIsOver, OpenBillsComplete,
         BillsAreComplete
<1> QED
  BY <1>1, <1>2, <1>3, <1>4 DEF IInv

LEMMA InvariantStep ==
  IInv /\ [Next]_vars => IInv'
<1> SUFFICES ASSUME IInv, [Next]_vars PROVE IInv'
  OBVIOUS
<1>1. TypeOK'
  BY TypeStep DEF IInv
<1>2. ASSUME NEW p \in Processors, Step(p)
      PROVE  IInv'
  BY <1>1, <1>2, BeginRefreshStep, BuildEventsStep, CommitEventsStep, CheckStep,
     BuildComponentsStep, CommitComponentsStep, BeginConsolidationStep,
     SkipMonthStep, NeedMonthStep, InsertMonthStep, CommitConsolidationStep, FailStep
     DEF Step
<1> QED
  BY <1>1, <1>2, HappenStep, ArriveStep, TickStep, StutterStep DEF Next, Environment

(* The inductive invariant holds in every reachable state.                 *)
THEOREM Invariance == Spec => []IInv
  BY InvariantInit, InvariantStep, PTL DEF Spec

(* A consolidated month has been computed from all the usage up to its     *)
(* end, whatever failed, came late or was replaced meanwhile.              *)
THEOREM BillsComplete == Spec => []BillsAreComplete
<1>1. IInv => BillsAreComplete
  BY DEF IInv, BillInv
<1> QED
  BY <1>1, Invariance, PTL

(* The consolidated months have no gap.                                    *)
THEOREM NoGapInHistory == Spec => []NoMonthLeftOut
<1>1. IInv => NoMonthLeftOut
  BY DEF IInv, MonthInv
<1> QED
  BY <1>1, Invariance, PTL

------------------------------------------------------------------------------
(* The ledger.                                                             *)

LEMMA SameMonths ==
  /\ Book!Months = Months /\ Book!Times = Times
  /\ \A m : Book!MonthEnd(m) = MonthEnd(m)
  /\ \A m : Book!CompleteBill(m) = CompleteBill(m)
  /\ Book!NoBill = NoRows
  BY DEF Book!Months, Months, Book!Times, Times, Book!MonthEnd, MonthEnd,
         Book!CompleteBill, CompleteBill, Book!NoBill, NoRows

(* What has not been committed is not in the ledger.                       *)
LEMMA LedgerStutter ==
  ASSUME UNCHANGED <<now, happened, history>>,
         \A m \in history : bill'[m] = bill[m]
  PROVE  UNCHANGED Book!vars
<1>1. Published' = Published
  BY DEF Published
<1> QED
  BY <1>1 DEF Book!vars

(* The commit of a consolidation is one step of the ledger.                *)
LEMMA CommitIsConsolidate ==
  ASSUME IInv, NEW p \in Processors, CommitConsolidation(p)
  PROVE  Book!Consolidate(newBills[p])
<1> USE SameMonths
<1>1. /\ history' = history \cup newBills[p]
      /\ UNCHANGED <<now, happened, bill>>
  BY DEF CommitConsolidation, Idle, usageVars
<1>2. newBills[p] \cap history = {} /\ newBills[p] \subseteq Months
  BY DEF IInv, MonthInv, BilledByOne, TypeOK
<1>3. \A m \in newBills[p] : MonthEnd(m) =< now
  BY DEF IInv, BillInv, BilledIsOver
<1>4. \A m \in newBills[p], k \in Months : k < m => k \in newBills[p] \cup history
  BY DEF IInv, MonthInv, NoGap, Billed
<1>5. Published' = [m \in Months |-> IF m \in newBills[p] THEN CompleteBill(m)
                                     ELSE Published[m]]
  <2>1. \A m \in newBills[p] : bill[m] = CompleteBill(m)
    BY DEF IInv, BillInv, OpenBillsComplete
  <2>2. ASSUME NEW m \in Months
        PROVE  (IF m \in history' THEN bill'[m] ELSE NoRows)
                 = (IF m \in newBills[p] THEN CompleteBill(m) ELSE Published[m])
    BY <1>1, <2>1 DEF Published
  <2> QED
    BY <2>2 DEF Published
<1> QED
  BY <1>1, <1>2, <1>3, <1>4, <1>5 DEF Book!Consolidate

LEMMA LedgerStep ==
  IInv /\ [Next]_vars => [Book!Next]_(Book!vars)
<1> SUFFICES ASSUME IInv, [Next]_vars
             PROVE  Book!Next \/ UNCHANGED Book!vars
  OBVIOUS
<1> USE SameMonths
<1>1. CASE Happen
  BY <1>1 DEF Happen, ledgerVars, Book!Next, Book!Happen, Published
<1>2. CASE Tick
  BY <1>2 DEF Tick, usageVars, ledgerVars, Book!Next, Book!Tick, Published
<1>3. ASSUME NEW t \in Times, Arrive(t)
      PROVE  UNCHANGED Book!vars
  BY <1>3, LedgerStutter DEF Arrive, ledgerVars
<1>4. ASSUME NEW p \in Processors, Step(p)
      PROVE  Book!Next \/ UNCHANGED Book!vars
  <2>1. CASE CommitConsolidation(p)
    <3>1. newBills[p] \in SUBSET Months
      BY DEF IInv, TypeOK
    <3> QED
      BY <2>1, <3>1, CommitIsConsolidate DEF Book!Next
  <2>2. ASSUME NEW m \in Months, InsertMonth(p, m)
        PROVE  UNCHANGED Book!vars
    <3>1. \A k \in history : bill'[k] = bill[k]
      BY <2>2 DEF InsertMonth, IInv, TypeOK
    <3> QED
      BY <2>2, <3>1, LedgerStutter DEF InsertMonth, usageVars
  <2>3. CASE Fail(p)
    <3>1. \A k \in history : k \in Months \ newBills[p]
      BY DEF IInv, MonthInv, BilledByOne, TypeOK
    <3> QED
      BY <2>3, <3>1, LedgerStutter DEF Fail, Rollback, Idle, usageVars
  <2>4. CASE \/ BeginRefresh(p) \/ BuildEvents(p) \/ CommitEvents(p) \/ CheckPlans(p)
             \/ BuildComponents(p) \/ CommitComponents(p) \/ CommitByDay(p)
             \/ BeginConsolidation(p)
             \/ \E m \in Months : SkipMonth(p, m) \/ NeedMonth(p, m)
    BY <2>4, LedgerStutter
       DEF BeginRefresh, BuildEvents, CommitEvents, CheckPlans, BuildComponents,
           CommitComponents, CommitByDay, BeginConsolidation, SkipMonth, NeedMonth,
           usageVars, ledgerVars
  <2> QED
    BY <1>4, <2>1, <2>2, <2>3, <2>4 DEF Step
<1>5. CASE UNCHANGED vars
  BY <1>5, LedgerStutter DEF vars, usageVars, ledgerVars
<1> QED
  BY <1>1, <1>2, <1>3, <1>4, <1>5 DEF Next, Environment

(* Refresh and consolidation implement the ledger: every month is billed   *)
(* once, after its end, in order, completely, and never changed again.     *)
THEOREM ImplementsTheLedger == Spec => ImplementsLedger
<1>1. Init => Book!Init
  BY SameMonths DEF Init, Book!Init, Published
<1> QED
  BY <1>1, Invariance, LedgerStep, PTL DEF Spec, ImplementsLedger, Book!Spec

------------------------------------------------------------------------------
(* The locks, statement by statement (TableLocks).                         *)

(* The sharers and the owner of a table exclude each other, between        *)
(* transactions nothing is held, and ConsolidateAll shares only the        *)
(* components.                                                             *)
HeldInv ==
  /\ \A p \in Contenders : at[p] \in {"idle", "refreshed"} =>
       shared[p] = {} /\ owned[p] = {}
  /\ \A p \in Contenders : at[p] \in Locks!Consolidating =>
       owned[p] = {} /\ shared[p] \subseteq {"components"}
  /\ \A p, q \in Contenders : p # q => owned[p] \cap (owned[q] \cup shared[q]) = {}

(* Only who has inserted a month reads components or holds what it has     *)
(* read.                                                                   *)
ReadInv ==
  /\ \A p \in Contenders : keys[p] # {} => at[p] \in Locks!Consolidating
  /\ \A p \in Contenders : at[p] = "bill" => keys[p] # {}
  /\ \A p \in Contenders : at[p] \in Locks!Consolidating /\ shared[p] # {} => keys[p] # {}

KeysInv ==
  /\ \A p \in Contenders : keys[p] \cap done = {}
  /\ \A p, q \in Contenders : p # q => keys[p] \cap keys[q] = {}
  /\ \A p \in Contenders : \A m \in due[p], k \in Locks!Months :
       k < m => k \in due[p] \cup done \cup keys[p]
  /\ \A p \in Contenders : \A m \in done \cup keys[p], k \in Locks!Months :
       k < m => k \in done \cup keys[p]
  /\ \A m \in done, k \in Locks!Months : k < m => k \in done

LocksInv == Locks!TypeOK /\ HeldInv /\ ReadInv /\ KeysInv

(* What a statement does to the locks: it takes its own, and still nobody   *)
(* shares what another owns.                                               *)
Takes(p, here, there) ==
  /\ at[p] = here
  /\ at' \in [Contenders -> Locks!PCs]
  /\ shared' \in [Contenders -> SUBSET Locks!Tables]
  /\ owned' \in [Contenders -> SUBSET Locks!Tables]
  /\ at'[p] = there
  /\ shared'[p] = shared[p] \cup {t \in Locks!Tables : <<here, t>> \in Locks!Shares}
  /\ owned'[p] = owned[p] \cup {t \in Locks!Tables : <<here, t>> \in Locks!Owns}
  /\ \A q \in Contenders \ {p} :
       /\ at'[q] = at[q]
       /\ shared'[q] = shared[q]
       /\ owned'[q] = owned[q]
  /\ \A a, b \in Contenders :
       a # b => owned'[a] \cap (owned'[b] \cup shared'[b]) = {}

LEMMA StatementTakes ==
  ASSUME Locks!TypeOK, HeldInv, NEW p \in Contenders, NEW here,
         NEW there \in Locks!PCs,
         Locks!Statement(p, here, there)
  PROVE  Takes(p, here, there)
<1>1. /\ at[p] = here
      /\ at' = [at EXCEPT ![p] = there]
      /\ shared' = [shared EXCEPT ![p] = @ \cup {t \in Locks!Tables : <<here, t>> \in Locks!Shares}]
      /\ owned' = [owned EXCEPT ![p] = @ \cup {t \in Locks!Tables : <<here, t>> \in Locks!Owns}]
      /\ Locks!Blockers(p) = {}
  BY DEF Locks!Statement, Locks!Execute
<1>2. /\ at \in [Contenders -> Locks!PCs]
      /\ shared \in [Contenders -> SUBSET Locks!Tables]
      /\ owned \in [Contenders -> SUBSET Locks!Tables]
  BY DEF Locks!TypeOK
<1>3. /\ shared'[p] = shared[p] \cup {t \in Locks!Tables : <<here, t>> \in Locks!Shares}
      /\ owned'[p] = owned[p] \cup {t \in Locks!Tables : <<here, t>> \in Locks!Owns}
      /\ at'[p] = there
      /\ \A q \in Contenders \ {p} :
              at'[q] = at[q] /\ shared'[q] = shared[q] /\ owned'[q] = owned[q]
  BY <1>1, <1>2
<1>4. \A q \in Contenders \ {p} :
         /\ \A t \in owned[q] : <<here, t>> \notin Locks!Shares
         /\ \A t \in owned[q] \cup shared[q] : <<here, t>> \notin Locks!Owns
  BY <1>1, Zenon DEF Locks!Blockers
<1>5. \A a, b \in Contenders : a # b => owned'[a] \cap (owned'[b] \cup shared'[b]) = {}
  <2>1. \A q \in Contenders \ {p} : /\ owned'[p] \cap (owned[q] \cup shared[q]) = {}
                                    /\ owned[q] \cap (owned'[p] \cup shared'[p]) = {}
    <3>1. \A q \in Contenders \ {p} : /\ owned[p] \cap (owned[q] \cup shared[q]) = {}
                                      /\ owned[q] \cap (owned[p] \cup shared[p]) = {}
      BY DEF HeldInv
    <3> QED
      BY <1>3, <1>4, <3>1
  <2>2. \A a, b \in Contenders \ {p} : a # b =>
          owned'[a] \cap (owned'[b] \cup shared'[b]) = {}
    BY <1>3 DEF HeldInv
  <2>3. \A q \in Contenders \ {p} : /\ owned'[p] \cap (owned'[q] \cup shared'[q]) = {}
                                    /\ owned'[q] \cap (owned'[p] \cup shared'[p]) = {}
    BY <1>3, <2>1
  <2> QED
    BY <2>2, <2>3
<1>6. /\ at' \in [Contenders -> Locks!PCs]
      /\ shared' \in [Contenders -> SUBSET Locks!Tables]
      /\ owned' \in [Contenders -> SUBSET Locks!Tables]
  BY <1>1, <1>2
<1> QED
  BY <1>1, <1>3, <1>5, <1>6 DEF Takes

(* A statement of Refresh, or the first of ConsolidateAll.                 *)
LEMMA LocksRefreshStatement ==
  ASSUME LocksInv, NEW p \in Contenders, NEW here \in Locks!Refreshing \cup {"idle"},
         NEW there \in Locks!Refreshing, Locks!Statement(p, here, there),
         UNCHANGED <<Locks!billVars, view>>
  PROVE  LocksInv'
<1>1. Locks!TypeOK /\ HeldInv /\ there \in Locks!PCs
  BY DEF LocksInv, Locks!PCs
<1>2. Takes(p, here, there)
  BY <1>1, StatementTakes
<1>3. Locks!TypeOK'
  BY <1>1, <1>2, Zenon DEF Takes, Locks!TypeOK, Locks!billVars
<1>4. /\ there \notin {"idle", "refreshed"} /\ there \notin Locks!Consolidating
      /\ here \notin Locks!Consolidating
  BY DEF Locks!Refreshing, Locks!Consolidating
<1>5. HeldInv'
  BY <1>1, <1>2, <1>4 DEF Takes, HeldInv
<1>6. keys[p] = {}
  BY <1>2, <1>4 DEF Takes, LocksInv, ReadInv
<1>7. ReadInv'
  BY <1>2, <1>4, <1>6 DEF Takes, LocksInv, ReadInv, Locks!billVars,
     Locks!Consolidating
<1>8. KeysInv'
  BY DEF LocksInv, KeysInv, Locks!billVars
<1> QED
  BY <1>3, <1>5, <1>7, <1>8 DEF LocksInv

(* The end of a transaction, by commit or by failure.                      *)
LEMMA RefreshEnds ==
  ASSUME LocksInv, NEW p \in Contenders,
         NEW there \in Locks!PCs \ Locks!Consolidating,
         keys[p] = {}, at' = [at EXCEPT ![p] = there], Locks!Release(p),
         UNCHANGED Locks!billVars, view' \in BOOLEAN
  PROVE  LocksInv'
<1>1. /\ at \in [Contenders -> Locks!PCs]
      /\ shared \in [Contenders -> SUBSET Locks!Tables]
      /\ owned \in [Contenders -> SUBSET Locks!Tables]
  BY DEF LocksInv, Locks!TypeOK
<1>2. /\ at'[p] = there /\ shared'[p] = {} /\ owned'[p] = {}
      /\ \A q \in Contenders \ {p} :
           at'[q] = at[q] /\ shared'[q] = shared[q] /\ owned'[q] = owned[q]
      /\ at' \in [Contenders -> Locks!PCs]
      /\ shared' \in [Contenders -> SUBSET Locks!Tables]
      /\ owned' \in [Contenders -> SUBSET Locks!Tables]
  BY <1>1 DEF Locks!Release
<1>3. Locks!TypeOK'
  BY <1>2, Zenon DEF LocksInv, Locks!TypeOK, Locks!billVars
<1>4. HeldInv'
  BY <1>2 DEF LocksInv, HeldInv
<1>5. ReadInv'
  BY <1>2 DEF LocksInv, ReadInv, Locks!billVars, Locks!Consolidating
<1>6. KeysInv'
  BY DEF LocksInv, KeysInv, Locks!billVars
<1> QED
  BY <1>3, <1>4, <1>5, <1>6 DEF LocksInv

(* The statement that finds the view may lock nothing.                     *)
LEMMA RefreshGoesOn ==
  ASSUME LocksInv, NEW p \in Contenders, at[p] = "byDay",
         at' = [at EXCEPT ![p] = "index"],
         UNCHANGED <<shared, owned, keys, due, done, view>>
  PROVE  LocksInv'
<1>1. Locks!TypeOK
  BY DEF LocksInv
<1>2. at \in [Contenders -> Locks!PCs]
  BY <1>1 DEF Locks!TypeOK
<1>3. "index" \in Locks!PCs
  BY DEF Locks!PCs, Locks!Refreshing
<1>4. /\ at' \in [Contenders -> Locks!PCs]
      /\ at'[p] = "index" /\ \A q \in Contenders \ {p} : at'[q] = at[q]
  BY <1>2, <1>3
<1>5. Locks!TypeOK'
  BY <1>1, <1>4, Zenon DEF Locks!TypeOK
<1>6. HeldInv' /\ ReadInv'
  BY <1>4 DEF LocksInv, HeldInv, ReadInv, Locks!Consolidating
<1> QED
  BY <1>5, <1>6 DEF LocksInv, KeysInv

(* Every step of Refresh keeps the invariant of the locks.                 *)
LEMMA LocksRefreshStep ==
  ASSUME LocksInv, NEW p \in Contenders, Locks!Refresh(p)
  PROVE  LocksInv'
<1>1. /\ at \in [Contenders -> Locks!PCs] /\ view \in BOOLEAN
  BY DEF LocksInv, Locks!TypeOK
<1>2. at[p] \in Locks!Refreshing => keys[p] = {}
  BY DEF LocksInv, ReadInv, Locks!Refreshing, Locks!Consolidating
<1> USE DEF Locks!Refreshing, Locks!PCs, Locks!Consolidating
<1>3. ASSUME NEW here \in Locks!Refreshing,
             NEW there \in Locks!Refreshing \cup {"refreshed"},
             Locks!Commit(p, here, there), UNCHANGED Locks!billVars, view' \in BOOLEAN
      PROVE  LocksInv'
  <2>1. at[p] = here /\ at' = [at EXCEPT ![p] = there] /\ Locks!Release(p)
    BY <1>3, Zenon DEF Locks!Commit, Locks!Execute
  <2>2. keys[p] = {}
    BY <1>2, <1>3, <2>1, Zenon
  <2>3. there \in Locks!PCs \ Locks!Consolidating
    OBVIOUS
  <2> QED
    BY <1>3, <2>1, <2>2, <2>3, RefreshEnds, Zenon
<1>4. CASE Locks!BeginRefresh(p)
  BY <1>4, LocksRefreshStatement DEF Locks!BeginRefresh
<1>5. CASE Locks!RegenerateEvents(p)
  BY <1>1, <1>3, <1>5, LocksRefreshStatement DEF Locks!RegenerateEvents
<1>6. CASE Locks!CheckPlans(p)
  BY <1>1, <1>3, <1>6, LocksRefreshStatement DEF Locks!CheckPlans
<1>7. CASE Locks!RegenerateComponents(p)
  BY <1>7, LocksRefreshStatement DEF Locks!RegenerateComponents
<1>8. CASE Locks!DropView(p)
  BY <1>3, <1>8 DEF Locks!DropView
<1>9. CASE Locks!CreateView(p)
  BY <1>3, <1>9 DEF Locks!CreateView
<1>10. CASE Locks!FindView(p)
  <2>1. CASE Locks!Statement(p, "byDay", "index")
    BY <1>10, <2>1, LocksRefreshStatement DEF Locks!FindView
  <2>2. CASE at[p] = "byDay" /\ at' = [at EXCEPT ![p] = "index"] /\ UNCHANGED Locks!locks
    <3>1. UNCHANGED <<shared, owned, keys, due, done, view>>
      BY <1>10, <2>2 DEF Locks!FindView, Locks!billVars, Locks!locks
    <3> QED
      BY <2>2, <3>1, RefreshGoesOn
  <2> QED
    BY <1>10, <2>1, <2>2 DEF Locks!FindView
<1>11. CASE Locks!RefreshView(p)
  BY <1>1, <1>3, <1>11, LocksRefreshStatement DEF Locks!RefreshView
<1> QED
  BY <1>4, <1>5, <1>6, <1>7, <1>8, <1>9, <1>10, <1>11 DEF Locks!Refresh

LEMMA MonthNumbers == \A k, m \in Locks!Months : k \in Nat /\ (k = m \/ k < m \/ m < k)
  BY LocksAssumption DEF Locks!MonthsAssumption, Locks!Months

(* So does every step of ConsolidateAll.                                   *)
LEMMA LocksConsolidateStep ==
  ASSUME LocksInv, NEW p \in Contenders, Locks!ConsolidateAll(p)
  PROVE  LocksInv'
<1> USE DEF Locks!Consolidating
<1>0. Locks!TypeOK /\ HeldInv /\ ReadInv /\ KeysInv
  BY DEF LocksInv
<1>1. /\ at \in [Contenders -> Locks!PCs]
      /\ due \in [Contenders -> SUBSET Locks!Months]
      /\ keys \in [Contenders -> SUBSET Locks!Months] /\ done \subseteq Locks!Months
      /\ view \in BOOLEAN
  BY <1>0 DEF Locks!TypeOK
<1>2. "month" \in Locks!PCs /\ "insert" \in Locks!PCs /\ "bill" \in Locks!PCs /\ "idle" \in Locks!PCs
  BY DEF Locks!PCs
<1>3. CASE Locks!BeginConsolidation(p)
  <2>1. PICK n \in 0 .. NumKeys : due' = [due EXCEPT ![p] = 0 .. n - 1]
    BY <1>3 DEF Locks!BeginConsolidation
  <2>2. Locks!Statement(p, "refreshed", "month") /\ UNCHANGED <<keys, done, view>>
    BY <1>3 DEF Locks!BeginConsolidation
  <2>3. Takes(p, "refreshed", "month")
    BY <1>0, <1>2, <2>2, StatementTakes
  <2>4. shared'[p] = {} /\ owned'[p] = {}
    BY <1>0, <2>3 DEF Takes, HeldInv, Locks!Shares, Locks!Owns
  <2>5. due'[p] = 0 .. n - 1 /\ 0 .. n - 1 \subseteq Locks!Months
        /\ \A q \in Contenders \ {p} : due'[q] = due[q]
    BY <1>1, <2>1, LocksAssumption DEF Locks!MonthsAssumption, Locks!Months
  <2>6. Locks!TypeOK'
    <3>1. due' \in [Contenders -> SUBSET Locks!Months]
      BY <1>1, <2>1, <2>5
    <3> QED
      BY <1>1, <2>2, <2>3, <3>1, Zenon DEF Takes, Locks!TypeOK
  <2>7. HeldInv' /\ ReadInv'
    BY <1>0, <2>2, <2>3, <2>4 DEF Takes, HeldInv, ReadInv
  <2>8. KeysInv'
    <3>1. \A m \in 0 .. n - 1, k \in Locks!Months : k < m => k \in 0 .. n - 1
      BY LocksAssumption DEF Locks!MonthsAssumption, Locks!Months
    <3> QED
      BY <1>0, <2>2, <2>5, <3>1 DEF KeysInv
  <2> QED
    BY <2>6, <2>7, <2>8 DEF LocksInv
<1>4. ASSUME NEW x \in Locks!Months, Locks!SkipMonth(p, x)
      PROVE  LocksInv'
  <2>1. /\ x \in done /\ due' = [due EXCEPT ![p] = @ \ {x}]
        /\ UNCHANGED <<at, shared, owned, keys, done, view>>
    BY <1>4 DEF Locks!SkipMonth, Locks!locks
  <2>2. due'[p] = due[p] \ {x} /\ \A q \in Contenders \ {p} : due'[q] = due[q]
        /\ due' \in [Contenders -> SUBSET Locks!Months]
    BY <1>1, <2>1
  <2>3. Locks!TypeOK'
    BY <1>0, <2>1, <2>2, Zenon DEF Locks!TypeOK
  <2>4. HeldInv' /\ ReadInv'
    BY <1>0, <2>1 DEF HeldInv, ReadInv
  <2>5. KeysInv'
    BY <1>0, <2>1, <2>2 DEF KeysInv
  <2> QED
    BY <2>3, <2>4, <2>5 DEF LocksInv
<1>5. ASSUME NEW x \in Locks!Months, Locks!NeedMonth(p, x)
      PROVE  LocksInv'
  <2>1. Locks!Statement(p, "month", "insert") /\ UNCHANGED <<keys, due, done, view>>
    BY <1>5 DEF Locks!NeedMonth, Locks!billVars
  <2>2. Takes(p, "month", "insert")
    BY <1>0, <1>2, <2>1, StatementTakes
  <2>3. shared'[p] = shared[p] /\ owned'[p] = owned[p]
    BY <2>2 DEF Takes, Locks!Shares, Locks!Owns
  <2>4. Locks!TypeOK'
    BY <1>0, <2>1, <2>2, Zenon DEF Takes, Locks!TypeOK
  <2>5. HeldInv' /\ ReadInv'
    BY <1>0, <2>1, <2>2, <2>3 DEF Takes, HeldInv, ReadInv
  <2>6. KeysInv'
    BY <1>0, <2>1 DEF KeysInv
  <2> QED
    BY <2>4, <2>5, <2>6 DEF LocksInv
<1>6. ASSUME NEW x \in Locks!Months, Locks!InsertKey(p, x)
      PROVE  LocksInv'
  <2>1. /\ Locks!Statement(p, "insert", "bill")
        /\ Locks!IsNextMonth(p, x) /\ x \notin done
        /\ keys' = [keys EXCEPT ![p] = @ \cup {x}]
        /\ due' = [due EXCEPT ![p] = @ \ {x}]
        /\ UNCHANGED <<done, view>>
    BY <1>6 DEF Locks!InsertKey
  <2>2. Takes(p, "insert", "bill")
    BY <1>0, <1>2, <2>1, StatementTakes
  <2>3. shared'[p] = shared[p] /\ owned'[p] = owned[p]
    BY <2>2 DEF Takes, Locks!Shares, Locks!Owns
  <2>4. keys'[p] = keys[p] \cup {x} /\ due'[p] = due[p] \ {x}
        /\ \A q \in Contenders \ {p} : keys'[q] = keys[q] /\ due'[q] = due[q]
        /\ keys' \in [Contenders -> SUBSET Locks!Months]
        /\ due' \in [Contenders -> SUBSET Locks!Months]
    BY <1>1, <2>1
  <2>5. \A q \in Contenders \ {p} : x \notin keys[q]
    <3>1. Locks!Blockers(p) = {}
      BY <2>1 DEF Locks!Statement, Locks!Execute
    <3> QED
      BY <2>1, <2>2, <3>1, Zenon DEF Takes, Locks!Blockers
  <2>6. Locks!TypeOK'
    BY <1>0, <2>1, <2>2, <2>4, Zenon DEF Takes, Locks!TypeOK
  <2>7. HeldInv' /\ ReadInv'
    BY <1>0, <2>1, <2>2, <2>3, <2>4 DEF Takes, HeldInv, ReadInv
  <2>8. KeysInv'
    <3>1. \A k \in Locks!Months : k < x => k \in done \cup keys[p]
      BY <1>0, <1>1, <2>1, MonthNumbers DEF KeysInv, Locks!IsNextMonth, Locks!Months
    <3> QED
      BY <1>0, <2>1, <2>4, <2>5, <3>1 DEF KeysInv
  <2> QED
    BY <2>6, <2>7, <2>8 DEF LocksInv
<1>7. CASE Locks!InsertBill(p)
  <2>1. Locks!Statement(p, "bill", "month") /\ UNCHANGED <<keys, due, done, view>>
    BY <1>7 DEF Locks!InsertBill, Locks!billVars
  <2>2. Takes(p, "bill", "month")
    BY <1>0, <1>2, <2>1, StatementTakes
  <2>3. shared'[p] \subseteq shared[p] \cup {"components"} /\ owned'[p] = owned[p]
    BY <2>2 DEF Takes, Locks!Shares, Locks!Owns
  <2>4. Locks!TypeOK'
    BY <1>0, <2>1, <2>2, Zenon DEF Takes, Locks!TypeOK
  <2>5. HeldInv' /\ ReadInv'
    BY <1>0, <2>1, <2>2, <2>3 DEF Takes, HeldInv, ReadInv
  <2>6. KeysInv'
    BY <1>0, <2>1 DEF KeysInv
  <2> QED
    BY <2>4, <2>5, <2>6 DEF LocksInv
<1>8. CASE Locks!CommitConsolidation(p)
  <2>1. /\ due[p] = {} /\ at' = [at EXCEPT ![p] = "idle"]
        /\ shared' = [shared EXCEPT ![p] = {}] /\ owned' = [owned EXCEPT ![p] = {}]
        /\ keys' = [keys EXCEPT ![p] = {}]
        /\ done' = done \cup keys[p]
        /\ UNCHANGED <<due, view>>
    BY <1>8 DEF Locks!CommitConsolidation, Locks!Commit, Locks!Execute, Locks!Release
  <2>2. /\ at'[p] = "idle" /\ shared'[p] = {} /\ owned'[p] = {} /\ keys'[p] = {}
        /\ \A q \in Contenders \ {p} :
             /\ at'[q] = at[q] /\ shared'[q] = shared[q] /\ owned'[q] = owned[q]
             /\ keys'[q] = keys[q]
        /\ done' \subseteq Locks!Months
    BY <1>0, <1>1, <2>1 DEF Locks!TypeOK
  <2>3. Locks!TypeOK'
    BY <1>0, <1>2, <2>1, <2>2 DEF Locks!TypeOK
  <2>4. HeldInv' /\ ReadInv'
    BY <1>0, <2>2 DEF HeldInv, ReadInv
  <2>5. KeysInv'
    BY <1>0, <1>1, <2>1, <2>2 DEF KeysInv
  <2> QED
    BY <2>3, <2>4, <2>5 DEF LocksInv
<1> QED
  BY <1>3, <1>4, <1>5, <1>6, <1>7, <1>8 DEF Locks!ConsolidateAll

LEMMA LocksFailStep ==
  ASSUME LocksInv, NEW p \in Contenders, Locks!Fail(p)
  PROVE  LocksInv'
<1>1. /\ at' = [at EXCEPT ![p] = "idle"]
      /\ shared' = [shared EXCEPT ![p] = {}] /\ owned' = [owned EXCEPT ![p] = {}]
      /\ keys' = [keys EXCEPT ![p] = {}] /\ due' = [due EXCEPT ![p] = {}]
      /\ UNCHANGED <<done, view>>
  BY DEF Locks!Fail, Locks!Release
<1>2. Locks!TypeOK
  BY DEF LocksInv
<1>3. /\ at'[p] = "idle" /\ shared'[p] = {} /\ owned'[p] = {} /\ keys'[p] = {}
      /\ due'[p] = {}
      /\ \A q \in Contenders \ {p} :
           /\ at'[q] = at[q] /\ shared'[q] = shared[q] /\ owned'[q] = owned[q]
           /\ keys'[q] = keys[q] /\ due'[q] = due[q]
  BY <1>1, <1>2 DEF Locks!TypeOK
<1>4. Locks!TypeOK'
  BY <1>1, <1>2 DEF Locks!TypeOK, Locks!PCs
<1>5. HeldInv' /\ ReadInv'
  BY <1>1, <1>3 DEF LocksInv, HeldInv, ReadInv, Locks!Consolidating
<1>6. KeysInv'
  BY <1>1, <1>3 DEF LocksInv, KeysInv
<1> QED
  BY <1>4, <1>5, <1>6 DEF LocksInv

(* Months are inserted in order, so only one open transaction has any.     *)
LEMMA OneHasKeys ==
  ASSUME LocksInv, NEW p \in Contenders, keys[p] # {}, NEW q \in Contenders \ {p}
  PROVE  keys[q] = {}
<1> SUFFICES ASSUME NEW m \in keys[q] PROVE FALSE
  OBVIOUS
<1>1. PICK n \in keys[p] : TRUE
  OBVIOUS
<1>2. m \in Locks!Months /\ n \in Locks!Months
  BY DEF LocksInv, Locks!TypeOK
<1>3. m \notin done /\ n \notin done /\ m \notin keys[p] /\ n \notin keys[q]
  BY DEF LocksInv, KeysInv
<1>4. m < n \/ n < m
  BY <1>2, <1>3, MonthNumbers
<1> QED
  BY <1>2, <1>3, <1>4 DEF LocksInv, KeysInv

(* A consolidation about to read components waits for transactions of      *)
(* Refresh only, and these then wait for none but each other, as no other  *)
(* consolidation has months; one without months is in nobody's way.        *)
LEMMA NoCircle ==
  LocksInv => Locks!ConsolidationInNoCircle
<1> SUFFICES ASSUME LocksInv, NEW p \in Contenders, at[p] \in Locks!Consolidating
             PROVE  \E others \in SUBSET (Contenders \ {p}) :
                      /\ Locks!WaitsFor(p) \subseteq others
                      /\ \A q \in others : Locks!WaitsFor(q) \subseteq others
  BY DEF Locks!ConsolidationInNoCircle
<1>1. Locks!TypeOK /\ HeldInv /\ ReadInv
  BY DEF LocksInv
<1>2. \A q \in Contenders : Locks!WaitsFor(q) \subseteq Contenders \ {q}
  BY DEF Locks!WaitsFor, Locks!Blockers, Locks!Ahead
<1>3. CASE Locks!WaitsFor(p) = {}
  BY <1>3
<1>4. CASE at[p] = "insert" /\ keys[p] = {}
  <2>1. shared[p] = {} /\ owned[p] = {}
    BY <1>1, <1>4 DEF HeldInv, ReadInv
  <2>2. \A t : <<"insert", t>> \notin Locks!Owns
    BY DEF Locks!Owns
  <2>3. \A q \in Contenders : p \notin Locks!WaitsFor(q)
    BY <1>4, <2>1, <2>2 DEF Locks!WaitsFor, Locks!Blockers, Locks!Ahead
  <2>4. Locks!WaitsFor(p) \subseteq Contenders \ {p}
    BY <1>2
  <2>5. \A q \in Contenders \ {p} : Locks!WaitsFor(q) \subseteq Contenders \ {p}
    BY <1>2, <2>3
  <2> QED
    BY <2>4, <2>5
<1>5. CASE at[p] = "bill" /\ "components" \notin shared[p]
  <2> DEFINE R == {q \in Contenders : at[q] \in Locks!Refreshing}
  <2>1. \A q \in Contenders \ {p} : keys[q] = {}
    BY <1>1, <1>5, OneHasKeys DEF ReadInv
  <2>2. shared[p] = {} /\ owned[p] = {}
    BY <1>1, <1>5 DEF HeldInv, Locks!Consolidating
  <2>3. \A q \in Contenders : at[q] \notin Locks!Refreshing => shared[q] = {} /\ owned[q] = {}
    <3>1. ASSUME NEW q \in Contenders, at[q] \notin Locks!Refreshing
          PROVE  shared[q] = {} /\ owned[q] = {}
      <4>1. at[q] \in Locks!Consolidating \/ at[q] \in {"idle", "refreshed"}
        BY <1>1, <3>1 DEF Locks!TypeOK, Locks!PCs
      <4> QED
        BY <1>1, <2>1, <2>2, <4>1 DEF HeldInv, ReadInv
    <3> QED
      BY <3>1
  <2>4. \A s, t : <<s, t>> \in Locks!Owns => s \in Locks!Refreshing
    BY DEF Locks!Owns, Locks!Refreshing
  <2>5. \A q \in Contenders : at[q] # "insert" => Locks!WaitsFor(q) \subseteq R
    BY <2>3, <2>4 DEF Locks!WaitsFor, Locks!Blockers, Locks!Ahead
  <2>6. p \notin R /\ \A q \in R : at[q] # "insert"
    BY DEF Locks!Refreshing, Locks!Consolidating
  <2>7. R \in SUBSET (Contenders \ {p})
    BY <2>6
  <2>8. Locks!WaitsFor(p) \subseteq R /\ \A q \in R : Locks!WaitsFor(q) \subseteq R
    BY <1>5, <2>5, <2>6
  <2> HIDE DEF R
  <2> QED
    BY <2>7, <2>8
<1>6. CASE at[p] = "month"
  <2>1. \A t : <<"month", t>> \notin Locks!Shares /\ <<"month", t>> \notin Locks!Owns
    BY DEF Locks!Shares, Locks!Owns
  <2>2. Locks!WaitsFor(p) = {}
    BY <1>6, <2>1 DEF Locks!WaitsFor, Locks!Blockers, Locks!Ahead
  <2> QED
    BY <1>3, <2>2
<1>7. CASE at[p] = "insert" /\ keys[p] # {}
  <2>1. \A t : <<"insert", t>> \notin Locks!Shares /\ <<"insert", t>> \notin Locks!Owns
    BY DEF Locks!Shares, Locks!Owns
  <2>2. Locks!WaitsFor(p) = {}
    BY <1>7, <2>1, OneHasKeys DEF Locks!WaitsFor, Locks!Blockers, Locks!Ahead
  <2> QED
    BY <1>3, <2>2
<1>8. CASE at[p] = "bill" /\ "components" \in shared[p]
  <2>1. \A q \in Contenders \ {p} : "components" \notin owned[q]
    BY <1>1, <1>8 DEF HeldInv
  <2>2. \A t : (<<"bill", t>> \in Locks!Shares => t = "components") /\ <<"bill", t>> \notin Locks!Owns
    BY DEF Locks!Shares, Locks!Owns
  <2>3. Locks!WaitsFor(p) = {}
    BY <1>8, <2>1, <2>2 DEF Locks!WaitsFor, Locks!Blockers, Locks!Ahead
  <2> QED
    BY <1>3, <2>3
<1> QED
  BY <1>4, <1>5, <1>6, <1>7, <1>8 DEF Locks!Consolidating

(* However many processors there are and however Refreshes block each      *)
(* other, a consolidation is in no circle of waits: a deadlock of the      *)
(* tables is never at its expense.                                         *)
THEOREM NoVictim == Locks!Spec => []ConsolidationInNoCircle
<1>1. Locks!Init => LocksInv
  <2> SUFFICES ASSUME Locks!Init PROVE LocksInv
    OBVIOUS
  <2>1. Locks!TypeOK
    BY DEF Locks!Init, Locks!TypeOK, Locks!PCs
  <2>2. HeldInv /\ ReadInv /\ KeysInv
    BY DEF Locks!Init, HeldInv, ReadInv, KeysInv, Locks!Consolidating
  <2> QED
    BY <2>1, <2>2 DEF LocksInv
<1>2. LocksInv /\ [Locks!Next]_(Locks!vars) => LocksInv'
  <2> SUFFICES ASSUME LocksInv, [Locks!Next]_(Locks!vars) PROVE LocksInv'
    OBVIOUS
  <2>1. CASE UNCHANGED Locks!vars
    BY <2>1 DEF Locks!vars, Locks!locks, Locks!billVars, LocksInv, Locks!TypeOK,
       HeldInv, ReadInv, KeysInv
  <2> QED
    BY <2>1, LocksRefreshStep, LocksConsolidateStep, LocksFailStep DEF Locks!Next
<1> QED
  BY <1>1, <1>2, NoCircle, PTL DEF Locks!Spec, ConsolidationInNoCircle
=============================================================================
