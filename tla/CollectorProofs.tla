--------------------------- MODULE CollectorProofs ---------------------------
(***************************************************************************)
(* Proofs about Collector for every number of collectors and events, every *)
(* page size and every choice of times that satisfies AgeAssumption.       *)
(*                                                                         *)
(* NoEventSkipped is not inductive by itself.  The argument goes through   *)
(* the life of a batch: what a response may still lack when it was         *)
(* evaluated (PageComplete), that the age check removes that doubt         *)
(* (BatchClosed), and that inserting in log order keeps every transaction  *)
(* gap-free at every step (InsertedClosed).                                *)
(***************************************************************************)
EXTENDS Collector, FiniteSetTheorems, WellFoundedInduction, TLAPS

(* A set of events in which only rolled back events are missing.           *)
Closed(S) ==
  \A f \in S, e \in Event : e < f => e \in S \/ status[e] = "aborted"

LogInOrder ==
  \A e, f \in Event :
    e < f /\ status[f] # "none" => status[e] # "none" /\ drawnAt[e] =< drawnAt[f]

DrawnInWindow ==
  \A e \in Event :
    status[e] # "none" => /\ drawnAt[e] =< now
                          /\ drawnAt[e] =< createdAt[e] + MaxSkew

OpenIsYoung ==
  \A e \in Event : status[e] = "open" => now =< drawnAt[e] + MaxTx

RowsVisible ==
  /\ stored \subseteq Visible
  /\ \A c \in Collectors : /\ inserted[c] \subseteq Visible
                           /\ events[c] \subseteq Visible
                           /\ todo[c] \subseteq Visible

Exclusive ==
  /\ \A c \in Collectors : /\ inserted[c] \cap stored = {}
                           /\ pc[c] # "store" => inserted[c] = {}
  /\ \A c, d \in Collectors : c # d => inserted[c] \cap inserted[d] = {}

TodoNotInserted ==
  \A c \in Collectors : inserted[c] \cap todo[c] = {}

AfterIsStored ==
  \A c \in Collectors : after[c] # NoEvent => after[c] \in stored

AskedInThePast ==
  \A c \in Collectors : askedAt[c] =< now

(* What a response can lack: events that were still open when it was made. *)
PageComplete ==
  \A c \in Collectors : pc[c] = "request" =>
    \A f \in events[c], e \in Event :
      after[c] < e /\ e < f =>
        \/ e \in events[c]
        \/ status[e] = "aborted"
        \/ askedAt[c] =< drawnAt[e] + MaxTx

BatchClosed ==
  \A c \in Collectors :
    pc[c] = "store" => Closed(stored \cup inserted[c] \cup todo[c])

InsertedClosed ==
  \A c \in Collectors : Closed(stored \cup inserted[c])

BelowPresent ==
  \A e \in Event : below[e] \subseteq Present

RowOrder ==
  \A c \in Collectors :
    \A e, f \in stored \cup inserted[c] :
      e < f => e \in below[f] /\ f \notin below[e]

LogInv == LogInOrder /\ DrawnInWindow /\ OpenIsYoung

BatchInv == /\ AfterIsStored
            /\ AskedInThePast
            /\ PageComplete
            /\ BatchClosed
            /\ InsertedClosed

RowInv == BelowPresent /\ RowOrder

IInv == /\ TypeOK
        /\ LogInv
        /\ RowsVisible
        /\ Exclusive
        /\ TodoNotInserted
        /\ BatchInv
        /\ RowInv
        /\ NoEventSkipped
        /\ IdOrderIsLogOrder

------------------------------------------------------------------------------
(* Rolling back or returning touches only the collector's own variables.   *)
LEMMA ReturnTypes ==
  ASSUME TypeOK, NEW c \in Collectors, NEW st \in States, Return(c, st),
         stored' \subseteq Event, below' \in [Event -> SUBSET Event]
  PROVE  TypeOK'
  BY BoundsAssumption DEF TypeOK, Return, cfVars, PCs

(* Every action keeps the types.                                           *)
LEMMA TypeStep ==
  TypeOK /\ [Next]_vars => TypeOK'
<1> SUFFICES ASSUME TypeOK, [Next]_vars PROVE TypeOK'
  OBVIOUS
<1> USE BoundsAssumption
<1>1. ASSUME NEW e \in Event, NEW created \in 0 .. MaxTime, CCInsert(e, created)
      PROVE  TypeOK'
  BY <1>1 DEF TypeOK, CCInsert, tableVars, collVars
<1>2. ASSUME NEW e \in Event, NEW outcome \in {"committed", "aborted"},
             CCEnd(e, outcome)
      PROVE  TypeOK'
  BY <1>2 DEF TypeOK, CCEnd, tableVars, collVars
<1>3. CASE Tick
  BY <1>3 DEF TypeOK, Tick, cfVars, tableVars, collVars
<1>4. ASSUME NEW c \in Collectors, Step(c)
      PROVE  TypeOK'
  <2>1. CASE GetLastEvent(c) \/ GetNoEvent(c)
    BY <2>1 DEF TypeOK, GetLastEvent, GetNoEvent, ResumeAfter, cfVars, tableVars, PCs
  <2>2. CASE Request(c)
    <3>1. PageAfter(after[c]) \subseteq Event
      BY DEF PageAfter, Visible
    <3> QED
      BY <2>2, <3>1 DEF TypeOK, Request, cfVars, tableVars, PCs
  <2>3. CASE Receive(c)
    <3>1. OldEnough(events[c]) \subseteq Event
      BY DEF OldEnough, TypeOK
    <3> QED
      BY <2>3, <3>1 DEF TypeOK, Receive, cfVars, tableVars, PCs
  <2>4. ASSUME NEW e \in Event, StoreUsageEvent(c, e)
        PROVE  TypeOK'
    <3>1. Present \subseteq Event
      BY DEF Present, TypeOK
    <3> QED
      BY <2>4, <3>1 DEF TypeOK, StoreUsageEvent, cfVars
  <2>5. CASE Commit(c) \/ CommitReplyLost(c)
    <3>1. NextState(after[c], events[c]) \in States /\ "waiting" \in States
      BY DEF NextState, States
    <3>2. stored' \subseteq Event /\ below' \in [Event -> SUBSET Event]
      BY <2>5 DEF Commit, CommitReplyLost, CommitRows, TypeOK
    <3> QED
      BY <2>5, <3>1, <3>2, ReturnTypes DEF Commit, CommitReplyLost
  <2>6. CASE Timeout(c) \/ CollectError(c) \/ Restart(c)
    <3>1. "waiting" \in States /\ "sync" \in States
      BY DEF States
    <3>2. stored' \subseteq Event /\ below' \in [Event -> SUBSET Event]
      BY <2>6 DEF Timeout, CollectError, Restart, Rollback, TypeOK
    <3> QED
      BY <2>6, <3>1, <3>2, ReturnTypes DEF Timeout, CollectError, Restart
  <2> QED
    BY <1>4, <2>1, <2>2, <2>3, <2>4, <2>5, <2>6 DEF Step
<1>5. CASE UNCHANGED vars
  BY <1>5 DEF TypeOK, vars, cfVars, tableVars, collVars
<1> QED
  BY <1>1, <1>2, <1>3, <1>4, <1>5 DEF Next, Environment

(* The types hold in every reachable state, whatever the constants.        *)
THEOREM TypeCorrect == Spec => []TypeOK
<1>1. Init => TypeOK
  BY BoundsAssumption DEF Init, TypeOK, PCs, States
<1> QED
  BY <1>1, TypeStep, PTL DEF Spec

------------------------------------------------------------------------------
LEMMA EventNat == /\ \A e \in Event : e \in Nat /\ NoEvent < e
                  /\ NoEvent \in Nat
  BY DEF Event, NoEvent

LEMMA VisibleResolved ==
  \A e \in Visible : e \in Event /\ status[e] = "committed"
  BY DEF Visible

(* A page contains every visible event between lastEvent and any of its    *)
(* own.                                                                    *)
LEMMA PageClosed ==
  ASSUME TypeOK, NEW g \in Event \cup {NoEvent},
         NEW e \in Visible, NEW f \in PageAfter(g), g < e, e < f
  PROVE  e \in PageAfter(g)
<1> DEFINE Upto(x) == {h \in Visible : g < h /\ h =< x}
<1>1. g \in Nat /\ e \in Nat /\ f \in Nat /\ \A h \in Visible : h \in Nat
  BY EventNat DEF PageAfter, Visible, NoEvent
<1>2. Upto(e) \subseteq Upto(f)
  <2>1. \A h \in Visible : h =< e => h =< f
    BY <1>1
  <2> QED
    BY <2>1
<1>3. IsFiniteSet(Upto(f)) /\ IsFiniteSet(Upto(e))
  <2>1. IsFiniteSet(Event)
    BY FS_Interval, BoundsAssumption DEF Event
  <2>2. Upto(e) \subseteq Event /\ Upto(f) \subseteq Event
    BY DEF Visible
  <2> QED
    BY <2>1, <2>2, FS_Subset
<1>4. Cardinality(Upto(e)) =< Cardinality(Upto(f))
  BY <1>2, <1>3, FS_Subset
<1>5. Cardinality(Upto(e)) \in Nat /\ Cardinality(Upto(f)) \in Nat
  BY <1>3, FS_CardinalityType
<1>6. Cardinality(Upto(f)) =< FetchLimit
  BY DEF PageAfter
<1>7. Cardinality(Upto(e)) =< FetchLimit
  <2> HIDE DEF Upto
  <2> QED
    BY <1>4, <1>5, <1>6, FetchLimitAssumption
<1> QED
  BY <1>7 DEF PageAfter

(* Two gap-free sets make a gap-free set.                                  *)
LEMMA ClosedUnion ==
  ASSUME NEW S, NEW T, Closed(S), Closed(T)
  PROVE  Closed(S \cup T)
  BY DEF Closed

(* While the log does not change, a set stays gap-free.                    *)
LEMMA ClosedFrame ==
  ASSUME NEW S, Closed(S), status' = status
  PROVE  Closed(S)'
  BY DEF Closed

------------------------------------------------------------------------------
(* The Cloud Controller and time.                                          *)

LEMMA CCInsertStep ==
  ASSUME IInv, TypeOK', NEW x \in Event, NEW created \in 0 .. MaxTime,
         CCInsert(x, created)
  PROVE  IInv'
<1> USE EventNat
<1>1. /\ status[x] = "none"
      /\ status' = [status EXCEPT ![x] = "open"]
      /\ drawnAt' = [drawnAt EXCEPT ![x] = now]
      /\ createdAt' = [createdAt EXCEPT ![x] = created]
      /\ now =< created + MaxSkew
      /\ \A f \in Event : f < x => status[f] # "none"
      /\ UNCHANGED <<now, stored, below, pc, state, after, events, todo,
                     askedAt, checkedAt, inserted>>
  BY DEF CCInsert, tableVars, collVars
<1>2. LogInv'
  BY <1>1, BoundsAssumption, AgeAssumption
     DEF IInv, TypeOK, LogInv, LogInOrder, DrawnInWindow, OpenIsYoung
<1>3. Visible' = Visible
  BY <1>1 DEF Visible, IInv, TypeOK
<1>4. RowsVisible' /\ Exclusive' /\ TodoNotInserted' /\ RowInv'
      /\ IdOrderIsLogOrder'
  BY <1>1, <1>3 DEF IInv, RowsVisible, Exclusive, TodoNotInserted, RowInv, BelowPresent,
                    Present, RowOrder, IdOrderIsLogOrder
<1>5. \A e \in Event : status[e] = "aborted" => status'[e] = "aborted"
  BY <1>1 DEF IInv, TypeOK
<1>6. \A f \in Visible, e \in Event : e < f => e # x
  BY <1>1, VisibleResolved DEF IInv, LogInv, LogInOrder
<1>7. PageComplete'
  <2> SUFFICES ASSUME NEW c \in Collectors, pc'[c] = "request",
                      NEW f \in events'[c], NEW e \in Event,
                      after'[c] < e, e < f
               PROVE  \/ e \in events'[c]
                      \/ status'[e] = "aborted"
                      \/ askedAt'[c] =< drawnAt'[e] + MaxTx
    BY DEF PageComplete
  <2>1. e # x
    BY <1>1, <1>6 DEF IInv, RowsVisible
  <2> QED
    BY <1>1, <1>5, <2>1 DEF IInv, BatchInv, PageComplete, TypeOK
<1>8. AfterIsStored' /\ AskedInThePast' /\ BatchClosed' /\ InsertedClosed'
      /\ NoEventSkipped'
  BY <1>1, <1>5 DEF IInv, BatchInv, AfterIsStored, AskedInThePast, BatchClosed,
                    InsertedClosed, NoEventSkipped, Closed
<1> QED
  BY <1>2, <1>4, <1>7, <1>8 DEF IInv, BatchInv

LEMMA CCEndStep ==
  ASSUME IInv, TypeOK', NEW x \in Event,
         NEW outcome \in {"committed", "aborted"}, CCEnd(x, outcome)
  PROVE  IInv'
<1> USE EventNat
<1>1. /\ status[x] = "open"
      /\ status' = [status EXCEPT ![x] = outcome]
      /\ UNCHANGED <<now, drawnAt, createdAt, stored, below, pc, state, after,
                     events, todo, askedAt, checkedAt, inserted>>
  BY DEF CCEnd, tableVars, collVars
<1>2. LogInv'
  BY <1>1 DEF IInv, TypeOK, LogInv, LogInOrder, DrawnInWindow, OpenIsYoung
<1>3. Visible \subseteq Visible'
  BY <1>1 DEF Visible, IInv, TypeOK
<1>4. RowsVisible' /\ Exclusive' /\ TodoNotInserted' /\ RowInv'
      /\ IdOrderIsLogOrder'
  BY <1>1, <1>3 DEF IInv, RowsVisible, Exclusive, TodoNotInserted, RowInv, BelowPresent,
                    Present, RowOrder, IdOrderIsLogOrder
<1>5. \A e \in Event : status[e] = "aborted" => status'[e] = "aborted"
  BY <1>1 DEF IInv, TypeOK
<1>6. BatchInv' /\ NoEventSkipped'
  BY <1>1, <1>5 DEF IInv, BatchInv, AfterIsStored, AskedInThePast, PageComplete,
                    BatchClosed, InsertedClosed, NoEventSkipped, Closed
<1> QED
  BY <1>2, <1>4, <1>6 DEF IInv

LEMMA TickStep ==
  ASSUME IInv, TypeOK', Tick
  PROVE  IInv'
<1> USE EventNat
<1>1. /\ now' = now + 1
      /\ \A e \in Event : status[e] = "open" => now < drawnAt[e] + MaxTx
      /\ UNCHANGED <<status, drawnAt, createdAt, stored, below, pc, state,
                     after, events, todo, askedAt, checkedAt, inserted>>
  BY DEF Tick, cfVars, tableVars, collVars
<1>2. LogInv' /\ AskedInThePast'
  BY <1>1, BoundsAssumption, AgeAssumption
     DEF IInv, TypeOK, BatchInv, LogInv, LogInOrder, DrawnInWindow, OpenIsYoung,
         AskedInThePast
<1>3. RowsVisible' /\ Exclusive' /\ TodoNotInserted' /\ RowInv'
      /\ IdOrderIsLogOrder'
  BY <1>1 DEF IInv, RowsVisible, Visible, Exclusive, TodoNotInserted, RowInv,
              BelowPresent, Present, RowOrder, IdOrderIsLogOrder
<1>4. AfterIsStored' /\ PageComplete' /\ BatchClosed' /\ InsertedClosed'
      /\ NoEventSkipped'
  BY <1>1 DEF IInv, BatchInv, AfterIsStored, PageComplete, BatchClosed,
              InsertedClosed, NoEventSkipped, Closed
<1> QED
  BY <1>2, <1>3, <1>4 DEF IInv, BatchInv

------------------------------------------------------------------------------
(* One pass of collect.                                                    *)

LEMMA GetLastEventStep ==
  ASSUME IInv, TypeOK', NEW c \in Collectors, GetLastEvent(c) \/ GetNoEvent(c)
  PROVE  IInv'
<1>1. /\ pc' = [pc EXCEPT ![c] = "fetch"]
      /\ UNCHANGED <<now, status, drawnAt, createdAt, stored, below, state,
                     events, todo, askedAt, checkedAt, inserted>>
  BY DEF GetLastEvent, GetNoEvent, ResumeAfter, cfVars, tableVars
<1>2. PICK e \in Event \cup {NoEvent} :
        (IsLastEvent(e) \/ e = NoEvent) /\ after' = [after EXCEPT ![c] = e]
  BY DEF GetLastEvent, GetNoEvent, ResumeAfter
<1>3. LogInv' /\ RowInv' /\ IdOrderIsLogOrder' /\ NoEventSkipped' /\ RowsVisible'
  BY <1>1 DEF IInv, LogInv, LogInOrder, DrawnInWindow, OpenIsYoung, RowInv,
              BelowPresent, Present, RowOrder, IdOrderIsLogOrder,
              NoEventSkipped, RowsVisible, Visible
<1>4. inserted[c] = {}
  BY DEF GetLastEvent, GetNoEvent, ResumeAfter, IInv, Exclusive
<1>5. Exclusive' /\ TodoNotInserted'
  BY <1>1, <1>4 DEF IInv, Exclusive, TodoNotInserted, TypeOK
<1>6. AfterIsStored'
  BY <1>1, <1>2 DEF IInv, BatchInv, AfterIsStored, IsLastEvent, TypeOK
<1>7. PageComplete' /\ BatchClosed'
  BY <1>1, <1>2 DEF IInv, BatchInv, PageComplete, BatchClosed, Closed, TypeOK
<1>8. AskedInThePast' /\ InsertedClosed'
  BY <1>1 DEF IInv, BatchInv, AskedInThePast, InsertedClosed, Closed
<1> QED
  BY <1>3, <1>5, <1>6, <1>7, <1>8 DEF IInv, BatchInv

LEMMA RequestStep ==
  ASSUME IInv, TypeOK', NEW c \in Collectors, Request(c)
  PROVE  IInv'
<1>1. /\ pc[c] = "fetch"
      /\ pc' = [pc EXCEPT ![c] = "request"]
      /\ events' = [events EXCEPT ![c] = PageAfter(after[c])]
      /\ askedAt' = [askedAt EXCEPT ![c] = now]
      /\ UNCHANGED <<now, status, drawnAt, createdAt, stored, below, state,
                     after, todo, checkedAt, inserted>>
  BY DEF Request, cfVars, tableVars
<1>2. LogInv' /\ RowInv' /\ IdOrderIsLogOrder' /\ NoEventSkipped'
  BY <1>1 DEF IInv, LogInv, LogInOrder, DrawnInWindow, OpenIsYoung, RowInv,
              BelowPresent, Present, RowOrder, IdOrderIsLogOrder, NoEventSkipped
<1>3. PageAfter(after[c]) \subseteq Visible
  BY DEF PageAfter
<1>4. RowsVisible'
  BY <1>1, <1>3 DEF IInv, RowsVisible, Visible, TypeOK
<1>5. Exclusive' /\ TodoNotInserted'
  BY <1>1 DEF IInv, Exclusive, TodoNotInserted, TypeOK
<1>6. AfterIsStored' /\ AskedInThePast' /\ BatchClosed' /\ InsertedClosed'
  BY <1>1 DEF IInv, BatchInv, AfterIsStored, AskedInThePast, BatchClosed,
              InsertedClosed, Closed, TypeOK
<1>7. ASSUME NEW f \in PageAfter(after[c]), NEW e \in Event, after[c] < e, e < f
      PROVE  \/ e \in PageAfter(after[c])
             \/ status[e] = "aborted"
             \/ now =< drawnAt[e] + MaxTx
  <2>1. f \in Event /\ status[f] = "committed"
    BY <1>3, VisibleResolved
  <2>2. status[e] # "none"
    BY <1>7, <2>1 DEF IInv, LogInv, LogInOrder
  <2>3. CASE status[e] = "committed"
    <3>1. e \in Visible /\ after[c] \in Event \cup {NoEvent} /\ TypeOK
      BY <2>3 DEF Visible, IInv, TypeOK
    <3> QED
      BY <1>7, <3>1, PageClosed
  <2>4. CASE status[e] = "open"
    BY <2>4 DEF IInv, LogInv, OpenIsYoung
  <2>5. status[e] \in {"none", "open", "committed", "aborted"}
    BY DEF IInv, TypeOK
  <2> QED
    BY <2>2, <2>3, <2>4, <2>5
<1>8. PageComplete'
  <2> SUFFICES ASSUME NEW d \in Collectors, pc'[d] = "request",
                      NEW f \in events'[d], NEW e \in Event,
                      after'[d] < e, e < f
               PROVE  \/ e \in events'[d]
                      \/ status'[e] = "aborted"
                      \/ askedAt'[d] =< drawnAt'[e] + MaxTx
    BY DEF PageComplete
  <2>1. CASE d = c
    BY <1>1, <1>7, <2>1 DEF IInv, TypeOK
  <2>2. CASE d # c
    BY <1>1, <2>2 DEF IInv, TypeOK, BatchInv, PageComplete
  <2> QED
    BY <2>1, <2>2
<1> QED
  BY <1>2, <1>4, <1>5, <1>6, <1>8 DEF IInv, BatchInv

(* The age check leaves a batch that joins the table without a gap: an     *)
(* event that was still open when the API was asked is younger than        *)
(* anything that is old enough now.                                        *)
LEMMA AgeCheck ==
  ASSUME IInv, NEW c \in Collectors, pc[c] = "request",
         now =< askedAt[c] + MaxRequest
  PROVE  Closed(stored \cup OldEnough(events[c]))
<1> USE EventNat
<1> SUFFICES ASSUME NEW f \in stored \cup OldEnough(events[c]), NEW e \in Event,
                    e < f
             PROVE  \/ e \in stored \cup OldEnough(events[c])
                    \/ status[e] = "aborted"
  BY DEF Closed
<1>0. after[c] \in Event \cup {NoEvent} /\ after[c] \in Nat
  <2>1. after[c] \in Event \cup {NoEvent}
    BY DEF IInv, TypeOK
  <2> QED
    BY <2>1
<1>1. CASE f \in stored
  BY <1>1 DEF IInv, NoEventSkipped
<1>2. CASE f \in OldEnough(events[c])
  <2>1. f \in events[c] /\ f \in Event /\ status[f] = "committed"
    BY <1>2, VisibleResolved DEF OldEnough, IInv, RowsVisible
  <2>2. CASE e =< after[c]
    <3>1. after[c] # NoEvent /\ after[c] \in stored
      BY <2>2 DEF NoEvent, IInv, BatchInv, AfterIsStored
    <3>2. CASE e = after[c]
      BY <3>1, <3>2
    <3>3. CASE e < after[c]
      BY <3>1, <3>3 DEF IInv, NoEventSkipped
    <3> QED
      BY <1>0, <2>2, <3>2, <3>3
  <2>3. CASE after[c] < e
    <3>1. \/ e \in events[c]
          \/ status[e] = "aborted"
          \/ askedAt[c] =< drawnAt[e] + MaxTx
      BY <2>1, <2>3 DEF IInv, BatchInv, PageComplete
    <3>2. CASE e \in events[c]
      <4>1. \A g \in events[c] : g =< e => g =< f
        BY <2>1 DEF IInv, TypeOK
      <4> QED
        BY <1>2, <3>2, <4>1 DEF OldEnough
    <3>3. ~(askedAt[c] =< drawnAt[e] + MaxTx)
      <4>1. createdAt[f] + MinAge =< now
        BY <1>2, <2>1 DEF OldEnough
      <4>2. drawnAt[f] =< createdAt[f] + MaxSkew
        BY <2>1 DEF IInv, LogInv, DrawnInWindow
      <4>3. drawnAt[e] =< drawnAt[f]
        BY <2>1 DEF IInv, LogInv, LogInOrder
      <4>4. /\ now \in Nat /\ askedAt[c] \in Nat
            /\ drawnAt[e] \in Nat /\ drawnAt[f] \in Nat /\ createdAt[f] \in Nat
        BY <2>1, BoundsAssumption DEF IInv, TypeOK
      <4> QED
        BY <4>1, <4>2, <4>3, <4>4, AgeAssumption
    <3> QED
      BY <3>1, <3>2, <3>3
  <2> QED
    BY <2>2, <2>3, <1>0
<1> QED
  BY <1>1, <1>2

LEMMA ReceiveStep ==
  ASSUME IInv, TypeOK', NEW c \in Collectors, Receive(c)
  PROVE  IInv'
<1>1. /\ pc[c] = "request"
      /\ pc' = [pc EXCEPT ![c] = "store"]
      /\ events' = [events EXCEPT ![c] = OldEnough(events[c])]
      /\ todo' = [todo EXCEPT ![c] = OldEnough(events[c])]
      /\ UNCHANGED <<now, status, drawnAt, createdAt, stored, below, state,
                     after, askedAt, inserted>>
  BY DEF Receive, cfVars, tableVars
<1>2. LogInv' /\ RowInv' /\ IdOrderIsLogOrder' /\ NoEventSkipped'
  BY <1>1 DEF IInv, LogInv, LogInOrder, DrawnInWindow, OpenIsYoung, RowInv,
              BelowPresent, Present, RowOrder, IdOrderIsLogOrder, NoEventSkipped
<1>3. OldEnough(events[c]) \subseteq events[c]
  BY DEF OldEnough
<1>4. RowsVisible'
  BY <1>1, <1>3 DEF IInv, RowsVisible, Visible, TypeOK
<1>5. inserted[c] = {}
  BY <1>1 DEF IInv, Exclusive
<1>6. Exclusive' /\ TodoNotInserted'
  BY <1>1, <1>5 DEF IInv, Exclusive, TodoNotInserted, TypeOK
<1>7. BatchClosed'
  <2> SUFFICES ASSUME NEW d \in Collectors, pc'[d] = "store"
               PROVE  Closed(stored \cup inserted[d] \cup todo'[d])
    BY <1>1 DEF BatchClosed, Closed
  <2>1. CASE d = c
    <3>1. Closed(stored \cup OldEnough(events[c]))
      BY AgeCheck, <1>1 DEF Receive
    <3>2. stored \cup inserted[d] \cup todo'[d] = stored \cup OldEnough(events[c])
      BY <1>1, <1>5, <2>1 DEF IInv, TypeOK
    <3> QED
      BY <3>1, <3>2
  <2>2. CASE d # c
    BY <1>1, <2>2 DEF IInv, TypeOK, BatchInv, BatchClosed
  <2> QED
    BY <2>1, <2>2
<1>8. AfterIsStored' /\ AskedInThePast' /\ InsertedClosed' /\ PageComplete'
  BY <1>1 DEF IInv, BatchInv, AfterIsStored, AskedInThePast, InsertedClosed,
              Closed, PageComplete, TypeOK
<1> QED
  BY <1>2, <1>4, <1>6, <1>7, <1>8 DEF IInv, BatchInv

(* Only one open transaction can hold rows: of two events the later one    *)
(* would be in a transaction that lacks the earlier one.                   *)
LEMMA OneHolder ==
  ASSUME IInv, NEW c \in Collectors, NEW d \in Collectors,
         inserted[c] # {}, inserted[d] # {}
  PROVE  c = d
<1> SUFFICES ASSUME c # d PROVE FALSE
  OBVIOUS
<1>1. PICK e \in inserted[c], f \in inserted[d] : TRUE
  OBVIOUS
<1>2. /\ e \in Event /\ status[e] = "committed"
      /\ f \in Event /\ status[f] = "committed"
  BY <1>1, VisibleResolved DEF IInv, RowsVisible
<1>3. /\ e # f
      /\ e \notin stored \cup inserted[d]
      /\ f \notin stored \cup inserted[c]
  BY <1>1 DEF IInv, Exclusive
<1>4. ~(e < f) /\ ~(f < e)
  BY <1>1, <1>2, <1>3 DEF IInv, BatchInv, InsertedClosed, Closed
<1> QED
  BY <1>2, <1>3, <1>4, EventNat

(* A row that is being inserted is the newest, and its predecessors in the *)
(* log are rows already.                                                   *)
LEMMA InsertRow ==
  ASSUME IInv, NEW c \in Collectors, NEW x \in Event,
         pc[c] = "store", IsNextRow(c, x), ~Held(c, x), x \notin stored
  PROVE  /\ x \notin Present
         /\ Closed(stored \cup inserted[c] \cup {x})
         /\ \A f \in stored \cup inserted[c] : f < x
<1>1. x \in todo[c] /\ status[x] = "committed"
  BY VisibleResolved DEF IsNextRow, IInv, RowsVisible
<1>2. Closed(stored \cup inserted[c] \cup todo[c])
  BY DEF IInv, BatchInv, BatchClosed
<1>3. \A e \in Event : e < x => e \notin todo[c]
  BY EventNat DEF IsNextRow, IInv, TypeOK
<1>4. \A e \in Event : e < x => e \in stored \cup inserted[c] \/ status[e] = "aborted"
  BY <1>1, <1>2, <1>3 DEF Closed
<1>5. Closed(stored \cup inserted[c])
  BY DEF IInv, BatchInv, InsertedClosed
<1>6. Closed(stored \cup inserted[c] \cup {x})
  BY <1>4, <1>5 DEF Closed
<1>7. x \notin inserted[c]
  <2> SUFFICES ASSUME x \in inserted[c] PROVE FALSE
    OBVIOUS
  <2> QED
    BY <1>1 DEF IInv, TodoNotInserted
<1>8. x \notin Present
  BY <1>7 DEF Present, Held
<1>9. \A f \in stored \cup inserted[c] : f < x
  <2> SUFFICES ASSUME NEW f \in stored \cup inserted[c] PROVE f < x
    OBVIOUS
  <2>1. f \in Event /\ f # x
    BY <1>7 DEF IInv, TypeOK
  <2>2. ~(x < f)
    BY <1>1, <1>5, <1>7 DEF Closed
  <2> QED
    BY <2>1, <2>2, EventNat
<1> QED
  BY <1>6, <1>8, <1>9

LEMMA StoreUsageEventStep ==
  ASSUME IInv, TypeOK', NEW c \in Collectors, NEW x \in Event,
         StoreUsageEvent(c, x)
  PROVE  IInv'
<1>1. /\ pc[c] = "store" /\ IsNextRow(c, x) /\ ~Held(c, x)
      /\ todo' = [todo EXCEPT ![c] = @ \ {x}]
      /\ UNCHANGED <<now, status, drawnAt, createdAt, stored, pc, state, after,
                     events, askedAt, checkedAt>>
  BY DEF StoreUsageEvent, cfVars
<1>2. LogInv' /\ NoEventSkipped' /\ AfterIsStored' /\ AskedInThePast'
      /\ PageComplete'
  BY <1>1 DEF IInv, LogInv, LogInOrder, DrawnInWindow, OpenIsYoung,
              NoEventSkipped, BatchInv, AfterIsStored, AskedInThePast,
              PageComplete
<1>3. x \in todo[c] /\ x \in Visible
  BY <1>1 DEF IsNextRow, IInv, RowsVisible
<1>4. CASE x \in stored
  <2>1. UNCHANGED <<inserted, below>>
    BY <1>4 DEF StoreUsageEvent
  <2>2. RowsVisible' /\ Exclusive' /\ InsertedClosed' /\ RowInv'
        /\ IdOrderIsLogOrder' /\ TodoNotInserted'
    BY <1>1, <2>1 DEF IInv, RowsVisible, Visible, Exclusive, BatchInv,
       InsertedClosed, Closed, RowInv, BelowPresent, Present, RowOrder,
       IdOrderIsLogOrder, TodoNotInserted, TypeOK
  <2>3. BatchClosed'
    BY <1>1, <1>4, <2>1 DEF IInv, BatchInv, BatchClosed, Closed, TypeOK
  <2> QED
    BY <1>2, <2>2, <2>3 DEF IInv, BatchInv
<1>5. CASE x \notin stored
  <2>1. /\ inserted' = [inserted EXCEPT ![c] = @ \cup {x}]
        /\ below' = [below EXCEPT ![x] = Present]
    BY <1>5 DEF StoreUsageEvent
  <2>2. /\ x \notin Present
        /\ Closed(stored \cup inserted[c] \cup {x})
        /\ \A f \in stored \cup inserted[c] : f < x
    BY <1>1, <1>5, InsertRow
  <2>3. RowsVisible'
    BY <1>1, <1>3, <2>1 DEF IInv, RowsVisible, Visible, TypeOK
  <2>4. Exclusive'
    BY <1>1, <1>5, <2>1 DEF IInv, Exclusive, Held, TypeOK
  <2>5. InsertedClosed'
    BY <1>1, <2>1, <2>2 DEF IInv, BatchInv, InsertedClosed, Closed, TypeOK
  <2>6. BatchClosed'
    BY <1>1, <1>3, <2>1 DEF IInv, BatchInv, BatchClosed, Closed, TypeOK
  <2>7. TodoNotInserted'
    BY <1>1, <2>1 DEF IInv, TodoNotInserted, TypeOK
  <2>8. Present' = Present \cup {x}
    BY <1>1, <2>1 DEF Present, IInv, TypeOK
  <2>9. BelowPresent'
    BY <2>1, <2>8 DEF IInv, RowInv, BelowPresent, TypeOK
  <2>10. \A e \in Event : e # x => below'[e] = below[e] /\ x \notin below[e]
    BY <2>1, <2>2 DEF IInv, RowInv, BelowPresent, TypeOK
  <2>11. below'[x] = Present
    BY <2>1 DEF IInv, TypeOK
  <2>12. RowOrder'
    <3> SUFFICES ASSUME NEW d \in Collectors,
                        NEW e \in stored \cup inserted'[d],
                        NEW f \in stored \cup inserted'[d], e < f
                 PROVE  e \in below'[f] /\ f \notin below'[e]
      BY <1>1 DEF RowOrder
    <3>1. e \in Event /\ f \in Event
      BY <1>1 DEF TypeOK
    <3>2. CASE e # x /\ f # x
      <4>1. e \in stored \cup inserted[d] /\ f \in stored \cup inserted[d]
        BY <2>1, <3>2 DEF IInv, TypeOK
      <4> QED
        BY <2>10, <3>1, <3>2, <4>1 DEF IInv, RowInv, RowOrder
    <3>3. CASE e = x \/ f = x
      <4>1. d = c
        BY <1>1, <1>5, <2>1, <3>3 DEF IInv, TypeOK, Held
      <4>2. e # x
        <5> SUFFICES ASSUME e = x PROVE FALSE
          OBVIOUS
        <5>1. f \in stored \cup inserted[c] \/ f = x
          BY <2>1, <4>1 DEF IInv, TypeOK
        <5>2. ~(f < x)
          BY <3>1, EventNat
        <5>3. f # x
          BY <3>1, EventNat
        <5> QED
          BY <2>2, <5>1, <5>2, <5>3
      <4>3. f = x
        BY <3>3, <4>2
      <4>4. e \in stored \cup inserted[c]
        BY <2>1, <4>1, <4>2 DEF IInv, TypeOK
      <4> QED
        BY <2>10, <2>11, <3>1, <4>2, <4>3, <4>4 DEF Present
    <3> QED
      BY <3>2, <3>3
  <2>13. IdOrderIsLogOrder'
    BY <1>1, <1>5, <2>10 DEF IInv, IdOrderIsLogOrder, TypeOK
  <2> QED
    BY <1>2, <2>3, <2>4, <2>5, <2>6, <2>7, <2>9, <2>12, <2>13
       DEF IInv, BatchInv, RowInv
<1> QED
  BY <1>4, <1>5

(* The part of the invariant that a return to the loop of Run leaves.      *)
LEMMA ReturnKeeps ==
  ASSUME IInv, TypeOK', NEW c \in Collectors, NEW st \in States, Return(c, st)
  PROVE  LogInv' /\ AskedInThePast' /\ PageComplete' /\ TodoNotInserted'
<1>1. /\ pc' = [pc EXCEPT ![c] = "waiting"]
      /\ after' = [after EXCEPT ![c] = NoEvent]
      /\ events' = [events EXCEPT ![c] = {}]
      /\ todo' = [todo EXCEPT ![c] = {}]
      /\ askedAt' = [askedAt EXCEPT ![c] = 0]
      /\ inserted' = [inserted EXCEPT ![c] = {}]
      /\ UNCHANGED <<now, status, drawnAt, createdAt>>
  BY DEF Return, cfVars
<1>2. LogInv'
  BY <1>1 DEF IInv, LogInv, LogInOrder, DrawnInWindow, OpenIsYoung
<1>3. AskedInThePast'
  BY <1>1, BoundsAssumption DEF IInv, BatchInv, AskedInThePast, TypeOK
<1>4. PageComplete'
  BY <1>1 DEF IInv, BatchInv, PageComplete, TypeOK
<1>5. TodoNotInserted'
  BY <1>1 DEF IInv, TodoNotInserted, TypeOK
<1> QED
  BY <1>2, <1>3, <1>4, <1>5

LEMMA CommitStep ==
  ASSUME IInv, TypeOK', NEW c \in Collectors, NEW st \in States,
         CommitRows(c), Return(c, st)
  PROVE  IInv'
<1>1. /\ stored' = stored \cup inserted[c]
      /\ pc' = [pc EXCEPT ![c] = "waiting"]
      /\ after' = [after EXCEPT ![c] = NoEvent]
      /\ events' = [events EXCEPT ![c] = {}]
      /\ todo' = [todo EXCEPT ![c] = {}]
      /\ inserted' = [inserted EXCEPT ![c] = {}]
      /\ UNCHANGED <<below, now, status, drawnAt, createdAt>>
  BY DEF CommitRows, Return, cfVars
<1>2. LogInv' /\ AskedInThePast' /\ PageComplete' /\ TodoNotInserted'
  BY ReturnKeeps
<1>3. RowsVisible' /\ Exclusive'
  BY <1>1 DEF IInv, RowsVisible, Visible, Exclusive, TypeOK
<1>4. AfterIsStored'
  BY <1>1 DEF IInv, BatchInv, AfterIsStored, TypeOK
<1>5. Present' = Present
  BY <1>1 DEF Present, IInv, TypeOK
<1>6. BelowPresent'
  BY <1>1, <1>5 DEF IInv, RowInv, BelowPresent
<1>7. Closed(stored \cup inserted[c])
  BY DEF IInv, BatchInv, InsertedClosed
<1>8. NoEventSkipped'
  BY <1>1, <1>7 DEF NoEventSkipped, Closed
<1>9. IdOrderIsLogOrder'
  BY <1>1 DEF IInv, RowInv, RowOrder, IdOrderIsLogOrder
<1>10. ASSUME NEW d \in Collectors
       PROVE  Closed(stored \cup inserted[d])'
  <2>1. Closed(stored \cup inserted[d])
    BY DEF IInv, BatchInv, InsertedClosed
  <2>2. Closed(stored' \cup inserted'[d])
    <3>1. CASE d = c
      BY <1>1, <1>7, <3>1 DEF IInv, TypeOK, Closed
    <3>2. CASE d # c
      BY <1>1, <1>7, <2>1, <3>2 DEF IInv, TypeOK, Closed
    <3> QED
      BY <3>1, <3>2
  <2> QED
    BY <1>1, <2>2 DEF Closed
<1>11. InsertedClosed'
  BY <1>10 DEF InsertedClosed
<1>12. BatchClosed'
  <2> SUFFICES ASSUME NEW d \in Collectors, pc'[d] = "store"
               PROVE  Closed(stored \cup inserted[d] \cup todo[d])'
    BY DEF BatchClosed
  <2>1. d # c /\ pc[d] = "store"
    BY <1>1 DEF IInv, TypeOK
  <2>2. Closed(stored \cup inserted[d] \cup todo[d])
    BY <2>1 DEF IInv, BatchInv, BatchClosed
  <2>3. inserted'[d] = inserted[d] /\ todo'[d] = todo[d]
    BY <1>1, <2>1 DEF IInv, TypeOK
  <2> QED
    BY <1>1, <1>7, <2>2, <2>3 DEF Closed
<1>13. RowOrder'
  <2> SUFFICES ASSUME NEW d \in Collectors
               PROVE  \A e, f \in stored' \cup inserted'[d] :
                        e < f => e \in below[f] /\ f \notin below[e]
    BY <1>1 DEF RowOrder
  <2>1. CASE inserted'[d] = {}
    BY <1>1, <2>1 DEF IInv, RowInv, RowOrder
  <2>2. CASE inserted'[d] # {}
    <3>1. d # c /\ inserted'[d] = inserted[d]
      BY <1>1, <2>2 DEF IInv, TypeOK
    <3>2. inserted[c] = {}
      BY <2>2, <3>1, OneHolder
    <3> QED
      BY <1>1, <3>1, <3>2 DEF IInv, RowInv, RowOrder
  <2> QED
    BY <2>1, <2>2
<1> QED
  BY <1>2, <1>3, <1>4, <1>6, <1>8, <1>9, <1>11, <1>12, <1>13
     DEF IInv, BatchInv, RowInv

LEMMA RollbackStep ==
  ASSUME IInv, TypeOK', NEW c \in Collectors, NEW st \in States,
         Rollback(c), Return(c, st)
  PROVE  IInv'
<1>1. /\ pc' = [pc EXCEPT ![c] = "waiting"]
      /\ after' = [after EXCEPT ![c] = NoEvent]
      /\ events' = [events EXCEPT ![c] = {}]
      /\ todo' = [todo EXCEPT ![c] = {}]
      /\ inserted' = [inserted EXCEPT ![c] = {}]
      /\ UNCHANGED <<stored, now, status, drawnAt, createdAt>>
  BY DEF Rollback, Return, cfVars
<1>2. LogInv' /\ AskedInThePast' /\ PageComplete' /\ TodoNotInserted'
  BY ReturnKeeps
<1>3. RowsVisible' /\ Exclusive'
  BY <1>1 DEF IInv, RowsVisible, Visible, Exclusive, TypeOK
<1>4. AfterIsStored' /\ NoEventSkipped'
  BY <1>1 DEF IInv, BatchInv, AfterIsStored, NoEventSkipped, TypeOK
<1>5. Closed(stored)
  BY DEF IInv, NoEventSkipped, Closed
<1>6. InsertedClosed' /\ BatchClosed'
  BY <1>1, <1>5 DEF IInv, BatchInv, InsertedClosed, BatchClosed, Closed, TypeOK
<1>7. \A e \in Event : e \notin inserted[c] => below'[e] = below[e] \ inserted[c]
  BY DEF Rollback
<1>8. \A e \in Event : e \in inserted[c] => below'[e] = {}
  BY DEF Rollback
<1>9. Present' = Present \ inserted[c]
  BY <1>1 DEF Present, IInv, Exclusive, TypeOK
<1>10. BelowPresent'
  BY <1>7, <1>8, <1>9 DEF IInv, RowInv, BelowPresent
<1>11. \A d \in Collectors : \A e \in stored \cup inserted'[d] :
         /\ e \in Event /\ e \notin inserted[c]
         /\ e \in stored \cup inserted[d]
  BY <1>1 DEF IInv, Exclusive, TypeOK
<1>12. RowOrder'
  BY <1>1, <1>7, <1>11 DEF IInv, RowInv, RowOrder
<1>13. \A e \in stored : e \in Event /\ e \notin inserted[c]
  BY DEF IInv, Exclusive, TypeOK
<1>14. IdOrderIsLogOrder'
  BY <1>1, <1>7, <1>13 DEF IInv, IdOrderIsLogOrder
<1> QED
  BY <1>2, <1>3, <1>4, <1>6, <1>10, <1>12, <1>14 DEF IInv, BatchInv, RowInv

------------------------------------------------------------------------------
(* The invariant.                                                          *)

LEMMA InitIInv == Init => IInv
<1> SUFFICES ASSUME Init PROVE IInv
  OBVIOUS
<1>1. TypeOK
  BY BoundsAssumption DEF Init, TypeOK, PCs, States
<1>2. LogInv /\ RowsVisible /\ Exclusive /\ TodoNotInserted
  BY DEF Init, LogInv, LogInOrder, DrawnInWindow, OpenIsYoung, RowsVisible,
         Exclusive, TodoNotInserted
<1>3. AfterIsStored /\ AskedInThePast /\ PageComplete /\ BatchClosed
      /\ InsertedClosed
  BY DEF Init, AfterIsStored, AskedInThePast, PageComplete, BatchClosed,
         InsertedClosed, Closed
<1>4. RowInv /\ NoEventSkipped /\ IdOrderIsLogOrder
  BY DEF Init, RowInv, BelowPresent, RowOrder, NoEventSkipped, IdOrderIsLogOrder
<1> QED
  BY <1>1, <1>2, <1>3, <1>4 DEF IInv, BatchInv

LEMMA NextIInv == IInv /\ [Next]_vars => IInv'
<1> SUFFICES ASSUME IInv, [Next]_vars PROVE IInv'
  OBVIOUS
<1>0. TypeOK'
  BY TypeStep DEF IInv
<1>1. ASSUME NEW e \in Event, NEW created \in 0 .. MaxTime, CCInsert(e, created)
      PROVE  IInv'
  BY <1>0, <1>1, CCInsertStep
<1>2. ASSUME NEW e \in Event, NEW outcome \in {"committed", "aborted"},
             CCEnd(e, outcome)
      PROVE  IInv'
  BY <1>0, <1>2, CCEndStep
<1>3. CASE Tick
  BY <1>0, <1>3, TickStep
<1>4. ASSUME NEW c \in Collectors, Step(c)
      PROVE  IInv'
  <2>1. "waiting" \in States /\ "sync" \in States
        /\ NextState(after[c], events[c]) \in States
    BY DEF States, NextState
  <2>2. CASE GetLastEvent(c) \/ GetNoEvent(c)
    BY <1>0, <2>2, GetLastEventStep
  <2>3. CASE Request(c)
    BY <1>0, <2>3, RequestStep
  <2>4. CASE Receive(c)
    BY <1>0, <2>4, ReceiveStep
  <2>5. ASSUME NEW e \in Event, StoreUsageEvent(c, e)
        PROVE  IInv'
    BY <1>0, <2>5, StoreUsageEventStep
  <2>6. CASE Commit(c) \/ CommitReplyLost(c)
    BY <1>0, <2>1, <2>6, CommitStep DEF Commit, CommitReplyLost
  <2>7. CASE Timeout(c) \/ CollectError(c) \/ Restart(c)
    BY <1>0, <2>1, <2>7, RollbackStep DEF Timeout, CollectError, Restart
  <2> QED
    BY <1>4, <2>2, <2>3, <2>4, <2>5, <2>6, <2>7 DEF Step
<1>5. CASE UNCHANGED vars
  BY <1>5 DEF vars, cfVars, tableVars, collVars, IInv, TypeOK, LogInv,
     LogInOrder, DrawnInWindow, OpenIsYoung, RowsVisible, Visible, Exclusive,
     TodoNotInserted, BatchInv, AfterIsStored, AskedInThePast, PageComplete,
     BatchClosed, InsertedClosed, Closed, RowInv, BelowPresent, Present,
     RowOrder, NoEventSkipped, IdOrderIsLogOrder
<1> QED
  BY <1>1, <1>2, <1>3, <1>4, <1>5 DEF Next, Environment

LEMMA Invariance == Spec => []IInv
  BY InitIInv, NextIInv, PTL DEF Spec

(* No usage event is ever skipped, for any number of collectors, whatever  *)
(* fails and however transactions and requests overlap, provided that      *)
(* RecordMinAge exceeds transaction, skew and request time (AgeAssumption).*)
THEOREM EventsNotSkipped == Spec => []NoEventSkipped
<1>1. IInv => NoEventSkipped
  BY DEF IInv
<1> QED
  BY <1>1, Invariance, PTL

(* The newest id always belongs to the last event of the log that is       *)
(* stored, so collection resumes at the right place.                       *)
THEOREM IdsFollowLog == Spec => []IdOrderIsLogOrder
<1>1. IInv => IdOrderIsLogOrder
  BY DEF IInv
<1> QED
  BY <1>1, Invariance, PTL

(* Overlapping StoreEvents transactions cannot deadlock.                   *)
THEOREM StoringGoesOn == Spec => []NoCircularWait
<1>1. IInv => NoCircularWait
  <2> SUFFICES ASSUME IInv, NEW c \in Collectors, pc[c] = "store"
               PROVE  \E b \in Collectors : pc[b] = "store" /\ ~Blocked(b)
    BY DEF NoCircularWait
  <2>1. CASE ~Blocked(c)
    BY <2>1
  <2>2. CASE Blocked(c)
    <3>1. PICK d \in Collectors : inserted[d] # {}
      BY <2>2 DEF Blocked, Held
    <3>2. pc[d] = "store"
      BY <3>1 DEF IInv, Exclusive
    <3>3. ~Blocked(d)
      BY <3>1, OneHolder DEF Blocked, Held
    <3> QED
      BY <3>2, <3>3
  <2> QED
    BY <2>1, <2>2
<1> QED
  BY <1>1, Invariance, PTL

------------------------------------------------------------------------------
(* Every step of the collectors is a step of the abstract feed or leaves   *)
(* it alone.                                                               *)
LEMMA FeedStep == IInv /\ [Next]_vars => [Feed!Next]_(Feed!vars)
<1> SUFFICES ASSUME IInv, [Next]_vars PROVE [Feed!Next]_(Feed!vars)
  OBVIOUS
<1> USE DEF Feed!vars
<1>0. Feed!Event = Event /\ Feed!Visible = Visible
  BY DEF Feed!Event, Event, Feed!Visible, Visible
<1>1. ASSUME NEW e \in Event, NEW created \in 0 .. MaxTime, CCInsert(e, created)
      PROVE  Feed!Next
  BY <1>0, <1>1 DEF CCInsert, tableVars, Feed!Next, Feed!Insert
<1>2. ASSUME NEW e \in Event, NEW outcome \in {"committed", "aborted"},
             CCEnd(e, outcome)
      PROVE  Feed!Next
  BY <1>0, <1>2 DEF CCEnd, tableVars, Feed!Next, Feed!End
<1>3. ASSUME NEW c \in Collectors, CommitRows(c), UNCHANGED cfVars
      PROVE  Feed!Next
  <2>1. inserted[c] \subseteq Visible /\ inserted[c] \in SUBSET Event
    BY DEF IInv, RowsVisible, TypeOK
  <2>2. Closed(stored \cup inserted[c])
    BY DEF IInv, BatchInv, InsertedClosed
  <2>3. Feed!Replicate(inserted[c])
    BY <1>0, <1>3, <2>1, <2>2 DEF CommitRows, cfVars, Feed!Replicate, Closed
  <2> QED
    BY <1>0, <2>1, <2>3 DEF Feed!Next
<1>4. ASSUME NEW c \in Collectors, Step(c)
      PROVE  Feed!Next \/ UNCHANGED <<status, stored>>
  <2>1. CASE Commit(c) \/ CommitReplyLost(c)
    BY <1>3, <2>1 DEF Commit, CommitReplyLost, Return
  <2>2. CASE \/ GetLastEvent(c) \/ GetNoEvent(c) \/ Request(c) \/ Receive(c)
             \/ \E e \in Event : StoreUsageEvent(c, e)
    BY <2>2 DEF GetLastEvent, GetNoEvent, ResumeAfter, Request, Receive, StoreUsageEvent, cfVars, tableVars
  <2>3. CASE Timeout(c) \/ CollectError(c) \/ Restart(c)
    BY <2>3 DEF Timeout, CollectError, Restart, Rollback, Return, cfVars
  <2> QED
    BY <1>4, <2>1, <2>2, <2>3 DEF Step
<1>5. CASE Tick
  BY <1>5 DEF Tick, cfVars, tableVars
<1>6. CASE UNCHANGED vars
  BY <1>6 DEF vars, cfVars, tableVars
<1> QED
  BY <1>1, <1>2, <1>4, <1>5, <1>6 DEF Next, Environment

(* The whole of the collection implements the abstract feed.               *)
THEOREM CollectorImplementsFeed == Spec => ImplementsEventFeed
<1>1. Init => Feed!Init
  BY DEF Init, Feed!Init, Feed!Event, Event
<1> QED
  BY <1>1, FeedStep, Invariance, PTL DEF Spec, ImplementsEventFeed, Feed!Spec

------------------------------------------------------------------------------
(* What a collector leaves to a later collect.                             *)

(* The clock of created_at is not ahead.                                   *)
CreatedBeforeDrawn ==
  \A e \in Event : status[e] # "none" => createdAt[e] =< drawnAt[e]

(* A batch is of events after the last one.                                *)
BatchIsNew ==
  \A c \in Collectors : pc[c] \in {"request", "store"} =>
    \A f \in events[c] : after[c] < f

(* A response reaches below every event after the last one, unless its     *)
(* transaction may have been open when the API was asked.                  *)
Begins(c, e) == \E f \in events[c] : f =< e

PageBegins ==
  \A c \in Collectors : pc[c] = "request" =>
    \A e \in Event :
      after[c] < e /\ status[e] \in {"open", "committed"} =>
        askedAt[c] =< drawnAt[e] + MaxTx \/ Begins(c, e)

(* So does the batch, unless the event may have been too young.            *)
BatchBegins ==
  \A c \in Collectors : pc[c] = "store" =>
    \A e \in Event :
      after[c] < e /\ status[e] \in {"open", "committed"} =>
        \/ askedAt[c] =< drawnAt[e] + MaxTx
        \/ checkedAt[c] < createdAt[e] + MinAge + MaxSkew
        \/ Begins(c, e)

ReachInv == CreatedBeforeDrawn /\ BatchIsNew /\ PageBegins /\ BatchBegins

(* A set of numbers that is not empty has a least.                         *)
LEMMA LeastNat ==
  ASSUME NEW T \in SUBSET Nat, T # {}
  PROVE  \E n \in T : \A m \in T : n =< m
<1> DEFINE R == OpToRel(<, Nat)
<1>1. IsWellFoundedOn(R, Nat)
  BY NatLessThanWellFounded
<1>2. \A m, n \in Nat : m < n => <<m, n>> \in R
  BY DEF OpToRel
<1> HIDE DEF R
<1>3. PICK n \in T : \A m \in T : ~(<<m, n>> \in R)
  BY <1>1, WFMin
<1>4. \A m \in T : ~(m < n)
  BY <1>2, <1>3
<1> QED
  BY <1>4

(* The first visible event after lastEvent is on the page.                 *)
LEMMA PageHasFirst ==
  ASSUME TypeOK, NEW g \in Event \cup {NoEvent}, NEW e \in Visible, g < e
  PROVE  \E f \in PageAfter(g) : f =< e
<1> DEFINE T == {h \in Visible : g < h}
<1>1. g \in Nat /\ T \subseteq Nat /\ e \in T
  BY EventNat DEF Visible, NoEvent
<1>2. PICK f \in T : \A h \in T : f =< h
  BY <1>1, LeastNat
<1>3. {h \in Visible : g < h /\ h =< f} = {f}
  BY <1>1, <1>2, EventNat
<1>4. Cardinality({h \in Visible : g < h /\ h =< f}) = 1
  BY <1>3, FS_Singleton
<1>5. f \in PageAfter(g)
  BY <1>2, <1>4, FetchLimitAssumption DEF PageAfter
<1> QED
  BY <1>1, <1>2, <1>5

LEMMA ReachLog ==
  ASSUME IInv, ReachInv, TypeOK',
         \/ \E e \in Event, created \in 0 .. MaxTime : CCInsert(e, created)
         \/ \E e \in Event, outcome \in {"committed", "aborted"} : CCEnd(e, outcome)
  PROVE  ReachInv'
<1> USE EventNat
<1>1. TypeOK /\ AskedInThePast
  BY DEF IInv, BatchInv
<1>2. PICK x \in Event :
        /\ \A e \in Event \ {x} : /\ status'[e] = status[e] /\ drawnAt'[e] = drawnAt[e]
                                  /\ createdAt'[e] = createdAt[e]
        /\ \/ status[x] = "open" /\ UNCHANGED <<drawnAt, createdAt>>
           \/ drawnAt'[x] = now /\ createdAt'[x] =< now
  BY <1>1 DEF CCInsert, CCEnd, TypeOK
<1>3. UNCHANGED <<now, stored, pc, after, events, askedAt, checkedAt>>
  BY DEF CCInsert, CCEnd, tableVars, collVars
<1>4. \A c \in Collectors : askedAt[c] \in Nat /\ askedAt[c] =< now /\ now \in Nat
  BY <1>1, BoundsAssumption DEF TypeOK, AskedInThePast
<1>5. CreatedBeforeDrawn' /\ BatchIsNew'
  BY <1>2, <1>3 DEF ReachInv, CreatedBeforeDrawn, BatchIsNew
<1>6. PageBegins'
  BY <1>2, <1>3, <1>4, AgeAssumption DEF ReachInv, PageBegins, Begins
<1>7. BatchBegins'
  BY <1>2, <1>3, <1>4, AgeAssumption DEF ReachInv, BatchBegins, Begins
<1> QED
  BY <1>5, <1>6, <1>7 DEF ReachInv

(* A step that leaves the log, and the batches of others, alone.           *)
LEMMA ReachFrame ==
  ASSUME TypeOK, ReachInv, UNCHANGED <<status, drawnAt, createdAt>>,
         \A c \in Collectors : \/ pc'[c] \notin {"request", "store"}
                               \/ /\ pc'[c] = pc[c] /\ after'[c] = after[c]
                                  /\ events'[c] = events[c] /\ askedAt'[c] = askedAt[c]
                                  /\ checkedAt'[c] = checkedAt[c]
  PROVE  ReachInv'
BY DEF ReachInv, CreatedBeforeDrawn, BatchIsNew, PageBegins, BatchBegins, Begins

LEMMA ReachRequest ==
  ASSUME IInv, ReachInv, NEW c \in Collectors, Request(c)
  PROVE  ReachInv'
<1> USE EventNat
<1>1. TypeOK /\ LogInv
  BY DEF IInv
<1>2. /\ pc' = [pc EXCEPT ![c] = "request"] /\ events' = [events EXCEPT ![c] = PageAfter(after[c])]
      /\ askedAt' = [askedAt EXCEPT ![c] = now]
      /\ UNCHANGED <<status, drawnAt, createdAt, after, checkedAt>>
  BY DEF Request, cfVars
<1>3. \A d \in Collectors \ {c} : /\ pc'[d] = pc[d] /\ events'[d] = events[d]
                                  /\ askedAt'[d] = askedAt[d]
  BY <1>1, <1>2 DEF TypeOK
<1>4. pc'[c] = "request" /\ events'[c] = PageAfter(after[c]) /\ askedAt'[c] = now
  BY <1>1, <1>2 DEF TypeOK
<1>5. BatchIsNew'
  BY <1>2, <1>3, <1>4 DEF ReachInv, BatchIsNew, PageAfter
<1>6. ASSUME NEW e \in Event, after[c] < e, status[e] \in {"open", "committed"}
      PROVE  now =< drawnAt[e] + MaxTx \/ \E f \in PageAfter(after[c]) : f =< e
  <2>1. CASE status[e] = "open"
    BY <1>1, <2>1 DEF LogInv, OpenIsYoung
  <2>2. CASE status[e] = "committed"
    <3>1. after[c] \in Event \cup {NoEvent}
      BY <1>1 DEF TypeOK
    <3> QED
      BY <1>1, <1>6, <2>2, <3>1, PageHasFirst DEF Visible
  <2> QED
    BY <1>6, <2>1, <2>2
<1>7. PageBegins'
  BY <1>2, <1>3, <1>4, <1>6 DEF ReachInv, PageBegins, Begins
<1>8. CreatedBeforeDrawn' /\ BatchBegins'
  BY <1>2, <1>3, <1>4 DEF ReachInv, CreatedBeforeDrawn, BatchBegins, Begins
<1> QED
  BY <1>5, <1>7, <1>8 DEF ReachInv

LEMMA ReachReceive ==
  ASSUME IInv, ReachInv, NEW c \in Collectors, Receive(c)
  PROVE  ReachInv'
<1> USE EventNat
<1>1. TypeOK /\ LogInv /\ RowsVisible
  BY DEF IInv
<1>2. /\ pc[c] = "request" /\ pc' = [pc EXCEPT ![c] = "store"]
      /\ events' = [events EXCEPT ![c] = OldEnough(events[c])]
      /\ checkedAt' = [checkedAt EXCEPT ![c] = now]
      /\ UNCHANGED <<status, drawnAt, createdAt, after, askedAt>>
  BY DEF Receive, cfVars
<1>3. \A d \in Collectors \ {c} : /\ pc'[d] = pc[d] /\ events'[d] = events[d]
                                  /\ checkedAt'[d] = checkedAt[d]
  BY <1>1, <1>2 DEF TypeOK
<1>4. pc'[c] = "store" /\ events'[c] = OldEnough(events[c]) /\ checkedAt'[c] = now
  BY <1>1, <1>2 DEF TypeOK
<1>5. BatchIsNew'
  BY <1>2, <1>3, <1>4 DEF ReachInv, BatchIsNew, OldEnough
<1>6. ASSUME NEW e \in Event, after[c] < e, status[e] \in {"open", "committed"},
             ~(askedAt[c] =< drawnAt[e] + MaxTx),
             ~(\E f \in OldEnough(events[c]) : f =< e)
      PROVE  now < createdAt[e] + MinAge + MaxSkew
  <2>1. PICK f \in events[c] : f =< e
    BY <1>2, <1>6 DEF ReachInv, PageBegins, Begins
  <2>2. PICK g \in events[c] : g =< f /\ ~(createdAt[g] + MinAge =< now)
    BY <1>6, <2>1 DEF OldEnough
  <2>3. g \in Event /\ f \in Event /\ g =< e /\ status[g] = "committed"
    BY <1>1, <2>1, <2>2 DEF TypeOK, RowsVisible, Visible
  <2>4. {createdAt[g], drawnAt[g], createdAt[e], drawnAt[e], now} \subseteq Nat
    BY <1>1, <2>3, BoundsAssumption DEF TypeOK
  <2>5. drawnAt[g] =< drawnAt[e]
    <3>1. CASE g = e
      BY <2>4, <3>1
    <3>2. CASE g < e
      BY <1>1, <1>6, <2>3, <3>2 DEF LogInv, LogInOrder
    <3> QED
      BY <2>3, <3>1, <3>2
  <2>6. createdAt[g] =< drawnAt[g] /\ drawnAt[e] =< createdAt[e] + MaxSkew
    BY <1>1, <1>6, <2>3 DEF ReachInv, CreatedBeforeDrawn, LogInv, DrawnInWindow
  <2> QED
    BY <2>2, <2>4, <2>5, <2>6, AgeAssumption
<1>7. BatchBegins'
  <2> SUFFICES ASSUME NEW d \in Collectors, pc'[d] = "store", NEW e \in Event,
                      after[d] < e, status[e] \in {"open", "committed"}
               PROVE  \/ askedAt[d] =< drawnAt[e] + MaxTx
                      \/ checkedAt'[d] < createdAt[e] + MinAge + MaxSkew
                      \/ \E f \in events'[d] : f =< e
    BY <1>2 DEF BatchBegins, Begins
  <2>1. CASE d = c
    BY <1>4, <1>6, <2>1
  <2>2. CASE d # c
    BY <1>3, <2>2 DEF ReachInv, BatchBegins, Begins
  <2> QED
    BY <2>1, <2>2
<1>8. CreatedBeforeDrawn' /\ PageBegins'
  BY <1>2, <1>3, <1>4 DEF ReachInv, CreatedBeforeDrawn, PageBegins, Begins
<1> QED
  BY <1>5, <1>7, <1>8 DEF ReachInv

LEMMA ReachStep == IInv /\ ReachInv /\ [Next]_vars => ReachInv'
<1> SUFFICES ASSUME IInv, ReachInv, [Next]_vars PROVE ReachInv'
  OBVIOUS
<1>1. TypeOK /\ TypeOK'
  BY TypeStep DEF IInv
<1>2. CASE \/ \E e \in Event, created \in 0 .. MaxTime : CCInsert(e, created)
           \/ \E e \in Event, outcome \in {"committed", "aborted"} : CCEnd(e, outcome)
  BY <1>1, <1>2, ReachLog
<1>3. CASE Tick \/ UNCHANGED vars
  BY <1>1, <1>3, ReachFrame DEF Tick, vars, cfVars, collVars
<1>4. ASSUME NEW c \in Collectors, Step(c) PROVE ReachInv'
  <2>1. CASE Request(c) \/ Receive(c)
    BY <2>1, ReachRequest, ReachReceive
  <2>2. CASE GetLastEvent(c) \/ GetNoEvent(c)
    <3>1. /\ pc' = [pc EXCEPT ![c] = "fetch"] /\ \E e : after' = [after EXCEPT ![c] = e]
          /\ UNCHANGED <<status, drawnAt, createdAt, events, askedAt, checkedAt>>
      BY <2>2 DEF GetLastEvent, GetNoEvent, ResumeAfter, cfVars
    <3> QED
      BY <1>1, <3>1, ReachFrame DEF TypeOK
  <2>3. ASSUME NEW e \in Event, StoreUsageEvent(c, e) PROVE ReachInv'
    BY <1>1, <2>3, ReachFrame DEF StoreUsageEvent, cfVars
  <2>4. CASE Commit(c) \/ CommitReplyLost(c) \/ Timeout(c) \/ CollectError(c) \/ Restart(c)
    <3>1. PICK st : Return(c, st)
      BY <2>4 DEF Commit, CommitReplyLost, Timeout, CollectError, Restart
    <3>2. \A d \in Collectors :
            \/ pc'[d] = "waiting"
            \/ /\ pc'[d] = pc[d] /\ after'[d] = after[d] /\ events'[d] = events[d]
               /\ askedAt'[d] = askedAt[d] /\ checkedAt'[d] = checkedAt[d]
      BY <1>1, <3>1 DEF Return, TypeOK
    <3> QED
      BY <1>1, <3>1, <3>2, ReachFrame DEF Return, cfVars
  <2> QED
    BY <1>4, <2>1, <2>2, <2>3, <2>4 DEF Step
<1> QED
  BY <1>2, <1>3, <1>4 DEF Next, Environment

(* A commit after which the collector waits had nothing in its batch.      *)
LEMMA NothingLeftBehind ==
  ASSUME IInv, ReachInv, NEW c \in Collectors, Commit(c), state'[c] = "waiting"
  PROVE  CaughtUp(c)
<1> USE EventNat
<1>1. TypeOK /\ AfterIsStored /\ NoEventSkipped
  BY DEF IInv, BatchInv
<1>2. pc[c] = "store" /\ stored \subseteq stored'
  BY DEF Commit, CommitRows
<1>3. NextState(after[c], events[c]) = "waiting"
  BY <1>1 DEF Commit, Return, TypeOK
<1>4. events[c] = {}
  <2>1. after[c] \notin events[c]
    <3>1. after[c] \in Nat
      BY <1>1 DEF TypeOK, NoEvent
    <3> QED
      BY <1>2, <3>1 DEF ReachInv, BatchIsNew
  <2> QED
    BY <1>3, <2>1 DEF NextState
<1>5. ASSUME NEW e \in Visible, drawnAt[e] + MaxTx < askedAt[c],
             createdAt[e] + MinAge + MaxSkew =< checkedAt[c]
      PROVE  e \in stored'
  <2>1. e \in Event /\ status[e] = "committed"
    BY <1>5 DEF Visible
  <2>2. {drawnAt[e], createdAt[e], askedAt[c], checkedAt[c]} \subseteq Nat
    BY <1>1, <2>1, BoundsAssumption DEF TypeOK
  <2>3. ~(after[c] < e)
    BY <1>2, <1>4, <1>5, <2>1, <2>2, AgeAssumption DEF ReachInv, BatchBegins, Begins
  <2>4. after[c] \in stored /\ after[c] \in Nat
    BY <1>1, <2>1, <2>3 DEF AfterIsStored, TypeOK
  <2>5. CASE e = after[c]
    BY <1>2, <2>4, <2>5
  <2>6. CASE e < after[c]
    BY <1>1, <1>2, <2>1, <2>4, <2>6 DEF NoEventSkipped
  <2> QED
    BY <2>1, <2>3, <2>4, <2>5, <2>6
<1> QED
  BY <1>5 DEF CaughtUp

(* A collector that goes back to its schedule has caught up: what it did   *)
(* not store was not decided when the API was asked or not old enough,     *)
(* whatever the size of a page.                                            *)
THEOREM ScheduledHaveCaughtUp == Spec => ScheduledMeansCaughtUp
<1>1. Init => ReachInv
  BY DEF Init, ReachInv, CreatedBeforeDrawn, BatchIsNew, PageBegins, BatchBegins
<1>2. IInv /\ ReachInv /\ [Next]_vars =>
        [\A c \in Collectors : Commit(c) /\ state'[c] = "waiting" => CaughtUp(c)]_vars
  BY NothingLeftBehind
<1> QED
  BY <1>1, <1>2, ReachStep, Invariance, PTL DEF Spec, ScheduledMeansCaughtUp
==============================================================================
