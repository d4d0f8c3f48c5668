-------------------------- MODULE UsageEventsProofs --------------------------
(***************************************************************************)
(* Theorems about UsageEvents, for every set of resources, every skew of   *)
(* created_at and every bound.                                             *)
(*                                                                         *)
(* The table is a function of the rows it was built from (TableIs).  The   *)
(* log only grows at its end, so that stays true, and the properties of    *)
(* the table are properties of that function.                              *)
(***************************************************************************)
EXTENDS UsageEvents, WellFoundedInduction, SequenceTheorems, TLAPS

TableIs == table = Charged(counted, builtAt)

(* Rows are recorded one after the other.                                  *)
LogInOrder ==
  \A i, j \in 1 .. Len(log) :
    /\ i < j => log[i].made =< log[j].made
    /\ log[i].made =< now

IInv == /\ TypeOK
        /\ TableIs
        /\ LogInOrder

------------------------------------------------------------------------------
(* Facts about the statement create_events.sql.                            *)

(* A set of numbers has a least one, which Min returns.                    *)
LEMMA LeastNumber ==
  ASSUME NEW S, S \subseteq Nat, S # {}
  PROVE  Min(S) \in S /\ \A y \in S : Min(S) =< y
<1>1. PICK x \in S : \A y \in S : ~(<<y, x>> \in OpToRel(<, Nat))
  BY NatLessThanWellFounded, WFMin, Zenon
<1>2. ASSUME NEW y \in S
      PROVE  x =< y
  <2>1. ~(y < x)
    BY <1>1, Zenon DEF OpToRel
  <2> QED
    BY <2>1
<1> QED
  BY <1>2 DEF Min

(* Rows of the log have the fields of a row.                               *)
LEMMA RowTypes ==
  ASSUME TypeOK, NEW i \in 1 .. Len(log)
  PROVE  /\ log[i].resource \in Resources
         /\ log[i].state \in RawState
         /\ log[i].at \in Time
         /\ log[i].made \in Time
<1>1. log[i] \in Row
  BY ElementOfSeq DEF TypeOK
<1> QED
  BY <1>1 DEF Row

(* Where a span ends: at the first of the rows that follow, if there is    *)
(* one.                                                                    *)
LEMMA EndOfSpan ==
  ASSUME TypeOK, NEW n \in 0 .. Len(log), NEW i \in raw_events(n), NEW t \in Time
  PROVE  /\ End(i, n, t) \in Time
         /\ Following(i, n) = {} => End(i, n, t) = OpenEnd(i, t)
         /\ Following(i, n) # {} =>
              /\ \E j \in Following(i, n) : End(i, n, t) = log[j].at
              /\ \A j \in Following(i, n) : End(i, n, t) =< log[j].at
<1> DEFINE times == {log[j].at : j \in Following(i, n)}
<1>1. Len(log) \in Nat
  BY LenProperties DEF TypeOK
<1>2. \A j \in raw_events(n) : j \in 1 .. Len(log)
  BY <1>1 DEF raw_events
<1>3. times \subseteq Time
  BY <1>2, RowTypes DEF Following, Partition
<1>4. CASE Following(i, n) = {}
  <2>1. log[i].at \in Time
    BY <1>2, RowTypes
  <2> QED
    BY <1>4, <2>1 DEF End, OpenEnd
<1>5. CASE Following(i, n) # {}
  <2>1. times # {} /\ times \subseteq Nat
    BY <1>3, <1>5, BoundsAssumption DEF Time
  <2>2. Min(times) \in times /\ \A y \in times : Min(times) =< y
    BY <2>1, LeastNumber
  <2>3. End(i, n, t) = Min(times)
    BY <1>5 DEF End
  <2> QED
    BY <1>3, <1>5, <2>2, <2>3
<1> QED
  BY <1>4, <1>5

(* The table built from rows is well formed.                               *)
LEMMA ChargedType ==
  ASSUME TypeOK, NEW n \in 0 .. Len(log), NEW t \in Time
  PROVE  Charged(n, t) \subseteq
           {s \in [event : 1 .. n, from : Time, to : Time] : s.from < s.to}
<1> SUFFICES ASSUME NEW i \in raw_events(n)
             PROVE  i \in 1 .. n /\ log[i].at \in Time /\ End(i, n, t) \in Time
  BY DEF Charged, event_ranges
<1>1. Len(log) \in Nat /\ i \in 1 .. n
  BY LenProperties DEF TypeOK, raw_events
<1> QED
  BY <1>1, RowTypes, EndOfSpan
------------------------------------------------------------------------------
(* The invariant.                                                          *)

(* What is appended to the log does not change what was built before.      *)
LEMMA TableKept ==
  ASSUME TypeOK, TableIs, UNCHANGED <<counted, builtAt, table>>,
         \A i \in 1 .. counted : log'[i] = log[i]
  PROVE  TableIs'
<1>1. raw_events(counted)' = raw_events(counted)
  BY DEF raw_events
<1>2. \A i \in raw_events(counted) : i \in 1 .. counted
  BY DEF raw_events
<1>3. ASSUME NEW i \in raw_events(counted)
      PROVE  /\ Following(i, counted)' = Following(i, counted)
             /\ End(i, counted, builtAt)' = End(i, counted, builtAt)
  <2>1. Partition(i, counted)' = Partition(i, counted)
    BY <1>1, <1>2, <1>3 DEF Partition, Of
  <2>2. \A j \in Partition(i, counted) : Before(i, j)' <=> Before(i, j)
    BY <1>2, <1>3 DEF Partition, Before
  <2>3. Following(i, counted)' = Following(i, counted)
    BY <2>1, <2>2 DEF Following
  <2>4. OpenEnd(i, builtAt)' = OpenEnd(i, builtAt)
    BY <1>2, <1>3 DEF OpenEnd
  <2>5. \A j \in Following(i, counted) : log'[j] = log[j]
    BY <1>2 DEF Following, Partition
  <2>6. {log[j].at : j \in Following(i, counted)}'
          = {log[j].at : j \in Following(i, counted)}
    BY <2>3, <2>5
  <2> QED
    BY <2>3, <2>4, <2>6 DEF End
<1>4. event_ranges(counted, builtAt)' = event_ranges(counted, builtAt)
  BY <1>1, <1>2, <1>3 DEF event_ranges
<1>5. Charged(counted, builtAt)' = Charged(counted, builtAt)
  BY <1>2, <1>4 DEF Charged, event_ranges
<1> QED
  BY <1>5 DEF TableIs

LEMMA InitInv == Init => IInv
<1> SUFFICES ASSUME Init
             PROVE  IInv
  OBVIOUS
<1>1. Len(log) = 0 /\ log \in Seq(Row)
  BY DEF Init
<1>2. TypeOK
  BY <1>1, BoundsAssumption DEF Init, TypeOK, Time, Idle
<1>3. Charged(counted, builtAt) = {}
  BY DEF Init, Charged, event_ranges, raw_events
<1> QED
  BY <1>1, <1>2, <1>3, BoundsAssumption DEF Init, IInv, TableIs, LogInOrder

LEMMA RecordStep ==
  ASSUME IInv, NEW r \in Resources, NEW state \in States[r], NEW at \in Time,
         Record(r, state, at)
  PROVE  IInv'
<1> DEFINE row == [resource |-> r, state |-> state, at |-> at, made |-> now]
<1>1. row \in Row /\ log \in Seq(Row) /\ log' = Append(log, row)
  BY ResourceAssumption DEF IInv, TypeOK, Record, Row
<1> HIDE DEF row
<1>2. /\ Len(log) \in Nat
      /\ log' \in Seq(Row)
      /\ Len(log') = Len(log) + 1
      /\ \A i \in 1 .. Len(log) : log'[i] = log[i]
      /\ log'[Len(log) + 1] = row
  BY <1>1, AppendProperties, LenProperties
<1>3. TypeOK'
  BY <1>2, BoundsAssumption DEF IInv, TypeOK, Record, Time
<1>4. \A i \in 1 .. counted : log'[i] = log[i]
  BY <1>2 DEF IInv, TypeOK
<1>5. TableIs'
  BY <1>4, TableKept DEF IInv, Record
<1>6. LogInOrder'
  <2>1. row.made = now /\ now \in Nat /\ now' = now
    BY BoundsAssumption DEF row, Record, IInv, TypeOK, Time
  <2>2. \A i \in 1 .. Len(log) : log[i].made \in Nat
    BY RowTypes, BoundsAssumption DEF IInv, Time
  <2> QED
    BY <1>2, <2>1, <2>2 DEF IInv, LogInOrder
<1> QED
  BY <1>3, <1>5, <1>6 DEF IInv

(* The steps that touch neither the log nor the table.                     *)
LEMMA OtherStep ==
  ASSUME IInv, TypeOK', UNCHANGED <<log, counted, builtAt, table>>,
         now' \in {now, now + 1}
  PROVE  IInv'
<1>1. TableIs'
  BY TableKept DEF IInv
<1>2. LogInOrder'
  <2>1. now \in Nat /\ \A i \in 1 .. Len(log) : log[i].made \in Nat
    BY RowTypes, BoundsAssumption DEF IInv, TypeOK, Time
  <2> QED
    BY <2>1 DEF IInv, LogInOrder
<1> QED
  BY <1>1, <1>2 DEF IInv

LEMMA CreateEventsStep ==
  ASSUME IInv, NEW p \in Processes, CreateEvents(p)
  PROVE  IInv'
<1>1. /\ startedAt[p] \in 0 .. now
      /\ startedAt[p] \in Time
      /\ stored \in 0 .. Len(log)
      /\ Len(log) \in Nat
  BY LenProperties, BoundsAssumption DEF IInv, TypeOK, CreateEvents, Time
<1>2. Charged(stored, startedAt[p]) \subseteq
        {s \in [event : 1 .. stored, from : Time, to : Time] : s.from < s.to}
  BY <1>1, ChargedType DEF IInv
<1>3. TypeOK'
  BY <1>1, <1>2 DEF IInv, TypeOK, CreateEvents
<1>4. TableIs'
  BY DEF CreateEvents, TableIs, Charged, event_ranges, raw_events, End, OpenEnd,
         Following, Partition, Before, Of
<1>5. LogInOrder'
  BY <1>1 DEF IInv, LogInOrder, CreateEvents
<1> QED
  BY <1>3, <1>4, <1>5 DEF IInv

(* Every step keeps the invariant.                                         *)
LEMMA NextInv ==
  ASSUME IInv, [Next]_vars
  PROVE  IInv'
<1>1. CASE \E r \in Resources :
             \E state \in States[r], at \in Time : Record(r, state, at)
  BY <1>1, RecordStep
<1>2. CASE Tick
  <2>1. TypeOK'
    BY <1>2, BoundsAssumption DEF IInv, TypeOK, Tick, Time, Idle
  <2> QED
    BY <1>2, <2>1, OtherStep DEF Tick
<1>3. CASE \E n \in 1 .. Len(log) : StoreEvents(n)
  <2>1. PICK n \in 1 .. Len(log) : StoreEvents(n)
    BY <1>3
  <2>2. Len(log) \in Nat
    BY LenProperties DEF IInv, TypeOK
  <2>3. TypeOK'
    BY <2>1, <2>2 DEF IInv, TypeOK, StoreEvents
  <2> QED
    BY <2>1, <2>3, OtherStep DEF StoreEvents
<1>4. ASSUME NEW p \in Processes, Begin(p)
      PROVE  IInv'
  <2>1. TypeOK'
    BY <1>4 DEF IInv, TypeOK, Begin, Time
  <2> QED
    BY <1>4, <2>1, OtherStep DEF Begin
<1>5. ASSUME NEW p \in Processes, CreateEvents(p)
      PROVE  IInv'
  BY <1>5, CreateEventsStep
<1>6. ASSUME NEW p \in Processes, Fail(p)
      PROVE  IInv'
  <2>1. TypeOK'
    BY <1>6 DEF IInv, TypeOK, Fail
  <2> QED
    BY <1>6, <2>1, OtherStep DEF Fail
<1>7. CASE UNCHANGED vars
  <2>1. TypeOK'
    BY <1>7 DEF IInv, TypeOK, vars
  <2> QED
    BY <1>7, <2>1, OtherStep DEF vars
<1> QED
  BY <1>1, <1>2, <1>3, <1>4, <1>5, <1>6, <1>7 DEF Next

LEMMA Invariant == Spec => []IInv
<1>1. IInv /\ [Next]_vars => IInv'
  BY NextInv
<1> QED
  BY InitInv, <1>1, PTL DEF Spec

------------------------------------------------------------------------------
(* What the table says, given the invariant.                               *)

(* The rows of a metered resource are those the statement partitions.      *)
LEMMA RowsOfPartition ==
  ASSUME IInv, NEW r \in Resources \ Unmetered, NEW k \in EventTypes,
         NEW i \in 1 .. counted, Of(i, r, k)
  PROVE  /\ i \in raw_events(counted)
         /\ Partition(i, counted) = {j \in 1 .. counted : Of(j, r, k)}
BY DEF raw_events, Partition, Of

(* The numbers in a row that was counted.                                  *)
LEMMA Numbers ==
  ASSUME IInv
  PROVE  /\ counted \in 0 .. Len(log)
         /\ Len(log) \in Nat
         /\ builtAt \in Time
         /\ \A t \in Time : t \in Nat
         /\ \A i \in 1 .. Len(log) : log[i].at \in Nat /\ log[i].made \in Nat
<1>1. Len(log) \in Nat
  BY LenProperties DEF IInv, TypeOK
<1> QED
  BY <1>1, RowTypes, BoundsAssumption DEF IInv, TypeOK, Time

(* A span that contains t belongs to the row that decides on t.            *)
LEMMA SpansAreDecided ==
  ASSUME IInv, NEW r \in Resources, NEW k \in EventTypes, NEW t \in Time,
         NEW s \in SpansAt(r, k, t)
  PROVE  /\ s.event \in Deciding(r, k, t)
         /\ r \notin Unmetered
         /\ Started(log[s.event].state)
         /\ k = "staging" => Over(s.event, r, k)
<1> DEFINE i == s.event
<1>1. PICK e \in raw_events(counted) :
        /\ s = [event |-> e, from |-> log[e].at, to |-> End(e, counted, builtAt)]
        /\ Started(log[e].state)
  BY DEF SpansAt, IInv, TableIs, Charged, event_ranges
<1>2. /\ i \in raw_events(counted)
      /\ i \in 1 .. counted
      /\ Of(i, r, k)
      /\ log[i].at =< t
      /\ t < End(i, counted, builtAt)
      /\ Started(log[i].state)
  BY <1>1 DEF SpansAt, raw_events
<1> HIDE DEF i
<1>3. r \notin Unmetered
  BY <1>2 DEF raw_events, Of
<1>4. Partition(i, counted) = {j \in 1 .. counted : Of(j, r, k)}
  BY <1>2, <1>3, RowsOfPartition
<1>5. ASSUME NEW j \in 1 .. counted, Of(j, r, k), Before(i, j)
      PROVE  t < log[j].at
  <2>1. j \in Following(i, counted)
    BY <1>4, <1>5 DEF Following
  <2>2. End(i, counted, builtAt) =< log[j].at
    BY <1>2, <2>1, Numbers, EndOfSpan DEF IInv
  <2>3. End(i, counted, builtAt) \in Time
    BY <1>2, Numbers, EndOfSpan DEF IInv
  <2> QED
    BY <1>2, <2>2, <2>3, Numbers
<1>6. i \in Deciding(r, k, t)
  BY <1>2, <1>5, Numbers DEF Deciding, Before
<1>7. ASSUME k = "staging"
      PROVE  Over(i, r, k)
  <2>1. SUFFICES ASSUME Following(i, counted) = {}
                 PROVE  FALSE
    BY <1>4 DEF Following, Before, Over
  <2>2. End(i, counted, builtAt) = OpenEnd(i, builtAt)
    BY <1>2, <2>1, Numbers, EndOfSpan DEF IInv
  <2>3. OpenEnd(i, builtAt) = log[i].at
    BY <1>2, <1>7 DEF OpenEnd, Of
  <2> QED
    BY <1>2, <2>2, <2>3, Numbers
<1> QED
  BY <1>2, <1>3, <1>6, <1>7 DEF i

(* The row that decides on t has a span that contains t.                   *)
LEMMA DecidedHasSpan ==
  ASSUME IInv, NEW r \in Resources \ Unmetered, NEW k \in EventTypes, NEW t \in Time,
         t < builtAt, NEW i \in Deciding(r, k, t), Started(log[i].state),
         k = "staging" => Over(i, r, k)
  PROVE  [event |-> i, from |-> log[i].at, to |-> End(i, counted, builtAt)]
           \in SpansAt(r, k, t)
<1>1. i \in 1 .. counted /\ Of(i, r, k) /\ log[i].at =< t
  BY DEF Deciding
<1>2. /\ i \in raw_events(counted)
      /\ Partition(i, counted) = {j \in 1 .. counted : Of(j, r, k)}
  BY <1>1, RowsOfPartition
<1>3. t < End(i, counted, builtAt)
  <2>1. CASE Following(i, counted) = {}
    <3>1. End(i, counted, builtAt) = OpenEnd(i, builtAt)
      BY <1>2, <2>1, Numbers, EndOfSpan DEF IInv
    <3>2. k # "staging"
      BY <1>2, <2>1 DEF Following, Before, Over
    <3> QED
      BY <1>1, <3>1, <3>2 DEF OpenEnd, Of
  <2>2. CASE Following(i, counted) # {}
    <3>1. PICK j \in Following(i, counted) : End(i, counted, builtAt) = log[j].at
      BY <1>2, <2>2, Numbers, EndOfSpan DEF IInv
    <3>2. j \in 1 .. counted /\ Of(j, r, k) /\ Before(i, j)
      BY <1>2, <3>1 DEF Following
    <3> QED
      BY <1>1, <3>1, <3>2, Numbers DEF Deciding, Before
  <2> QED
    BY <2>1, <2>2
<1> DEFINE s == [event |-> i, from |-> log[i].at, to |-> End(i, counted, builtAt)]
<1>4. log[i].at < End(i, counted, builtAt)
  <2>1. End(i, counted, builtAt) \in Time
    BY <1>2, Numbers, EndOfSpan DEF IInv
  <2> QED
    BY <1>1, <1>3, <2>1, Numbers
<1>5. s \in table
  BY <1>2, <1>4 DEF IInv, TableIs, Charged, event_ranges
<1> QED
  BY <1>1, <1>3, <1>5 DEF SpansAt

LEMMA Agreement == IInv => TableAgreesWithRows
<1> SUFFICES ASSUME IInv, NEW r \in Resources, NEW k \in EventTypes, NEW t \in Time,
                    t < builtAt
             PROVE  EventsAt(r, k, t) =
                      {i \in Deciding(r, k, t) : /\ r \notin Unmetered
                                                 /\ Started(log[i].state)
                                                 /\ k = "staging" => Over(i, r, k)}
  BY DEF TableAgreesWithRows
<1>1. ASSUME NEW i \in EventsAt(r, k, t)
      PROVE  /\ i \in Deciding(r, k, t)
             /\ r \notin Unmetered
             /\ Started(log[i].state)
             /\ k = "staging" => Over(i, r, k)
  BY SpansAreDecided DEF EventsAt
<1>2. ASSUME NEW i \in Deciding(r, k, t), r \notin Unmetered, Started(log[i].state),
             k = "staging" => Over(i, r, k)
      PROVE  i \in EventsAt(r, k, t)
  <2> DEFINE s == [event |-> i, from |-> log[i].at, to |-> End(i, counted, builtAt)]
  <2>1. s \in SpansAt(r, k, t) /\ s.event = i
    BY <1>2, DecidedHasSpan
  <2> QED
    BY <2>1 DEF EventsAt
<1> QED
  BY <1>1, <1>2

(* No two rows decide on the same time.                                    *)
LEMMA OneDecides ==
  ASSUME IInv, NEW r, NEW k, NEW t, NEW i \in Deciding(r, k, t),
         NEW j \in Deciding(r, k, t)
  PROVE  i = j
<1>1. /\ i \in 1 .. counted /\ Of(i, r, k) /\ log[i].at =< t
      /\ j \in 1 .. counted /\ Of(j, r, k) /\ log[j].at =< t
  BY DEF Deciding
<1>2. i # j => log[j].at < log[i].at \/ (log[j].at = log[i].at /\ j < i)
  BY <1>1 DEF Deciding
<1>3. i # j => log[i].at < log[j].at \/ (log[i].at = log[j].at /\ i < j)
  BY <1>1 DEF Deciding
<1>4. i \in Nat /\ j \in Nat /\ log[i].at \in Nat /\ log[j].at \in Nat
  BY <1>1, Numbers
<1> QED
  BY <1>2, <1>3, <1>4

(* Rows with the right times decide in the order of their ids.             *)
LEMMA DecidedInOrder ==
  ASSUME IInv, NEW r \in Resources, NEW k \in EventTypes, NEW t \in Time,
         Known(r, k, t), NEW i \in 1 .. counted, Of(i, r, k), log[i].made =< t
  PROVE  i \in Deciding(r, k, t) <=>
           \A j \in i + 1 .. Len(log) : Of(j, r, k) => log[j].made > t
<1>1. \A j \in 1 .. Len(log) :
        Of(j, r, k) => /\ log[j].at = log[j].made
                       /\ log[j].made =< t => j \in 1 .. counted
  BY Numbers DEF Known
<1>2. \A j \in 1 .. Len(log) : j < i => log[j].made =< log[i].made
  BY Numbers DEF IInv, LogInOrder
<1>3. \A j \in 1 .. Len(log) : i < j => log[i].made =< log[j].made
  BY Numbers DEF IInv, LogInOrder
<1>4. ASSUME i \in Deciding(r, k, t), NEW j \in i + 1 .. Len(log), Of(j, r, k)
      PROVE  log[j].made > t
  BY <1>1, <1>3, <1>4, Numbers DEF Deciding
<1>5. ASSUME \A j \in i + 1 .. Len(log) : Of(j, r, k) => log[j].made > t
      PROVE  i \in Deciding(r, k, t)
  <2>1. log[i].at =< t
    BY <1>1, Numbers
  <2>2. ASSUME NEW j \in 1 .. counted, Of(j, r, k), log[j].at =< t, j # i
        PROVE  log[j].at < log[i].at \/ (log[j].at = log[i].at /\ j < i)
    <3>1. j < i
      BY <1>1, <1>5, <2>2, Numbers
    <3> QED
      BY <1>1, <1>2, <2>2, <3>1, Numbers
  <2> QED
    BY <2>1, <2>2 DEF Deciding
<1> QED
  BY <1>4, <1>5

LEMMA Billing == IInv => BilledAsUsed
<1> SUFFICES ASSUME IInv, NEW r \in Resources \ Unmetered,
                    NEW k \in EventTypes \ {"staging"}, NEW t \in Time,
                    t < builtAt, Known(r, k, t)
             PROVE  IF WasInUse(r, k, t)
                    THEN \E s \in table : SpansAt(r, k, t) = {s}
                    ELSE SpansAt(r, k, t) = {}
  BY DEF BilledAsUsed
<1>1. CASE WasInUse(r, k, t)
  <2>1. PICK i \in 1 .. Len(log) :
          /\ Of(i, r, k)
          /\ log[i].made =< t
          /\ Started(log[i].state)
          /\ \A j \in i + 1 .. Len(log) : Of(j, r, k) => log[j].made > t
    BY <1>1 DEF WasInUse
  <2>2. i \in 1 .. counted
    BY <2>1, Numbers DEF Known
  <2>3. i \in Deciding(r, k, t)
    BY <2>1, <2>2, DecidedInOrder
  <2> DEFINE s == [event |-> i, from |-> log[i].at, to |-> End(i, counted, builtAt)]
  <2>4. s \in SpansAt(r, k, t)
    BY <2>1, <2>3, DecidedHasSpan
  <2>5. ASSUME NEW u \in SpansAt(r, k, t)
        PROVE  u = s
    <3>1. u.event \in Deciding(r, k, t)
      BY <2>5, SpansAreDecided
    <3>2. u.event = i
      BY <2>3, <3>1, OneDecides
    <3>3. PICK e \in raw_events(counted) :
            u = [event |-> e, from |-> log[e].at, to |-> End(e, counted, builtAt)]
      BY <2>5 DEF SpansAt, IInv, TableIs, Charged, event_ranges
    <3> QED
      BY <3>2, <3>3
  <2> QED
    BY <1>1, <2>4, <2>5 DEF SpansAt
<1>2. CASE ~WasInUse(r, k, t)
  <2>1. ASSUME NEW s \in SpansAt(r, k, t)
        PROVE  FALSE
    <3> DEFINE i == s.event
    <3>1. i \in Deciding(r, k, t) /\ Started(log[i].state)
      BY <2>1, SpansAreDecided
    <3> HIDE DEF i
    <3>2. i \in 1 .. counted /\ i \in 1 .. Len(log) /\ Of(i, r, k) /\ log[i].at =< t
      BY <3>1, Numbers DEF Deciding
    <3>3. log[i].made =< t
      BY <3>2 DEF Known
    <3>4. \A j \in i + 1 .. Len(log) : Of(j, r, k) => log[j].made > t
      BY <3>1, <3>2, <3>3, DecidedInOrder
    <3> QED
      BY <1>2, <3>1, <3>2, <3>3, <3>4 DEF WasInUse
  <2> QED
    BY <1>2, <2>1
<1> QED
  BY <1>1, <1>2

(* A table built from more rows, none of them for t or before, has the     *)
(* same row decide on t.                                                   *)
LEMMA RebuildKeepsPast ==
  ASSUME IInv, IInv', TableAgreesWithRows, TableAgreesWithRows',
         NEW p \in Processes, CreateEvents(p),
         NEW r \in Resources, NEW k \in EventTypes \ {"staging"}, NEW t \in Time,
         t < builtAt, t < builtAt', OnlyLater(counted, counted', r, k, t)
  PROVE  EventsAt(r, k, t)' = EventsAt(r, k, t)
<1>1. log' = log /\ counted' = stored
  BY DEF CreateEvents
<1>2. stored \in 0 .. Len(log) /\ counted =< stored
  BY Numbers DEF IInv, TypeOK
<1>4. \A i \in 1 .. stored : Of(i, r, k) /\ log[i].at =< t => i \in 1 .. counted
  BY <1>1, <1>2, Numbers DEF OnlyLater
<1>5. Deciding(r, k, t)' = Deciding(r, k, t)
  <2>1. 1 .. counted \subseteq 1 .. stored
    BY <1>2, Numbers
  <2> QED
    BY <1>1, <1>4, <2>1 DEF Deciding, Of
<1>6. EventsAt(r, k, t) =
        {i \in Deciding(r, k, t) : r \notin Unmetered /\ Started(log[i].state)}
  BY DEF TableAgreesWithRows
<1>7. EventsAt(r, k, t)' =
        {i \in Deciding(r, k, t)' : r \notin Unmetered /\ Started(log'[i].state)}
  BY DEF TableAgreesWithRows
<1> QED
  BY <1>1, <1>5, <1>6, <1>7

(* Any other step leaves the table and the rows it was built from alone.   *)
LEMMA OtherStepsKeepPast ==
  ASSUME IInv, [Next]_vars, \A p \in Processes : ~CreateEvents(p),
         NEW r, NEW k, NEW t
  PROVE  EventsAt(r, k, t)' = EventsAt(r, k, t)
<1>1. table' = table
  BY DEF Next, Record, Tick, StoreEvents, Begin, Fail, vars
<1>2. \A s \in table : s.event \in 1 .. counted
  BY DEF IInv, TypeOK
<1>3. \A i \in 1 .. counted : log'[i] = log[i]
  <2>1. CASE \E q \in Resources :
               \E state \in States[q], at \in Time : Record(q, state, at)
    <3>1. PICK q \in Resources : \E state \in States[q], at \in Time : Record(q, state, at)
      BY <2>1
    <3>2. PICK state \in States[q], at \in Time : Record(q, state, at)
      BY <3>1
    <3> DEFINE row == [resource |-> q, state |-> state, at |-> at, made |-> now]
    <3>3. row \in Row /\ log \in Seq(Row) /\ log' = Append(log, row)
      BY <3>2, ResourceAssumption DEF IInv, TypeOK, Record, Row
    <3> HIDE DEF row
    <3> QED
      BY <3>3, AppendProperties, Numbers
  <2>2. CASE log' = log
    BY <2>2
  <2> QED
    BY <2>1, <2>2 DEF Next, Tick, StoreEvents, Begin, Fail, vars
<1>4. \A s \in table : Of(s.event, r, k)' <=> Of(s.event, r, k)
  BY <1>2, <1>3 DEF Of
<1>5. SpansAt(r, k, t)' = SpansAt(r, k, t)
  BY <1>1, <1>4 DEF SpansAt
<1> QED
  BY <1>5 DEF EventsAt

------------------------------------------------------------------------------
(* The theorems.                                                           *)

(* The state stays well formed: spans are not empty, belong to rows that   *)
(* were counted, and no table is from the future.                          *)
THEOREM TypeCorrect == Spec => []TypeOK
<1>1. IInv => TypeOK
  BY DEF IInv
<1> QED
  BY <1>1, Invariant, PTL

(* At every instant up to its building the table has just the span that    *)
(* the last row not later than the instant starts, if it starts one.       *)
THEOREM TableIsRight == Spec => []TableAgreesWithRows
BY Agreement, Invariant, PTL

(* Where the rows have arrived with the right times, the table has one     *)
(* span when the resource was in use and none when it was not.             *)
THEOREM BillsFollowUse == Spec => []BilledAsUsed
BY Billing, Invariant, PTL

(* Before both their now() a new table differs from the old one only from  *)
(* the first row on that the old one had not seen, whichever process built *)
(* them and in whichever order they began.                                 *)
THEOREM PastStays == Spec => PastIsStable
<1> DEFINE Stable ==
      \A r \in Resources, k \in EventTypes \ {"staging"}, t \in Time :
        t < builtAt /\ t < builtAt' /\ OnlyLater(counted, counted', r, k, t) =>
          EventsAt(r, k, t)' = EventsAt(r, k, t)
<1>1. ASSUME IInv, IInv', TableAgreesWithRows, TableAgreesWithRows', [Next]_vars
      PROVE  Stable
  BY <1>1, RebuildKeepsPast, OtherStepsKeepPast
<1>2. IInv /\ IInv' /\ TableAgreesWithRows /\ TableAgreesWithRows' /\ [Next]_vars
        => [Stable]_vars
  BY <1>1
<1> HIDE DEF Stable
<1>3. Spec => [][Stable]_vars
  BY <1>2, Invariant, TableIsRight, PTL DEF Spec
<1> QED
  BY <1>3 DEF PastIsStable, Stable
==============================================================================
