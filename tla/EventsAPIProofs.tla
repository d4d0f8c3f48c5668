--------------------------- MODULE EventsAPIProofs ---------------------------
(***************************************************************************)
(* Proofs about EventsAPI: whatever calendar, ranges and events, the       *)
(* filters of a request share no day and leave none out, bills are         *)
(* repeated, replies are whole and forecasts leave nothing behind.         *)
(*                                                                         *)
(* First the calendar and the filters SplitByMonth makes of a range, then  *)
(* the invariant, which follows a request through its handler, then its    *)
(* steps and the theorems.                                                 *)
(***************************************************************************)
EXTENDS EventsAPI, FiniteSetTheorems, SequenceTheorems, WellFoundedInduction, TLAPS

------------------------------------------------------------------------------
(* The calendar.                                                           *)

(* A set of numbers that is not empty has a least.                         *)
LEMMA LeastNat ==
  ASSUME NEW T \in SUBSET Nat, T # {}
  PROVE  \E n \in T : \A m \in T : n =< m
<1> DEFINE R == OpToRel(<, Nat)
<1>1. IsWellFoundedOn(R, Nat)
  BY NatLessThanWellFounded
<1>2. \A m, n \in Nat : m < n => <<m, n>> \in R
  BY DEF OpToRel
<1> HIDE DEF R
<1>3. PICK n \in T : \A m \in T : ~(<<m, n>> \in R)
  BY <1>1, WFMin
<1>4. \A m \in T : ~(m < n)
  BY <1>2, <1>3
<1> QED
  BY <1>4

LEMMA CalendarFacts ==
  /\ Len(MonthStart) \in Nat \ {0}
  /\ DOMAIN MonthStart = 1 .. Len(MonthStart)
  /\ \A m \in 1 .. Len(MonthStart) : MonthStart[m] \in Nat
  /\ Last(MonthStart) = MonthStart[Len(MonthStart)]
  /\ Last(MonthStart) \in Nat
<1>1. MonthStart \in Seq(Nat) /\ MonthStart # <<>>
  BY CalendarAssumption
<1>2. Len(MonthStart) \in Nat \ {0}
  BY <1>1
<1>3. \A m \in 1 .. Len(MonthStart) : MonthStart[m] \in Nat
  BY <1>1
<1> QED
  BY <1>1, <1>2, <1>3 DEF Last

(* Months begin in their order, not only from each to the next.            *)
LEMMA MonthsAscend ==
  \A m, n \in 1 .. Len(MonthStart) : m < n => MonthStart[m] < MonthStart[n]
<1> DEFINE S == {n \in 1 .. Len(MonthStart) :
                   \E m \in 1 .. Len(MonthStart) : m < n /\ ~(MonthStart[m] < MonthStart[n])}
<1>1. SUFFICES ASSUME S # {} PROVE FALSE
  OBVIOUS
<1>2. S \in SUBSET Nat
  BY CalendarFacts
<1>3. PICK n \in S : \A k \in S : n =< k
  BY <1>1, <1>2, LeastNat
<1>4. PICK m \in 1 .. Len(MonthStart) : m < n /\ ~(MonthStart[m] < MonthStart[n])
  OBVIOUS
<1>5. PICK k \in 1 .. Len(MonthStart) - 1 : n = k + 1
  <2>1. n - 1 \in 1 .. Len(MonthStart) - 1 /\ n = (n - 1) + 1
    BY <1>4, CalendarFacts
  <2> QED
    BY <2>1
<1>6. MonthStart[k] < MonthStart[k + 1]
  BY CalendarAssumption
<1>7. k \in 1 .. Len(MonthStart) /\ k \notin S
  BY <1>3, <1>5, CalendarFacts
<1>8. m = k \/ (m < k /\ MonthStart[m] < MonthStart[k])
  BY <1>4, <1>5, <1>7
<1> QED
  BY <1>4, <1>5, <1>6, <1>7, <1>8, CalendarFacts

LEMMA MonthsInOrder ==
  ASSUME NEW m \in 1 .. Len(MonthStart), NEW n \in 1 .. Len(MonthStart), m =< n
  PROVE  MonthStart[m] =< MonthStart[n]
<1>1. MonthStart[m] \in Nat /\ MonthStart[n] \in Nat /\ (m = n \/ m < n)
  BY CalendarFacts
<1>2. m < n => MonthStart[m] < MonthStart[n]
  BY MonthsAscend
<1> QED
  BY <1>1, <1>2

(* Every day before the last belongs to one month.                         *)
LEMMA MonthOfDay ==
  ASSUME NEW day \in Nat, day < Last(MonthStart)
  PROVE  /\ MonthOf(day) \in Months
         /\ MonthOf(day) \in 1 .. Len(MonthStart) /\ MonthOf(day) + 1 \in 1 .. Len(MonthStart)
         /\ MonthStart[MonthOf(day)] =< day /\ day < MonthStart[MonthOf(day) + 1]
<1> DEFINE S == {n \in 1 .. Len(MonthStart) : day < MonthStart[n]}
<1>1. Len(MonthStart) \in S
  BY CalendarFacts
<1>2. S \in SUBSET Nat
  BY CalendarFacts
<1>3. PICK n \in S : \A k \in S : n =< k
  BY <1>1, <1>2, LeastNat
<1>4. n # 1
  BY CalendarAssumption
<1>5. n - 1 \in 1 .. Len(MonthStart) - 1 /\ n - 1 \in 1 .. Len(MonthStart) /\ (n - 1) + 1 = n
  BY <1>4, CalendarFacts
<1>6. n - 1 \notin S
  BY <1>3, <1>5
<1>7. MonthStart[n - 1] =< day
  BY <1>5, <1>6, CalendarFacts
<1>8. \E m \in Months : MonthStart[m] =< day /\ day < MonthStart[m + 1]
  BY <1>5, <1>7 DEF Months
<1>9. /\ MonthOf(day) \in Months
      /\ MonthStart[MonthOf(day)] =< day /\ day < MonthStart[MonthOf(day) + 1]
  BY <1>8 DEF MonthOf
<1> QED
  BY <1>9, CalendarFacts DEF Months

LEMMA OneMonth ==
  ASSUME NEW m \in Months, NEW n \in Months, NEW day \in Nat,
         MonthStart[m] =< day, day < MonthStart[m + 1],
         MonthStart[n] =< day, day < MonthStart[n + 1]
  PROVE  m = n
<1>1. /\ m \in 1 .. Len(MonthStart) /\ m + 1 \in 1 .. Len(MonthStart)
      /\ n \in 1 .. Len(MonthStart) /\ n + 1 \in 1 .. Len(MonthStart)
  BY CalendarFacts DEF Months
<1>2. /\ MonthStart[m] \in Nat /\ MonthStart[m + 1] \in Nat
      /\ MonthStart[n] \in Nat /\ MonthStart[n + 1] \in Nat
  BY <1>1, CalendarFacts
<1>3. CASE m < n
  <2>1. MonthStart[m + 1] =< MonthStart[n]
    BY <1>1, <1>2, <1>3, MonthsAscend
  <2> QED
    BY <2>1, <1>2
<1>4. CASE n < m
  <2>1. MonthStart[n + 1] =< MonthStart[m]
    BY <1>1, <1>2, <1>4, MonthsAscend
  <2> QED
    BY <2>1, <1>2
<1> QED
  BY <1>1, <1>3, <1>4

(* Two months that share a day are the same, so none has the filter of     *)
(* another.                                                                *)
LEMMA MonthsApart ==
  ASSUME NEW m \in Months, NEW n \in Months,
         Month(n).start < Month(m).stop, Month(m).start < Month(n).stop
  PROVE  m = n
<1>1. /\ MonthStart[m] \in Nat /\ MonthStart[m + 1] \in Nat /\ MonthStart[m] < MonthStart[m + 1]
      /\ MonthStart[n] \in Nat /\ MonthStart[n + 1] \in Nat /\ MonthStart[n] < MonthStart[n + 1]
  BY CalendarFacts, MonthsAscend DEF Months
<1>2. MonthStart[n] < MonthStart[m + 1] /\ MonthStart[m] < MonthStart[n + 1]
  BY DEF Month
<1>3. CASE MonthStart[m] =< MonthStart[n]
  BY <1>1, <1>2, <1>3, OneMonth
<1>4. CASE MonthStart[n] =< MonthStart[m]
  BY <1>1, <1>2, <1>4, OneMonth
<1> QED
  BY <1>1, <1>3, <1>4

------------------------------------------------------------------------------
(* The filters of a range.                                                 *)

(* The calendar goes on for as long as days before t2 are split.           *)
GoesOn(t2) == t2 \in Days /\ \A day \in Days : day < t2 => AddMonth(day) < Last(MonthStart)

FirstPart(t1, t2) == [start |-> t1, stop |-> minDate(t2, NextPart(t1))]

Split(t1, t2, split) ==
  IF t1 >= t2 THEN <<>> ELSE <<FirstPart(t1, t2)>> \o split[NextPart(t1)]

(* The next part begins later, with a month.                               *)
LEMMA NextPartIsLater ==
  ASSUME NEW t2, GoesOn(t2), NEW t1 \in Days, t1 < t2
  PROVE  /\ NextPart(t1) \in Days /\ t1 < NextPart(t1)
         /\ \E m \in Months : NextPart(t1) = MonthStart[m]
         /\ MonthStart[MonthOf(t1) + 1] =< NextPart(t1)
<1> PICK M : M = MonthOf(t1)
  OBVIOUS
<1> PICK N : N = MonthOf(AddMonth(t1))
  OBVIOUS
<1>1. t1 \in Nat /\ t2 \in Nat /\ t2 =< Last(MonthStart) /\ t1 < Last(MonthStart)
  BY CalendarFacts DEF GoesOn, Days
<1>2. /\ M \in 1 .. Len(MonthStart) /\ M + 1 \in 1 .. Len(MonthStart)
      /\ MonthStart[M] =< t1 /\ t1 < MonthStart[M + 1]
  BY <1>1, MonthOfDay
<1>3. MonthStart[M] \in Nat /\ MonthStart[M + 1] \in Nat
  BY <1>2, CalendarFacts
<1>4. AddMonth(t1) = MonthStart[M + 1] + (t1 - MonthStart[M])
  BY DEF AddMonth, truncateMonth
<1>5. AddMonth(t1) \in Nat /\ MonthStart[M + 1] =< AddMonth(t1)
  BY <1>1, <1>2, <1>3, <1>4
<1>6. AddMonth(t1) < Last(MonthStart)
  BY DEF GoesOn
<1>7. /\ N \in Months /\ N \in 1 .. Len(MonthStart) /\ N + 1 \in 1 .. Len(MonthStart)
      /\ MonthStart[N] =< AddMonth(t1) /\ AddMonth(t1) < MonthStart[N + 1]
  BY <1>5, <1>6, MonthOfDay
<1>8. NextPart(t1) = MonthStart[N]
  BY DEF NextPart, truncateMonth
<1>9. MonthStart[N] \in Nat /\ MonthStart[N + 1] \in Nat
  BY <1>7, CalendarFacts
<1>10. M + 1 =< N
  <2>1. CASE N + 1 =< M + 1
    <3>1. MonthStart[N + 1] =< MonthStart[M + 1]
      BY <1>2, <1>3, <1>7, <2>1, MonthsInOrder
    <3> QED
      BY <1>3, <1>5, <1>7, <1>9, <3>1
  <2> QED
    BY <1>2, <1>7, <2>1
<1>11. MonthStart[M + 1] =< MonthStart[N]
  BY <1>2, <1>3, <1>7, <1>10, MonthsInOrder
<1>12. MonthStart[N] \in Days
  BY <1>5, <1>6, <1>7, <1>9, CalendarFacts DEF Days
<1> QED
  BY <1>1, <1>2, <1>3, <1>7, <1>8, <1>9, <1>11, <1>12

(* There is a function that satisfies the recursion: from t2 backwards,    *)
(* the value at a day depends on later days only.                          *)
LEMMA SplitExists ==
  ASSUME NEW t2, GoesOn(t2)
  PROVE  \E split : split = [t1 \in Days |-> Split(t1, t2, split)]
<1> DEFINE Good(n) == \E f : /\ f = [t \in Days |-> f[t]]
                             /\ \A t \in Days : n =< t => f[t] = Split(t, t2, f)
           S == {n \in 0 .. t2 : Good(n)}
<1>1. t2 \in Nat /\ t2 \in Days /\ Days \subseteq Nat
  BY CalendarFacts DEF GoesOn, Days
<1>2. t2 \in S
  <2> DEFINE f == [t \in Days |-> <<>>]
  <2>1. \A t \in Days : t2 =< t => f[t] = Split(t, t2, f)
    BY <1>1 DEF Split
  <2>2. f = [t \in Days |-> f[t]]
    OBVIOUS
  <2> HIDE DEF f
  <2> QED
    BY <1>1, <2>1, <2>2
<1>3. S \in SUBSET Nat
  BY <1>1
<1>4. PICK n \in S : \A k \in S : n =< k
  BY <1>2, <1>3, LeastNat
<1>5. PICK f : /\ f = [t \in Days |-> f[t]]
               /\ \A t \in Days : n =< t => f[t] = Split(t, t2, f)
  OBVIOUS
<1>6. CASE n = 0
  <2>1. \A t \in Days : f[t] = Split(t, t2, f)
    BY <1>1, <1>5, <1>6
  <2> QED
    BY <1>5, <2>1
<1>7. CASE n # 0
  <2>1. PICK k \in 0 .. t2 : n = k + 1
    <3>1. n - 1 \in 0 .. t2 /\ n = (n - 1) + 1
      BY <1>1, <1>7
    <3> QED
      BY <3>1
  <2>2. k \in Days /\ k < t2 /\ k \in Nat
    BY <1>1, <2>1, CalendarFacts DEF Days
  <2> DEFINE g == [f EXCEPT ![k] = Split(k, t2, f)]
  <2>3. g = [t \in Days |-> IF t = k THEN Split(k, t2, f) ELSE f[t]]
    BY <1>5, <2>2
  <2>4. \A t \in Days : k =< t => Split(t, t2, g) = Split(t, t2, f)
    <3> TAKE t \in Days
    <3> HAVE k =< t
    <3>1. CASE t < t2
      <4>1. NextPart(t) \in Days /\ t < NextPart(t)
        BY <3>1, NextPartIsLater
      <4>2. NextPart(t) # k
        BY <1>1, <2>2, <4>1
      <4>3. g[NextPart(t)] = f[NextPart(t)]
        BY <2>3, <4>1, <4>2
      <4> QED
        BY <4>3 DEF Split
    <3>2. CASE ~(t < t2)
      BY <1>1, <3>2 DEF Split
    <3> QED
      BY <3>1, <3>2
  <2>5. \A t \in Days : k =< t => g[t] = Split(t, t2, g)
    <3> TAKE t \in Days
    <3> HAVE k =< t
    <3>1. t = k \/ n =< t
      BY <1>1, <2>1, <2>2
    <3>2. g[t] = Split(t, t2, f)
      BY <1>5, <2>3, <3>1
    <3> QED
      BY <2>4, <3>2
  <2>6. g = [t \in Days |-> g[t]]
    BY <2>3
  <2> HIDE DEF g
  <2>7. Good(k)
    BY <2>5, <2>6
  <2>8. k \in S
    BY <2>7
  <2> QED
    BY <1>4, <2>1, <2>2, <2>8
<1> QED
  BY <1>6, <1>7

(* So the recursion can be unfolded.                                       *)
LEMMA SplitUnfolds ==
  ASSUME NEW t2, GoesOn(t2), NEW t1 \in Days
  PROVE  recursiveSplitByMonth(t2)[t1] = Split(t1, t2, recursiveSplitByMonth(t2))
<1>1. recursiveSplitByMonth(t2)
        = CHOOSE split : split = [t \in Days |-> Split(t, t2, split)]
  BY DEF recursiveSplitByMonth, Split, FirstPart
<1>2. recursiveSplitByMonth(t2)
        = [t \in Days |-> Split(t, t2, recursiveSplitByMonth(t2))]
  BY <1>1, SplitExists
<1> QED
  BY <1>2

LEMMA RangeOfCons ==
  ASSUME NEW T, NEW x \in T, NEW s \in Seq(T)
  PROVE  /\ <<x>> \o s \in Seq(T)
         /\ Range(<<x>> \o s) = {x} \cup Range(s)
<1> DEFINE c == <<x>> \o s
<1>1. c \in Seq(T) /\ Len(c) = Len(s) + 1 /\ c[1] = x /\ \A i \in 1 .. Len(s) : c[i + 1] = s[i]
  OBVIOUS
<1>2. DOMAIN c = 1 .. Len(s) + 1 /\ DOMAIN s = 1 .. Len(s) /\ Len(s) \in Nat
  BY <1>1
<1> HIDE DEF c
<1>3. \A i \in 2 .. Len(s) + 1 : \E j \in 1 .. Len(s) : i = j + 1
  <2> TAKE i \in 2 .. Len(s) + 1
  <2>1. i - 1 \in 1 .. Len(s) /\ i = (i - 1) + 1
    BY <1>2
  <2> QED
    BY <2>1
<1>4. Range(c) \subseteq {x} \cup Range(s)
  <2>1. SUFFICES ASSUME NEW i \in 1 .. Len(s) + 1, c[i] # x PROVE c[i] \in Range(s)
    BY <1>2 DEF Range
  <2>2. i \in 2 .. Len(s) + 1
    BY <1>1, <1>2, <2>1
  <2>3. PICK j \in 1 .. Len(s) : i = j + 1
    BY <1>3, <2>2
  <2> QED
    BY <1>1, <1>2, <2>3 DEF Range
<1>5. \A j \in 1 .. Len(s) : s[j] = c[j + 1] /\ j + 1 \in 1 .. Len(s) + 1
  BY <1>1, <1>2
<1>6. {x} \cup Range(s) \subseteq Range(c)
  <2>1. x \in Range(c)
    BY <1>1, <1>2 DEF Range
  <2>2. Range(s) \subseteq Range(c)
    BY <1>2, <1>5 DEF Range
  <2> QED
    BY <2>1, <2>2
<1>7. Range(c) = {x} \cup Range(s)
  BY <1>4, <1>6
<1> QED
  BY <1>1, <1>7 DEF c

LEMMA RangeOfHeadAndTail ==
  ASSUME NEW T, NEW s \in Seq(T), s # <<>>
  PROVE  /\ Head(s) \in T /\ Tail(s) \in Seq(T)
         /\ Range(s) = {Head(s)} \cup Range(Tail(s))
<1>1. Head(s) \in T /\ Tail(s) \in Seq(T) /\ s = <<Head(s)>> \o Tail(s)
  OBVIOUS
<1> QED
  BY <1>1, RangeOfCons

LEMMA EmptyRange == Range(<<>>) = {}
  BY DEF Range

In(day, f) == f.start =< day /\ day < f.stop

(* What it means to split the days from t1 on, before t2: the parts are    *)
(* theirs, cover them all and share none, and every whole month is one.    *)
SplitsRight(t1, t2, s) ==
  /\ s \in Seq(EventFilter)
  /\ \A f \in Range(s) : t1 =< f.start /\ f.stop =< t2
  /\ \A day \in Days : t1 =< day /\ day < t2 => \E f \in Range(s) : In(day, f)
  /\ \A f, g \in Range(s) : \A day \in Days : In(day, f) /\ In(day, g) => f = g
  /\ EveryMonthHas(t1) =>
       \A m \in Months : t1 =< Month(m).start /\ Month(m).stop =< t2 => Month(m) \in Range(s)

LEMMA NothingToSplit ==
  ASSUME NEW t1 \in Days, NEW t2 \in Days, t1 >= t2
  PROVE  SplitsRight(t1, t2, <<>>)
<1>1. t1 \in Nat /\ t2 \in Nat /\ Days \subseteq Nat
  BY CalendarFacts DEF Days
<1>2. \A day \in Days : ~(t1 =< day /\ day < t2)
  BY <1>1
<1>3. ASSUME NEW m \in Months, t1 =< Month(m).start, Month(m).stop =< t2 PROVE FALSE
  <2>1. MonthStart[m] \in Nat /\ MonthStart[m + 1] \in Nat /\ MonthStart[m] < MonthStart[m + 1]
    BY CalendarFacts, MonthsAscend DEF Months
  <2>2. t1 =< MonthStart[m] /\ MonthStart[m + 1] =< t2
    BY <1>3 DEF Month
  <2> QED
    BY <1>1, <2>1, <2>2
<1>4. <<>> \in Seq(EventFilter)
  OBVIOUS
<1> QED
  BY <1>2, <1>3, <1>4, EmptyRange DEF SplitsRight

(* A month begins where the next part does, and a day every month has      *)
(* leads to the month after its own.                                       *)
LEMMA NextPartOfDay ==
  ASSUME NEW t2, GoesOn(t2), NEW t1 \in Days, t1 < t2
  PROVE  /\ EveryMonthHas(NextPart(t1))
         /\ EveryMonthHas(t1) => NextPart(t1) = MonthStart[MonthOf(t1) + 1]
<1>1. t1 \in Nat /\ t2 \in Nat /\ t2 =< Last(MonthStart) /\ t1 < Last(MonthStart)
  BY CalendarFacts DEF GoesOn, Days
<1>2. EveryMonthHas(NextPart(t1))
  <2>1. PICK m \in Months : NextPart(t1) = MonthStart[m]
    BY NextPartIsLater
  <2>2. MonthStart[m] \in Nat /\ MonthStart[m + 1] \in Nat /\ MonthStart[m] < MonthStart[m + 1]
    BY CalendarFacts, MonthsAscend DEF Months
  <2>3. MonthOf(MonthStart[m]) = m
    BY <2>2, OneMonth DEF MonthOf
  <2>4. truncateMonth(NextPart(t1)) = NextPart(t1)
    BY <2>1, <2>3 DEF truncateMonth
  <2>5. \A n \in Months : /\ MonthStart[n] \in Nat /\ MonthStart[n + 1] \in Nat
                          /\ MonthStart[n] < MonthStart[n + 1]
    BY CalendarFacts, MonthsAscend DEF Months
  <2>6. NextPart(t1) - NextPart(t1) = 0
    BY <2>1, <2>2
  <2> QED
    BY <2>4, <2>5, <2>6 DEF EveryMonthHas
<1>3. ASSUME EveryMonthHas(t1) PROVE NextPart(t1) = MonthStart[MonthOf(t1) + 1]
  <2> PICK M : M = MonthOf(t1)
    OBVIOUS
  <2>1. /\ M \in 1 .. Len(MonthStart) /\ M + 1 \in 1 .. Len(MonthStart)
        /\ MonthStart[M] =< t1 /\ t1 < MonthStart[M + 1]
    BY <1>1, MonthOfDay
  <2>2. MonthStart[M] \in Nat /\ MonthStart[M + 1] \in Nat
    BY <2>1, CalendarFacts
  <2>3. AddMonth(t1) = MonthStart[M + 1] + (t1 - MonthStart[M])
    BY DEF AddMonth, truncateMonth
  <2>4. AddMonth(t1) \in Nat /\ MonthStart[M + 1] =< AddMonth(t1)
    BY <1>1, <2>1, <2>2, <2>3
  <2>5. AddMonth(t1) < Last(MonthStart)
    BY DEF GoesOn
  <2>6. M + 1 \in Months
    <3>1. M + 1 # Len(MonthStart)
      BY <2>2, <2>4, <2>5, CalendarFacts
    <3> QED
      BY <2>1, <3>1, CalendarFacts DEF Months
  <2>7. MonthStart[M + 1] + (t1 - MonthStart[M]) < MonthStart[(M + 1) + 1]
    BY <1>3, <2>6 DEF EveryMonthHas, truncateMonth
  <2>8. MonthOf(AddMonth(t1)) \in Months
        /\ MonthStart[MonthOf(AddMonth(t1))] =< AddMonth(t1)
        /\ AddMonth(t1) < MonthStart[MonthOf(AddMonth(t1)) + 1]
    BY <2>4, <2>5, MonthOfDay
  <2>9. MonthOf(AddMonth(t1)) = M + 1
    BY <2>3, <2>4, <2>6, <2>7, <2>8, OneMonth
  <2> QED
    BY <2>9 DEF NextPart, truncateMonth
<1> QED
  BY <1>2, <1>3

(* One part more: what precedes the parts from the next month on.          *)
LEMMA SplitOneMore ==
  ASSUME NEW t2, GoesOn(t2), NEW t1 \in Days, t1 < t2,
         NEW s, SplitsRight(NextPart(t1), t2, s), NextPart(t1) >= t2 => s = <<>>
  PROVE  SplitsRight(t1, t2, <<FirstPart(t1, t2)>> \o s)
<1> PICK next : next = NextPart(t1)
  OBVIOUS
<1> PICK f : f = FirstPart(t1, t2)
  OBVIOUS
<1>1. t1 \in Nat /\ t2 \in Nat /\ t2 \in Days /\ next \in Days /\ next \in Nat /\ t1 < next
      /\ Days \subseteq Nat /\ t2 =< Last(MonthStart)
  BY NextPartIsLater, CalendarFacts DEF GoesOn, Days
<1>2. /\ f.start = t1 /\ f.start < f.stop /\ f.stop =< t2 /\ f.stop =< next
      /\ f.stop \in Days /\ f = [start |-> t1, stop |-> f.stop]
      /\ f.stop = IF t2 < next THEN t2 ELSE next
  BY <1>1 DEF FirstPart, minDate
<1>3. f \in EventFilter
  BY <1>1, <1>2 DEF EventFilter
<1>4. s \in Seq(EventFilter)
  BY DEF SplitsRight
<1>5. <<f>> \o s \in Seq(EventFilter) /\ Range(<<f>> \o s) = {f} \cup Range(s)
  BY <1>3, <1>4, RangeOfCons
<1>6. \A g \in Range(s) : g \in EventFilter /\ next =< g.start /\ g.stop =< t2
  <2>1. Range(s) \subseteq EventFilter
    BY <1>4 DEF Range
  <2> QED
    BY <2>1 DEF SplitsRight
<1>7. \A g \in Range(s) : g.start \in Nat /\ g.stop \in Nat
  BY <1>1, <1>6 DEF EventFilter
<1>8. \A g \in {f} \cup Range(s) : t1 =< g.start /\ g.stop =< t2
  BY <1>1, <1>2, <1>6, <1>7
<1>9. ASSUME NEW day \in Days, t1 =< day, day < t2
      PROVE  \E g \in {f} \cup Range(s) : In(day, g)
  <2>1. CASE day < next
    BY <1>1, <1>2, <1>9, <2>1 DEF In
  <2>2. CASE next =< day
    BY <1>9, <2>2 DEF SplitsRight
  <2> QED
    BY <1>1, <2>1, <2>2
<1>10. ASSUME NEW g \in {f} \cup Range(s), NEW h \in {f} \cup Range(s), NEW day \in Days,
              In(day, g), In(day, h)
       PROVE  g = h
  <2>1. \A k \in Range(s) : ~(In(day, f) /\ In(day, k))
    BY <1>1, <1>2, <1>6, <1>7 DEF In
  <2>2. CASE g \in Range(s) /\ h \in Range(s)
    BY <1>10, <2>2 DEF SplitsRight
  <2> QED
    BY <1>10, <2>1, <2>2
<1>11. ASSUME EveryMonthHas(t1), NEW m \in Months, t1 =< Month(m).start, Month(m).stop =< t2
       PROVE  Month(m) \in {f} \cup Range(s)
  <2> PICK M : M = MonthOf(t1)
    OBVIOUS
  <2>1. /\ M \in Months
        /\ M \in 1 .. Len(MonthStart) /\ M + 1 \in 1 .. Len(MonthStart)
        /\ MonthStart[M] =< t1 /\ t1 < MonthStart[M + 1]
        /\ MonthStart[M] \in Nat /\ MonthStart[M + 1] \in Nat
    BY <1>1, MonthOfDay, CalendarFacts
  <2>2. next = MonthStart[M + 1] /\ EveryMonthHas(next)
    BY <1>11, NextPartOfDay
  <2>3. /\ m \in 1 .. Len(MonthStart) /\ m + 1 \in 1 .. Len(MonthStart)
        /\ MonthStart[m] \in Nat /\ MonthStart[m + 1] \in Nat /\ MonthStart[m] < MonthStart[m + 1]
    BY CalendarFacts, MonthsAscend DEF Months
  <2>4. t1 =< MonthStart[m] /\ MonthStart[m + 1] =< t2
    BY <1>11 DEF Month
  <2>5. CASE MonthStart[m] = t1
    <3>1. m = M
      BY <1>1, <2>1, <2>3, <2>5, OneMonth
    <3>2. f.stop = MonthStart[m + 1]
      BY <1>1, <1>2, <2>2, <2>3, <2>4, <3>1
    <3>3. f = Month(m)
      BY <1>2, <2>5, <3>2 DEF Month
    <3> QED
      BY <3>3
  <2>6. CASE MonthStart[m] # t1
    <3>1. next =< MonthStart[m]
      <4>1. ~(m =< M)
        <5>1. SUFFICES ASSUME m =< M PROVE FALSE
          OBVIOUS
        <5>2. MonthStart[m] =< MonthStart[M]
          BY <2>1, <2>3, <5>1, MonthsInOrder
        <5> QED
          BY <1>1, <2>1, <2>3, <2>4, <2>6, <5>2
      <4>2. M + 1 =< m
        BY <2>1, <2>3, <4>1
      <4> QED
        BY <2>1, <2>2, <2>3, <4>2, MonthsInOrder
    <3>2. next =< Month(m).start /\ Month(m).stop =< t2
      BY <2>4, <3>1 DEF Month
    <3> QED
      BY <2>2, <3>2 DEF SplitsRight
  <2> QED
    BY <2>5, <2>6
<1>12. SplitsRight(t1, t2, <<f>> \o s)
  BY <1>5, <1>8, <1>9, <1>10, <1>11 DEF SplitsRight
<1> QED
  BY <1>12

(* What SplitByMonth computes, by induction from t2 backwards: the latest  *)
(* day that were split wrong would have its next part split wrong.         *)
LEMMA SplitIsRight ==
  ASSUME NEW t2, GoesOn(t2)
  PROVE  \A t1 \in Days : SplitsRight(t1, t2, recursiveSplitByMonth(t2)[t1])
<1> DEFINE split == recursiveSplitByMonth(t2)
           Wrong == {t \in Days : ~SplitsRight(t, t2, split[t])}
           left == {Last(MonthStart) - t : t \in Wrong}
<1>1. /\ t2 \in Nat /\ t2 \in Days /\ Days \subseteq Nat /\ Last(MonthStart) \in Nat
      /\ \A t \in Days : t =< Last(MonthStart)
  BY CalendarFacts DEF GoesOn, Days
<1>2. \A t \in Days : split[t] = Split(t, t2, split)
  BY SplitUnfolds
<1> HIDE DEF split
<1>3. SUFFICES ASSUME Wrong # {} PROVE FALSE
  BY DEF split
<1>4. left # {} /\ left \in SUBSET Nat
  <2>1. \A day \in Days : Last(MonthStart) - day \in Nat
    BY <1>1
  <2>2. Wrong \subseteq Days
    OBVIOUS
  <2> HIDE DEF Wrong
  <2> QED
    BY <1>3, <2>1, <2>2
<1>5. PICK n \in left : \A k \in left : n =< k
  BY <1>4, LeastNat
<1>6. PICK t \in Wrong : n = Last(MonthStart) - t
  OBVIOUS
<1>7. t < t2
  <2>1. SUFFICES ASSUME t >= t2 PROVE FALSE
    BY <1>1
  <2>2. split[t] = <<>>
    BY <1>2, <2>1 DEF Split
  <2> QED
    BY <1>1, <2>1, <2>2, NothingToSplit
<1>8. split[t] = <<FirstPart(t, t2)>> \o split[NextPart(t)]
  <2>1. ~(t >= t2) /\ split[t] = Split(t, t2, split)
    BY <1>1, <1>2, <1>7
  <2> QED
    BY <2>1 DEF Split
<1>9. NextPart(t) \in Days /\ t < NextPart(t)
  BY <1>7, NextPartIsLater
<1>10. NextPart(t) \notin Wrong
  <2>1. SUFFICES ASSUME NextPart(t) \in Wrong PROVE FALSE
    OBVIOUS
  <2>2. Last(MonthStart) - NextPart(t) \in left
    BY <2>1
  <2>3. n =< Last(MonthStart) - NextPart(t)
    BY <1>5, <2>2
  <2>4. t \in Nat /\ NextPart(t) \in Nat
    BY <1>1, <1>9
  <2> QED
    BY <1>1, <1>6, <1>9, <2>3, <2>4
<1>11. SplitsRight(NextPart(t), t2, split[NextPart(t)])
  BY <1>9, <1>10
<1>12. NextPart(t) >= t2 => split[NextPart(t)] = <<>>
  BY <1>2, <1>9 DEF Split
<1>13. SplitsRight(t, t2, split[t])
  BY <1>7, <1>8, <1>11, <1>12, SplitOneMore
<1> QED
  BY <1>6, <1>13

------------------------------------------------------------------------------
(* The invariant.                                                          *)

(* What a handler has to answer.                                           *)
AskedFilters(r) ==
  IF Endpoint[r] = "billable" THEN Range(SplitByMonth(AskedRange[r]))
  ELSE {[start |-> AskedRange[r][1], stop |-> AskedRange[r][2]]}

Answered(r) == {a.filter : a \in charged[r]}

(* Before and after a request nothing is left of it but its reply.         *)
AtRest(r) ==
  /\ pc[r] \in {"absent", "new", "done"} =>
       /\ months[r] = <<>>
       /\ inserted[r] = {}
       /\ tasks[r] = {}
  /\ pc[r] \in {"absent", "new"} =>
       /\ reply[r] = <<>>
       /\ charged[r] = {}
       /\ billed[r] = {}

(* Each state of a handler belongs to its endpoint.                        *)
OwnHandler(r) ==
  /\ pc[r] = "bill" => Endpoint[r] = "billable"
  /\ pc[r] \in {"insert", "price"} => Endpoint[r] = "forecast"
  /\ pc[r] = "live" => Endpoint[r] # "forecast"

(* A filter is answered, is being answered or is still to be.              *)
FilterInv(r) ==
  /\ pc[r] \notin {"absent", "new", "done"} =>
       AskedFilters(r) = Answered(r) \cup Range(months[r])
  /\ pc[r] \in {"bill", "live", "insert", "price", "rows"} => months[r] # <<>>
  /\ pc[r] = "rows" => Head(months[r]) \in Answered(r)
  /\ Complete(r) => AskedFilters(r) = Answered(r)

Even(n) == n % 2 = 0

(* An array that is not closed yet: the elements and separators so far.    *)
Unclosed(s) ==
  /\ s[1] = "["
  /\ \A i \in 2 .. Len(s) : s[i] = IF Even(i) THEN "row" ELSE "comma"

(* Bills write a separator before a row, if they have sent one (and no sum *)
(* of tasks); usage and forecasts after it, if another follows.            *)
ReplyInv(r) ==
  /\ pc[r] \notin {"absent", "new", "done"} =>
       \/ Endpoint[r] = "billable" /\ Sent(r, "sum")
       \/ Endpoint[r] = "billable" /\ reply[r] = <<>>
       \/ Endpoint[r] = "billable" /\ Unclosed(reply[r])
          /\ Len(reply[r]) > 0 /\ Even(Len(reply[r]))
       \/ pc[r] # "rows" /\ reply[r] = <<>>
       \/ /\ pc[r] = "rows" /\ Endpoint[r] # "billable" /\ Unclosed(reply[r])
          /\ Len(reply[r]) > 0
          /\ Even(Len(reply[r])) <=> cursor[r] = {} /\ Len(reply[r]) > 1
  /\ Complete(r) =>
       /\ ~Sent(r, "sum") => WellFormed(reply[r])
       /\ Endpoint[r] # "billable" => ~broken[r]

(* A month that was consolidated before the request came is answered from  *)
(* its bill.                                                               *)
BilledInv(r) ==
  /\ billed[r] \subseteq DOMAIN bill
  /\ Endpoint[r] = "billable" /\ pc[r] = "live" =>
       \A m \in billed[r] : Filter(r) # Month(m)
  /\ Endpoint[r] = "billable" =>
       \A a \in charged[r] : \A m \in billed[r] :
         a.filter = Month(m) => a.rows = AskedFor(r, bill[m])

(* Simulated events are seen by the forecast that inserted them.           *)
ForecastInv(r) ==
  Endpoint[r] # "forecast" => \A a \in charged[r] : a.rows \cap Dummies = {}

(* Nothing of a forecast is in the tables.                                 *)
NothingSimulated ==
  /\ raw \cap Dummies = {}
  /\ \A t \in Tables : table[t] \cap Dummies = {}
  /\ \A m \in DOMAIN bill : bill[m] \cap Dummies = {}

RequestInv(r) ==
  /\ AtRest(r)
  /\ OwnHandler(r)
  /\ FilterInv(r)
  /\ ReplyInv(r)
  /\ BilledInv(r)
  /\ ForecastInv(r)

IInv ==
  /\ TypeOK
  /\ NothingSimulated
  /\ \A r \in Requests : RequestInv(r)

------------------------------------------------------------------------------
(* What a request asks for.                                                *)

LEMMA RequestFacts ==
  ASSUME NEW r \in Requests
  PROVE  /\ Endpoint[r] \in {"billable", "usage", "forecast"}
         /\ AskedRange[r][1] \in Days /\ AskedRange[r][2] \in Days
         /\ AskedRange[r][1] \in Nat /\ AskedRange[r][2] \in Nat
         /\ Endpoint[r] = "billable" => GoesOn(AskedRange[r][2])
BY RequestsAssumption, RangesAssumption DEF GoesOn

LEMMA BillsAreSplit ==
  ASSUME NEW r \in Requests, Endpoint[r] = "billable"
  PROVE  SplitsRight(AskedRange[r][1], AskedRange[r][2], SplitByMonth(AskedRange[r]))
BY RequestFacts, SplitIsRight DEF SplitByMonth

LEMMA FirstFilters ==
  ASSUME NEW r \in Requests
  PROVE  LET first == IF Endpoint[r] = "billable" THEN SplitByMonth(AskedRange[r])
                      ELSE <<[start |-> AskedRange[r][1], stop |-> AskedRange[r][2]]>>
         IN first \in Seq(EventFilter) /\ Range(first) = AskedFilters(r)
<1> DEFINE whole == [start |-> AskedRange[r][1], stop |-> AskedRange[r][2]]
<1>1. CASE Endpoint[r] = "billable"
  BY <1>1, BillsAreSplit DEF SplitsRight, AskedFilters
<1>2. CASE Endpoint[r] # "billable"
  <2>1. whole \in EventFilter
    BY RequestFacts DEF EventFilter
  <2> HIDE DEF whole
  <2>2. <<whole>> \in Seq(EventFilter) /\ Range(<<whole>>) = {whole}
    BY <2>1 DEF Range
  <2> QED
    BY <1>2, <2>2 DEF AskedFilters, whole
<1> QED
  BY <1>1, <1>2

(* The filters asked for hold each day of the range once.                  *)
LEMMA DaysCounted ==
  ASSUME NEW r \in Requests, NEW day \in Days
  PROVE  Cardinality({f \in AskedFilters(r) : f.start =< day /\ day < f.stop})
           = IF AskedRange[r][1] =< day /\ day < AskedRange[r][2] THEN 1 ELSE 0
<1> DEFINE holding == {f \in AskedFilters(r) : f.start =< day /\ day < f.stop}
           asked == AskedRange[r][1] =< day /\ day < AskedRange[r][2]
<1>1. /\ \A f, g \in AskedFilters(r) : In(day, f) /\ In(day, g) => f = g
      /\ asked => \E f \in AskedFilters(r) : In(day, f)
      /\ \A f \in AskedFilters(r) : In(day, f) => asked
  <2>1. CASE Endpoint[r] = "billable"
    <3>1. SplitsRight(AskedRange[r][1], AskedRange[r][2], SplitByMonth(AskedRange[r]))
      BY <2>1, BillsAreSplit
    <3>2. AskedFilters(r) = Range(SplitByMonth(AskedRange[r]))
      BY <2>1 DEF AskedFilters
    <3>3. AskedFilters(r) \subseteq EventFilter
      BY <3>1, <3>2 DEF SplitsRight, Range
    <3>4. ASSUME NEW f \in AskedFilters(r), In(day, f) PROVE asked
      <4>1. AskedRange[r][1] =< f.start /\ f.stop =< AskedRange[r][2]
        BY <3>1, <3>2 DEF SplitsRight
      <4>2. f.start \in Nat /\ f.stop \in Nat /\ day \in Nat
        BY <3>3, CalendarFacts DEF EventFilter, Days
      <4> QED
        BY <3>4, <4>1, <4>2, RequestFacts DEF In
    <3>5. asked => \E f \in AskedFilters(r) : In(day, f)
      BY <3>1, <3>2 DEF SplitsRight
    <3>6. \A f, g \in AskedFilters(r) : In(day, f) /\ In(day, g) => f = g
      BY <3>1, <3>2 DEF SplitsRight
    <3> HIDE DEF asked
    <3> QED
      BY <3>4, <3>5, <3>6
  <2>2. CASE Endpoint[r] # "billable"
    <3>1. PICK f : f = [start |-> AskedRange[r][1], stop |-> AskedRange[r][2]]
      OBVIOUS
    <3>2. AskedFilters(r) = {f}
      BY <2>2, <3>1 DEF AskedFilters
    <3>3. f.start = AskedRange[r][1] /\ f.stop = AskedRange[r][2]
      BY <3>1
    <3> QED
      BY <3>2, <3>3 DEF In
  <2> QED
    BY <2>1, <2>2
<1>2. CASE asked
  <2>1. PICK f \in AskedFilters(r) : In(day, f)
    BY <1>1, <1>2
  <2>2. holding = {f}
    BY <1>1, <2>1 DEF In
  <2>3. Cardinality({f}) = 1
    BY FS_Singleton
  <2> QED
    BY <1>2, <2>2, <2>3
<1>3. CASE ~asked
  <2>1. holding = {}
    BY <1>1, <1>3 DEF In
  <2>2. Cardinality({}) = 0
    BY FS_EmptySet
  <2> QED
    BY <1>3, <2>1, <2>2
<1> QED
  BY <1>2, <1>3

------------------------------------------------------------------------------
(* Steps.                                                                  *)

(* What is committed of a month stays.                                     *)
BillsKept ==
  /\ DOMAIN bill \subseteq DOMAIN bill'
  /\ \A m \in DOMAIN bill : bill'[m] = bill[m]

Untouched(q) ==
  /\ pc'[q] = pc[q]
  /\ months'[q] = months[q]
  /\ cursor'[q] = cursor[q]
  /\ tasks'[q] = tasks[q]
  /\ broken'[q] = broken[q]
  /\ reply'[q] = reply[q]
  /\ charged'[q] = charged[q]
  /\ open'[q] = open[q]
  /\ inserted'[q] = inserted[q]
  /\ billed'[q] = billed[q]

(* What is known of a request stays true while others go on.               *)
LEMMA OtherRequest ==
  ASSUME NEW q, RequestInv(q), BillsKept, Untouched(q)
  PROVE  RequestInv(q)'
<1>1. AtRest(q)'
  BY DEF RequestInv, AtRest, Untouched
<1>2. OwnHandler(q)'
  BY DEF RequestInv, OwnHandler, Untouched
<1>3. Complete(q)' = Complete(q) /\ Answered(q)' = Answered(q) /\ AskedFilters(q)' = AskedFilters(q)
  BY DEF Complete, Sent, Untouched, Answered, AskedFilters
<1>4. FilterInv(q)'
  BY <1>3 DEF RequestInv, FilterInv, Untouched
<1>5. ReplyInv(q)'
  BY <1>3 DEF RequestInv, ReplyInv, Untouched, Sent
<1>6. BilledInv(q)'
  <2>1. billed[q] \subseteq DOMAIN bill
    BY DEF RequestInv, BilledInv
  <2>2. \A m \in billed[q] : AskedFor(q, bill[m])' = AskedFor(q, bill[m])
    BY <2>1 DEF BillsKept, AskedFor
  <2>3. billed'[q] \subseteq DOMAIN bill'
    BY <2>1 DEF BillsKept, Untouched
  <2> QED
    BY <2>1, <2>2, <2>3 DEF RequestInv, BilledInv, Untouched, Filter
<1>7. ForecastInv(q)'
  BY DEF RequestInv, ForecastInv, Untouched
<1> QED
  BY <1>1, <1>2, <1>4, <1>5, <1>6, <1>7 DEF RequestInv

(* A step of a handler touches its own request, and no table.              *)
StepOf(r) ==
  /\ UNCHANGED database
  /\ \A q \in Requests \ {r} : Untouched(q)

LEMMA HandlerStep ==
  ASSUME IInv, NEW r \in Requests, StepOf(r), TypeOK', RequestInv(r)'
  PROVE  IInv'
<1>1. BillsKept
  BY DEF StepOf, database, BillsKept
<1>2. \A q \in Requests : RequestInv(q)'
  <2> TAKE q \in Requests
  <2>1. CASE q # r
    BY <1>1, <2>1, OtherRequest DEF IInv, StepOf
  <2> QED
    BY <2>1
<1>3. NothingSimulated'
  BY DEF IInv, NothingSimulated, StepOf, database
<1> QED
  BY <1>2, <1>3 DEF IInv


(* The processor and the collector touch no request.                       *)
LEMMA DatabaseStep ==
  ASSUME IInv, UNCHANGED request, BillsKept, TypeOK', NothingSimulated'
  PROVE  IInv'
<1>1. \A q \in Requests : Untouched(q)
  BY DEF request, Untouched
<1>2. \A q \in Requests : RequestInv(q)'
  BY <1>1, OtherRequest DEF IInv
<1> QED
  BY <1>2 DEF IInv

LEMMA ArriveStep ==
  ASSUME IInv, NEW e \in Events, Arrive(e)
  PROVE  IInv'
<1>1. TypeOK /\ NothingSimulated
  BY DEF IInv
<1>2. TypeOK'
  BY <1>1 DEF TypeOK, Arrive, request
<1>3. NothingSimulated'
  BY <1>1 DEF NothingSimulated, Arrive
<1>4. UNCHANGED request /\ BillsKept
  BY DEF Arrive, BillsKept
<1> QED
  BY <1>2, <1>3, <1>4, DatabaseStep

LEMMA RefreshStep ==
  ASSUME IInv, BeginRefresh \/ SwapEvents \/ SwapComponents \/ RefreshTimeout
  PROVE  IInv'
<1>1. TypeOK /\ NothingSimulated
  BY DEF IInv
<1>2. /\ UNCHANGED <<raw, bill, failures, request>>
      /\ refresh' \in Tables \cup {"idle"}
      /\ \/ table' = table
         \/ table' = [table EXCEPT !["events"] = raw]
         \/ table' = [table EXCEPT !["billable_event_components"] = table["events"]]
  BY DEF BeginRefresh, SwapEvents, SwapComponents, RefreshTimeout, Tables
<1>3. /\ table' \in [Tables -> SUBSET Events]
      /\ \A t \in Tables : table'[t] \cap Dummies = {}
  <2>1. /\ table \in [Tables -> SUBSET Events] /\ raw \in SUBSET Events /\ raw \cap Dummies = {}
        /\ \A t \in Tables : table[t] \in SUBSET Events /\ table[t] \cap Dummies = {}
    BY <1>1 DEF TypeOK, NothingSimulated
  <2>2. ASSUME NEW t \in Tables, NEW rows \in SUBSET Events, rows \cap Dummies = {},
               table' = [table EXCEPT ![t] = rows]
        PROVE  /\ table' \in [Tables -> SUBSET Events]
               /\ \A u \in Tables : table'[u] \cap Dummies = {}
    BY <2>1, <2>2
  <2>3. "events" \in Tables /\ "billable_event_components" \in Tables
    BY DEF Tables
  <2> QED
    BY <1>2, <2>1, <2>2, <2>3
<1>4. TypeOK'
  BY <1>1, <1>2, <1>3 DEF TypeOK, request
<1>5. NothingSimulated'
  BY <1>1, <1>2, <1>3 DEF NothingSimulated
<1>6. BillsKept
  BY <1>2 DEF BillsKept
<1> QED
  BY <1>2, <1>4, <1>5, <1>6, DatabaseStep

LEMMA ConsolidateStep ==
  ASSUME IInv, NEW m \in Months, Consolidate(m)
  PROVE  IInv'
<1>1. TypeOK /\ NothingSimulated
  BY DEF IInv
<1> DEFINE rows == {e \in table["billable_event_components"] : Overlaps(e, Month(m))}
<1>2. /\ m = Len(bill) + 1
      /\ bill' = Append(bill, rows)
      /\ UNCHANGED <<raw, table, refresh, failures, request>>
  BY DEF Consolidate
<1>3. rows \in SUBSET Events /\ rows \cap Dummies = {}
  BY <1>1 DEF TypeOK, NothingSimulated, Tables
<1> HIDE DEF rows
<1>4. bill \in Seq(SUBSET Events) /\ DOMAIN bill \subseteq Months /\ DOMAIN bill = 1 .. Len(bill)
  BY <1>1 DEF TypeOK
<1>5. /\ bill' \in Seq(SUBSET Events) /\ bill'[m] = rows
      /\ \A k \in DOMAIN bill : bill'[k] = bill[k]
  BY <1>2, <1>3, <1>4
<1>6. DOMAIN bill' = DOMAIN bill \cup {m}
  BY <1>2, <1>3, <1>4
<1>7. TypeOK'
  <2>1. DOMAIN bill' \subseteq Months
    BY <1>4, <1>6
  <2> QED
    BY <1>1, <1>2, <1>5, <2>1 DEF TypeOK, request
<1>8. NothingSimulated'
  <2>1. \A k \in DOMAIN bill' : bill'[k] \cap Dummies = {}
    BY <1>1, <1>3, <1>5, <1>6 DEF NothingSimulated
  <2> QED
    BY <1>1, <1>2, <2>1 DEF NothingSimulated
<1>9. BillsKept
  BY <1>5, <1>6 DEF BillsKept
<1> QED
  BY <1>2, <1>7, <1>8, <1>9, DatabaseStep

LEMMA EmptyReply ==
  ASSUME NEW r, reply[r] = <<>>
  PROVE  \A token : ~Sent(r, token)
BY DEF Sent, Range

LEMMA RefuseStep ==
  ASSUME IInv, NEW r \in Requests, Refuse(r)
  PROVE  IInv'
<1>1. TypeOK /\ RequestInv(r)
  BY DEF IInv
<1>2. TypeOK'
  <2>1. <<"error">> \in Seq(Tokens)
    BY DEF Tokens
  <2> QED
    BY <1>1, <2>1 DEF TypeOK, Refuse, database
<1>3. StepOf(r)
  BY <1>1 DEF TypeOK, Refuse, database, StepOf, Untouched
<1>4. /\ pc[r] = "new" /\ pc'[r] = "done" /\ reply'[r] = <<"error">> /\ billed'[r] = {}
      /\ UNCHANGED <<months, inserted, tasks, charged>>
  BY <1>1 DEF TypeOK, Refuse
<1>5. Sent(r, "error")'
  BY <1>4 DEF Sent, Range
<1>6. AtRest(r)' /\ OwnHandler(r)' /\ ForecastInv(r)' /\ BilledInv(r)'
  BY <1>1, <1>4 DEF RequestInv, AtRest, OwnHandler, ForecastInv, BilledInv
<1>7. FilterInv(r)' /\ ReplyInv(r)'
  BY <1>4, <1>5 DEF FilterInv, ReplyInv, Complete
<1>8. RequestInv(r)'
  BY <1>6, <1>7 DEF RequestInv
<1> QED
  BY <1>2, <1>3, <1>8, HandlerStep

LEMMA AskAgainStep ==
  ASSUME IInv, NEW r \in Requests, AskAgain(r)
  PROVE  IInv'
<1>1. TypeOK /\ RequestInv(r)
  BY DEF IInv
<1>2. TypeOK'
  <2>1. <<>> \in Seq(Tokens)
    OBVIOUS
  <2> QED
    BY <1>1, <2>1 DEF TypeOK, AskAgain, database
<1>3. StepOf(r)
  BY <1>1 DEF TypeOK, AskAgain, database, StepOf, Untouched
<1>4. /\ pc[r] = "done" /\ pc'[r] = "new" /\ reply'[r] = <<>> /\ billed'[r] = {} /\ charged'[r] = {}
      /\ UNCHANGED <<months, inserted, tasks>>
  BY <1>1 DEF TypeOK, AskAgain
<1>5. AtRest(r)' /\ OwnHandler(r)' /\ ForecastInv(r)' /\ BilledInv(r)'
  BY <1>1, <1>4 DEF RequestInv, AtRest, OwnHandler, ForecastInv, BilledInv
<1>6. FilterInv(r)' /\ ReplyInv(r)'
  BY <1>4 DEF FilterInv, ReplyInv, Complete
<1>7. RequestInv(r)'
  BY <1>5, <1>6 DEF RequestInv
<1> QED
  BY <1>2, <1>3, <1>7, HandlerStep

LEMMA AcceptStep ==
  ASSUME IInv, NEW r \in Requests, Accept(r)
  PROVE  IInv'
<1> PICK first : first = IF Endpoint[r] = "billable" THEN SplitByMonth(AskedRange[r])
                         ELSE <<[start |-> AskedRange[r][1], stop |-> AskedRange[r][2]]>>
  OBVIOUS
<1>1. TypeOK /\ RequestInv(r)
  BY DEF IInv
<1>2. first \in Seq(EventFilter) /\ Range(first) = AskedFilters(r)
  BY FirstFilters
<1>3. /\ pc[r] = "new" /\ pc' = [pc EXCEPT ![r] = "next"]
      /\ months' = [months EXCEPT ![r] = first]
      /\ billed' = [billed EXCEPT ![r] = DOMAIN bill]
      /\ UNCHANGED <<database, failures, cursor, tasks, broken, reply, charged, open, inserted>>
  BY DEF Accept
<1>4. DOMAIN bill \subseteq Months
  BY <1>1 DEF TypeOK, Months
<1>5. TypeOK'
  BY <1>1, <1>2, <1>3, <1>4 DEF TypeOK, database
<1>6. StepOf(r)
  BY <1>1, <1>3 DEF TypeOK, database, StepOf, Untouched
<1>7. /\ pc'[r] = "next" /\ months'[r] = first /\ billed'[r] = DOMAIN bill
      /\ UNCHANGED <<bill, inserted, tasks, reply, charged>>
      /\ reply'[r] = <<>> /\ charged'[r] = {}
  BY <1>1, <1>3 DEF TypeOK, RequestInv, AtRest, database
<1>8. AtRest(r)' /\ OwnHandler(r)' /\ ForecastInv(r)' /\ BilledInv(r)'
  BY <1>1, <1>7 DEF RequestInv, AtRest, OwnHandler, ForecastInv, BilledInv
<1>9. FilterInv(r)'
  BY <1>2, <1>7 DEF FilterInv, Answered, Complete, AskedFilters
<1>10. ReplyInv(r)'
  BY <1>7 DEF ReplyInv, Complete
<1>11. RequestInv(r)'
  BY <1>8, <1>9, <1>10 DEF RequestInv
<1> QED
  BY <1>5, <1>6, <1>11, HandlerStep


LEMMA IsRangeConsolidatedStep ==
  ASSUME IInv, NEW r \in Requests, IsRangeConsolidated(r)
  PROVE  IInv'
<1>1. TypeOK /\ RequestInv(r)
  BY DEF IInv
<1>2. TypeOK'
  BY <1>1 DEF TypeOK, IsRangeConsolidated, database
<1>3. StepOf(r)
  BY <1>1 DEF TypeOK, IsRangeConsolidated, database, StepOf, Untouched
<1>4. /\ pc[r] = "next" /\ pc'[r] \in {"bill", "live"}
      /\ Endpoint[r] = "billable" /\ months[r] # <<>>
      /\ UNCHANGED <<months, inserted, tasks, charged, reply, billed, bill, cursor>>
      /\ pc'[r] = "live" => \A m \in DOMAIN bill : Filter(r) # Month(m)
  BY <1>1 DEF TypeOK, IsRangeConsolidated, database
<1>5. AtRest(r)' /\ OwnHandler(r)' /\ ForecastInv(r)'
  BY <1>1, <1>4 DEF RequestInv, AtRest, OwnHandler, ForecastInv
<1>6. BilledInv(r)'
  BY <1>1, <1>4 DEF RequestInv, BilledInv, Filter, AskedFor
<1>7. FilterInv(r)'
  BY <1>1, <1>4 DEF RequestInv, FilterInv, Complete, Answered, AskedFilters
<1>8. ReplyInv(r)'
  BY <1>1, <1>4 DEF RequestInv, ReplyInv, Complete, Sent
<1>9. RequestInv(r)'
  BY <1>5, <1>6, <1>7, <1>8 DEF RequestInv
<1> QED
  BY <1>2, <1>3, <1>9, HandlerStep

(* A step to another state of the handler, of usage or of a forecast,      *)
(* before there are rows.                                                  *)
LEMMA TowardsRows ==
  ASSUME IInv, NEW r \in Requests, TypeOK', StepOf(r),
         pc[r] \in {"next", "insert"}, pc'[r] \in {"live", "insert", "price"},
         Endpoint[r] # "billable", months[r] # <<>>,
         pc'[r] = "live" => Endpoint[r] = "usage",
         pc'[r] \in {"insert", "price"} => Endpoint[r] = "forecast",
         UNCHANGED <<months, tasks, charged, reply, billed, bill>>
  PROVE  IInv'
<1>1. RequestInv(r)
  BY DEF IInv
<1>2. AtRest(r)' /\ OwnHandler(r)' /\ ForecastInv(r)'
  BY <1>1 DEF RequestInv, AtRest, OwnHandler, ForecastInv
<1>3. BilledInv(r)'
  BY <1>1 DEF RequestInv, BilledInv
<1>4. FilterInv(r)'
  BY <1>1 DEF RequestInv, FilterInv, Complete, Answered, AskedFilters
<1>5. ReplyInv(r)'
  BY <1>1 DEF RequestInv, ReplyInv, Complete, Sent
<1>6. RequestInv(r)'
  BY <1>2, <1>3, <1>4, <1>5 DEF RequestInv
<1> QED
  BY <1>6, HandlerStep

LEMMA ReadEventsStep ==
  ASSUME IInv, NEW r \in Requests, ReadEvents(r)
  PROVE  IInv'
<1>1. TypeOK
  BY DEF IInv
<1>2. TypeOK'
  BY <1>1 DEF TypeOK, ReadEvents, database
<1>3. StepOf(r)
  BY <1>1 DEF TypeOK, ReadEvents, database, StepOf, Untouched
<1>4. /\ pc[r] = "next" /\ months[r] # <<>> /\ Endpoint[r] # "billable"
      /\ pc'[r] = IF Endpoint[r] = "usage" THEN "live" ELSE "insert"
      /\ UNCHANGED <<months, tasks, charged, reply, billed, bill>>
  BY <1>1 DEF TypeOK, ReadEvents, database
<1> QED
  BY <1>2, <1>3, <1>4, RequestFacts, TowardsRows

LEMMA ForecastInsertStep ==
  ASSUME IInv, NEW r \in Requests, ForecastInsert(r)
  PROVE  IInv'
<1>1. TypeOK /\ RequestInv(r)
  BY DEF IInv
<1>2. /\ pc[r] = "insert" /\ pc' = [pc EXCEPT ![r] = "price"]
      /\ open' = [open EXCEPT ![r] = @ \cup {"events"}]
      /\ inserted' = [inserted EXCEPT ![r] = Dummies]
      /\ UNCHANGED <<raw, refresh, bill, failures, months, cursor, tasks, broken, reply,
                     charged, billed, table>>
  BY DEF ForecastInsert, Insertable, Lock, Inserted
<1>3. TypeOK'
  BY <1>1, <1>2 DEF TypeOK, Tables
<1>4. StepOf(r)
  BY <1>1, <1>2 DEF TypeOK, database, StepOf, Untouched
<1>5. Endpoint[r] = "forecast" /\ months[r] # <<>> /\ pc'[r] = "price"
  BY <1>1, <1>2 DEF TypeOK, RequestInv, OwnHandler, FilterInv
<1> QED
  BY <1>2, <1>3, <1>4, <1>5, TowardsRows

LEMMA FetchFacts ==
  ASSUME TypeOK, NEW r \in Requests, NEW left \in SUBSET Events, Fetch(r, left)
  PROVE  /\ cursor' \in [Requests -> SUBSET Events]
         /\ broken' \in [Requests -> BOOLEAN]
         /\ failures' \in 0 .. MaxFailures
         /\ \A q \in Requests \ {r} : cursor'[q] = cursor[q] /\ broken'[q] = broken[q]
         /\ cursor'[r] \in {left, {}}
<1>1. CASE cursor' = [cursor EXCEPT ![r] = left] /\ UNCHANGED <<broken, failures>>
  BY <1>1 DEF TypeOK
<1>2. CASE /\ failures < MaxFailures
           /\ failures' = failures + 1
           /\ cursor' = [cursor EXCEPT ![r] = {}]
           /\ broken' = [broken EXCEPT ![r] = TRUE]
  <2>1. failures' \in 0 .. MaxFailures
    BY <1>2, BoundsAssumption DEF TypeOK
  <2> QED
    BY <1>2, <2>1 DEF TypeOK
<1> QED
  BY <1>1, <1>2 DEF Fetch

(* A result set for the first filter, of rows that are right for it.       *)
LEMMA RowsStep ==
  ASSUME IInv, NEW r \in Requests, NEW rows \in SUBSET Events, Rows(r, rows),
         pc[r] \in {"bill", "live", "price"},
         Endpoint[r] = "billable" =>
           \A m \in billed[r] : Filter(r) = Month(m) => rows = AskedFor(r, bill[m]),
         Endpoint[r] # "forecast" => rows \cap Dummies = {},
         open' \in [Requests -> SUBSET Tables],
         \A q \in Requests \ {r} : open'[q] = open[q],
         UNCHANGED inserted
  PROVE  IInv'
<1>1. TypeOK /\ RequestInv(r) /\ months[r] # <<>>
  BY DEF IInv, RequestInv, FilterInv
<1> PICK new : new = [filter |-> Filter(r), rows |-> rows]
  OBVIOUS
<1>2. /\ pc' = [pc EXCEPT ![r] = "rows"]
      /\ charged' = [charged EXCEPT ![r] = @ \cup {new}]
      /\ reply' = [reply EXCEPT ![r] = IF Endpoint[r] = "billable" THEN @ ELSE <<"[">>]
      /\ Fetch(r, rows)
      /\ UNCHANGED <<raw, table, refresh, bill, months, tasks, billed>>
  BY DEF Rows, database
<1>3. /\ cursor' \in [Requests -> SUBSET Events] /\ broken' \in [Requests -> BOOLEAN]
      /\ failures' \in 0 .. MaxFailures
      /\ \A q \in Requests \ {r} : cursor'[q] = cursor[q] /\ broken'[q] = broken[q]
  BY <1>1, <1>2, FetchFacts
<1>4. Filter(r) \in EventFilter /\ Filter(r) \in Range(months[r])
  <2>1. months[r] \in Seq(EventFilter)
    BY <1>1 DEF TypeOK
  <2> QED
    BY <1>1, <2>1, RangeOfHeadAndTail DEF Filter
<1>5. new \in Answer /\ new.filter = Filter(r) /\ new.rows = rows
  BY <1>4 DEF Answer
<1>6. TypeOK'
  <2>1. reply' \in [Requests -> Seq(Tokens)]
    <3>1. <<"[">> \in Seq(Tokens)
      BY DEF Tokens
    <3> QED
      BY <1>1, <1>2, <3>1 DEF TypeOK
  <2>2. charged' \in [Requests -> SUBSET Answer]
    BY <1>1, <1>2, <1>5 DEF TypeOK
  <2> QED
    BY <1>1, <1>2, <1>3, <2>1, <2>2 DEF TypeOK
<1>7. StepOf(r)
  BY <1>1, <1>2, <1>3 DEF TypeOK, database, StepOf, Untouched
<1>8. /\ pc'[r] = "rows" /\ charged'[r] = charged[r] \cup {new}
      /\ reply'[r] = IF Endpoint[r] = "billable" THEN reply[r] ELSE <<"[">>
      /\ months'[r] = months[r] /\ billed'[r] = billed[r] /\ bill' = bill
  BY <1>1, <1>2 DEF TypeOK
<1>9. AtRest(r)' /\ OwnHandler(r)'
  BY <1>8 DEF AtRest, OwnHandler
<1>10. ForecastInv(r)'
  BY <1>1, <1>5, <1>8 DEF RequestInv, ForecastInv
<1>11. BilledInv(r)'
  <2>1. \A m \in billed[r] : AskedFor(r, bill[m])' = AskedFor(r, bill[m])
    BY <1>8 DEF AskedFor
  <2> QED
    BY <1>1, <1>5, <1>8, <2>1 DEF RequestInv, BilledInv
<1>12. FilterInv(r)'
  <2>1. Answered(r)' = Answered(r) \cup {Filter(r)}
    BY <1>5, <1>8 DEF Answered
  <2>2. AskedFilters(r) = Answered(r) \cup Range(months[r])
    BY <1>1 DEF RequestInv, FilterInv
  <2>3. AskedFilters(r)' = AskedFilters(r)
    BY DEF AskedFilters
  <2>4. ~Complete(r)'
    BY <1>8 DEF Complete
  <2> QED
    BY <1>1, <1>4, <1>8, <2>1, <2>2, <2>3, <2>4 DEF FilterInv, Filter
<1>13. ReplyInv(r)'
  <2>1. ~Complete(r)'
    BY <1>8 DEF Complete
  <2>2. CASE Endpoint[r] = "billable"
    BY <1>1, <1>8, <2>1, <2>2 DEF RequestInv, ReplyInv, Sent
  <2>3. CASE Endpoint[r] # "billable"
    <3>1. reply'[r] = <<"[">> /\ Len(reply'[r]) = 1 /\ ~Even(1)
      BY <1>8, <2>3 DEF Even
    <3>2. Unclosed(reply'[r])
      BY <3>1 DEF Unclosed
    <3> QED
      BY <1>8, <2>1, <2>3, <3>1, <3>2 DEF ReplyInv
  <2> QED
    BY <2>2, <2>3
<1>14. RequestInv(r)'
  BY <1>9, <1>10, <1>11, <1>12, <1>13 DEF RequestInv
<1> QED
  BY <1>6, <1>7, <1>14, HandlerStep


LEMMA EventRowsAreEvents ==
  ASSUME NEW r, NEW f, NEW events \in SUBSET Events
  PROVE  /\ EventRows(r, f, events) \in SUBSET Events
         /\ events \cap Dummies = {} => EventRows(r, f, events) \cap Dummies = {}
BY DEF EventRows, AskedFor

(* The bill of a month has the rows of no other.                           *)
LEMMA BillRowsOfMonth ==
  ASSUME NEW r, NEW m \in DOMAIN bill, DOMAIN bill \subseteq Months
  PROVE  BillRows(r, Month(m)) = AskedFor(r, bill[m])
<1>1. /\ Month(m).start = MonthStart[m] /\ Month(m).stop = MonthStart[m + 1]
      /\ MonthStart[m] < MonthStart[m + 1]
  BY CalendarFacts, MonthsAscend DEF Month, Months
<1>2. {n \in DOMAIN bill : Month(n).start < Month(m).stop /\ Month(m).start < Month(n).stop} = {m}
  BY <1>1, MonthsApart
<1> QED
  BY <1>2 DEF BillRows

LEMMA BillRowsAreBilled ==
  ASSUME TypeOK, NEW r, NEW f
  PROVE  /\ BillRows(r, f) \in SUBSET Events
         /\ NothingSimulated => BillRows(r, f) \cap Dummies = {}
<1>1. \A m \in DOMAIN bill : bill[m] \in SUBSET Events
  BY DEF TypeOK
<1> QED
  BY <1>1 DEF BillRows, AskedFor, NothingSimulated

LEMMA GetConsolidatedBillableEventRowsStep ==
  ASSUME IInv, NEW r \in Requests, GetConsolidatedBillableEventRows(r)
  PROVE  IInv'
<1>1. TypeOK /\ RequestInv(r) /\ NothingSimulated
  BY DEF IInv
<1> PICK rows : rows = BillRows(r, Filter(r))
  OBVIOUS
<1>2. pc[r] = "bill" /\ Rows(r, rows) /\ UNCHANGED <<open, inserted>>
  BY DEF GetConsolidatedBillableEventRows
<1>3. rows \in SUBSET Events /\ rows \cap Dummies = {}
  BY <1>1, BillRowsAreBilled
<1>4. DOMAIN bill \subseteq Months /\ billed[r] \subseteq DOMAIN bill
  BY <1>1 DEF TypeOK, RequestInv, BilledInv
<1>5. \A m \in billed[r] : Filter(r) = Month(m) => rows = AskedFor(r, bill[m])
  BY <1>4, BillRowsOfMonth
<1>6. open' \in [Requests -> SUBSET Tables] /\ \A q \in Requests \ {r} : open'[q] = open[q]
  BY <1>1, <1>2 DEF TypeOK
<1> QED
  BY <1>2, <1>3, <1>5, <1>6, RowsStep

LEMMA LockFacts ==
  ASSUME TypeOK, NEW r \in Requests, NEW t \in Tables, Lock(r, t)
  PROVE  open' \in [Requests -> SUBSET Tables] /\ \A q \in Requests \ {r} : open'[q] = open[q]
BY DEF TypeOK, Lock

LEMMA GetBillableEventRowsStep ==
  ASSUME IInv, NEW r \in Requests, GetBillableEventRows(r)
  PROVE  IInv'
<1>1. TypeOK /\ RequestInv(r) /\ NothingSimulated
  BY DEF IInv
<1> PICK rows : rows = EventRows(r, Filter(r), table["billable_event_components"])
  OBVIOUS
<1>2. /\ pc[r] = "live" /\ Endpoint[r] = "billable" /\ Rows(r, rows) /\ UNCHANGED inserted
      /\ Lock(r, "billable_event_components")
  BY DEF GetBillableEventRows
<1>3. rows \in SUBSET Events /\ rows \cap Dummies = {}
  BY <1>1, EventRowsAreEvents DEF TypeOK, NothingSimulated, Tables
<1>4. \A m \in billed[r] : Filter(r) # Month(m)
  BY <1>1, <1>2 DEF RequestInv, BilledInv
<1>5. open' \in [Requests -> SUBSET Tables] /\ \A q \in Requests \ {r} : open'[q] = open[q]
  BY <1>1, <1>2, LockFacts DEF Tables
<1> QED
  BY <1>2, <1>3, <1>4, <1>5, RowsStep

LEMMA GetUsageEventRowsStep ==
  ASSUME IInv, NEW r \in Requests, GetUsageEventRows(r)
  PROVE  IInv'
<1>1. TypeOK /\ NothingSimulated
  BY DEF IInv
<1> PICK rows : rows = EventRows(r, Filter(r), table["events"])
  OBVIOUS
<1>2. /\ pc[r] = "live" /\ Endpoint[r] = "usage" /\ Rows(r, rows) /\ UNCHANGED inserted
      /\ Lock(r, "events")
  BY DEF GetUsageEventRows
<1>3. rows \in SUBSET Events /\ rows \cap Dummies = {}
  BY <1>1, EventRowsAreEvents DEF TypeOK, NothingSimulated, Tables
<1>4. open' \in [Requests -> SUBSET Tables] /\ \A q \in Requests \ {r} : open'[q] = open[q]
  BY <1>1, <1>2, LockFacts DEF Tables
<1> QED
  BY <1>2, <1>3, <1>4, RowsStep

LEMMA ForecastBillableEventRowsStep ==
  ASSUME IInv, NEW r \in Requests, ForecastBillableEventRows(r)
  PROVE  IInv'
<1>1. TypeOK /\ RequestInv(r)
  BY DEF IInv
<1> PICK events : events = table["billable_event_components"] \cup inserted[r]
  OBVIOUS
<1> PICK rows : rows = EventRows(r, Filter(r), events)
  OBVIOUS
<1>2. /\ pc[r] = "price" /\ Rows(r, rows) /\ UNCHANGED inserted
      /\ Lock(r, "billable_event_components")
  BY DEF ForecastBillableEventRows
<1>3. events \in SUBSET Events
  <2>1. inserted[r] \subseteq Events
    BY <1>1, EventsAssumption DEF TypeOK
  <2>2. table["billable_event_components"] \subseteq Events
    BY <1>1 DEF TypeOK, Tables
  <2> QED
    BY <2>1, <2>2
<1>4. rows \in SUBSET Events
  BY <1>3, EventRowsAreEvents
<1>5. Endpoint[r] = "forecast"
  BY <1>1, <1>2 DEF RequestInv, OwnHandler
<1>6. open' \in [Requests -> SUBSET Tables] /\ \A q \in Requests \ {r} : open'[q] = open[q]
  BY <1>1, <1>2, LockFacts DEF Tables
<1> QED
  BY <1>2, <1>4, <1>5, <1>6, RowsStep


------------------------------------------------------------------------------
(* Replies as they grow.                                                   *)

LEMMA Parity ==
  /\ \A n \in Nat : Even(n + 1) <=> ~Even(n)
  /\ ~Even(1) /\ Even(2)
BY DEF Even

LEMMA OddRemainder == \A n \in Nat : ~Even(n) => n % 2 = 1
BY DEF Even

LEMMA RangeOfConcat ==
  ASSUME NEW T, NEW s \in Seq(T), NEW t \in Seq(T)
  PROVE  s \o t \in Seq(T) /\ Range(s) \subseteq Range(s \o t) /\ Range(t) \subseteq Range(s \o t)
<1>1. /\ s \o t \in Seq(T) /\ DOMAIN (s \o t) = 1 .. Len(s) + Len(t)
      /\ DOMAIN s = 1 .. Len(s) /\ DOMAIN t = 1 .. Len(t)
      /\ Len(s) \in Nat /\ Len(t) \in Nat
  OBVIOUS
<1>2. \A i \in 1 .. Len(s) : (s \o t)[i] = s[i] /\ i \in 1 .. Len(s) + Len(t)
  BY <1>1
<1>3. \A i \in 1 .. Len(t) : (s \o t)[i + Len(s)] = t[i] /\ i + Len(s) \in 1 .. Len(s) + Len(t)
  BY <1>1
<1>4. Range(s) \subseteq Range(s \o t)
  BY <1>1, <1>2 DEF Range
<1>5. Range(t) \subseteq Range(s \o t)
  BY <1>1, <1>3 DEF Range
<1> QED
  BY <1>1, <1>4, <1>5

(* An array grows by an element and a separator in turn.                   *)
LEMMA AddToken ==
  ASSUME NEW s \in Seq(Tokens), Unclosed(s), Len(s) > 0,
         NEW token, token = IF Even(Len(s)) THEN "comma" ELSE "row"
  PROVE  /\ s \o <<token>> \in Seq(Tokens) /\ Unclosed(s \o <<token>>)
         /\ Len(s \o <<token>>) = Len(s) + 1
<1> DEFINE t == s \o <<token>>
<1>1. token \in Tokens
  BY DEF Tokens
<1>2. /\ t \in Seq(Tokens) /\ Len(t) = Len(s) + 1 /\ Len(s) \in Nat
      /\ t[Len(s) + 1] = token /\ \A i \in 1 .. Len(s) : t[i] = s[i]
  BY <1>1
<1> HIDE DEF t
<1>3. t[1] = "["
  BY <1>2 DEF Unclosed
<1>4. ASSUME NEW i \in 2 .. Len(t) PROVE t[i] = IF Even(i) THEN "row" ELSE "comma"
  <2>1. CASE i = Len(s) + 1
    BY <1>2, <2>1, Parity
  <2>2. CASE i # Len(s) + 1
    <3>1. i \in 2 .. Len(s) /\ i \in 1 .. Len(s)
      BY <1>2, <2>2
    <3> QED
      BY <1>2, <3>1 DEF Unclosed
  <2> QED
    BY <2>1, <2>2
<1> QED
  BY <1>2, <1>3, <1>4 DEF Unclosed, t

LEMMA CloseArray ==
  ASSUME NEW s \in Seq(Tokens), Unclosed(s), Len(s) = 1 \/ (Len(s) > 0 /\ Even(Len(s)))
  PROVE  WellFormed(s \o <<"]">>)
<1> DEFINE t == s \o <<"]">>
<1>1. /\ Len(t) = Len(s) + 1 /\ Len(s) \in Nat /\ Len(s) >= 1
      /\ t[Len(s) + 1] = "]" /\ \A i \in 1 .. Len(s) : t[i] = s[i]
  OBVIOUS
<1> HIDE DEF t
<1>2. Len(t) >= 2 /\ t[1] = "[" /\ t[Len(t)] = "]"
  BY <1>1 DEF Unclosed
<1>3. Len(t) = 2 \/ Len(t) % 2 = 1
  <2>1. CASE Len(s) = 1
    BY <1>1, <2>1
  <2>2. CASE Even(Len(s))
    <3>1. ~Even(Len(s) + 1) /\ Len(s) + 1 \in Nat
      BY <1>1, <2>2, Parity
    <3>2. (Len(s) + 1) % 2 = 1
      BY <3>1, OddRemainder, Zenon
    <3> QED
      BY <1>1, <3>2
  <2> QED
    BY <2>1, <2>2
<1>4. \A i \in 2 .. Len(t) - 1 : t[i] = IF Even(i) THEN "row" ELSE "comma"
  BY <1>1 DEF Unclosed
<1>5. \A i \in 2 .. Len(t) - 1 : t[i] \in IF i % 2 = 0 THEN {"row", "sum"} ELSE {"comma"}
  BY <1>4 DEF Even
<1> QED
  BY <1>2, <1>3, <1>5 DEF WellFormed, t

(* The first row of bills opens the array, every other follows a comma.    *)
LEMMA BillableRow ==
  ASSUME NEW s \in Seq(Tokens),
         s = <<>> \/ (Unclosed(s) /\ Len(s) > 0 /\ Even(Len(s))),
         NEW header, header = IF "[" \in Range(s) THEN <<>> ELSE <<"[">>,
         NEW delim, delim = IF "row" \in Range(s) THEN <<"comma">> ELSE <<>>
  PROVE  LET t == s \o header \o delim \o <<"row">>
         IN Unclosed(t) /\ Len(t) > 0 /\ Even(Len(t))
<1>0. PICK u : u = s \o header \o delim
  OBVIOUS
<1>1. u \in Seq(Tokens) /\ Unclosed(u) /\ Len(u) \in Nat /\ Len(u) > 0 /\ ~Even(Len(u))
  <2>1. CASE s = <<>>
    <3>1. header = <<"[">> /\ delim = <<>>
      BY <2>1, EmptyRange
    <3>2. u = (<<>> \o <<"[">>) \o <<>>
      BY <1>0, <2>1, <3>1
    <3>3. u = <<"[">>
      <4>1. <<>> \o <<"[">> = <<"[">>
        OBVIOUS
      <4>2. <<"[">> \o <<>> = <<"[">>
        OBVIOUS
      <4> QED
        BY <3>2, <4>1, <4>2, Zenon
    <3>4. Len(u) = 1 /\ u[1] = "[" /\ u \in Seq(Tokens)
      BY <3>3 DEF Tokens
    <3> QED
      BY <3>4, Parity DEF Unclosed
  <2>2. CASE s # <<>>
    <3>1. Unclosed(s) /\ Len(s) \in Nat /\ Len(s) > 0 /\ Even(Len(s))
      BY <2>2
    <3>2. Len(s) # 1
      BY <3>1, Parity
    <3>3. 2 \in 2 .. Len(s) /\ 1 \in 1 .. Len(s) /\ 2 \in 1 .. Len(s)
      <4>1. \A n \in Nat : n > 0 /\ n # 1 => 2 \in 2 .. n /\ 1 \in 1 .. n /\ 2 \in 1 .. n
        OBVIOUS
      <4> QED
        BY <3>1, <3>2, <4>1, Zenon
    <3>4. s[1] = "[" /\ s[2] = "row"
      BY <3>1, <3>3, Parity DEF Unclosed
    <3>5. "[" \in Range(s) /\ "row" \in Range(s)
      <4>1. DOMAIN s = 1 .. Len(s)
        OBVIOUS
      <4> QED
        BY <3>3, <3>4, <4>1 DEF Range
    <3>6. header = <<>> /\ delim = <<"comma">>
      BY <3>5
    <3>7. s \o <<>> = s
      OBVIOUS
    <3>8. u = s \o <<"comma">>
      BY <1>0, <3>6, <3>7
    <3>9. u \in Seq(Tokens) /\ Unclosed(u) /\ Len(u) = Len(s) + 1
      BY <3>1, <3>8, AddToken
    <3> QED
      BY <3>1, <3>9, Parity
  <2> QED
    BY <2>1, <2>2
<1>2. PICK t : t = u \o <<"row">>
  OBVIOUS
<1>3. Unclosed(t) /\ Len(t) = Len(u) + 1
  BY <1>1, <1>2, AddToken
<1>4. Even(Len(t)) /\ Len(t) > 0
  BY <1>1, <1>3, Parity
<1> QED
  BY <1>0, <1>2, <1>3, <1>4

LEMMA SentStays ==
  ASSUME NEW r, reply[r] \in Seq(Tokens), NEW t \in Seq(Tokens), reply'[r] = reply[r] \o t
  PROVE  /\ reply'[r] \in Seq(Tokens)
         /\ \A token : Sent(r, token) => Sent(r, token)'
         /\ \A token \in Range(t) : Sent(r, token)'
<1>1. /\ reply'[r] \in Seq(Tokens) /\ Range(reply[r]) \subseteq Range(reply'[r])
      /\ Range(t) \subseteq Range(reply'[r])
  BY RangeOfConcat
<1> QED
  BY <1>1 DEF Sent

LEMMA TokenSequences == <<>> \in Seq(Tokens) /\ \A token \in Tokens : <<token>> \in Seq(Tokens)
OBVIOUS

LEMMA OKHeaderIsTokens ==
  ASSUME NEW r
  PROVE  OKHeader(r) \in Seq(Tokens)
<1>1. "[" \in Tokens
  BY DEF Tokens
<1>2. OKHeader(r) = <<>> \/ OKHeader(r) = <<"[">>
  BY DEF OKHeader
<1> QED
  BY <1>1, <1>2, TokenSequences

(* Within a result set, only the reply, the cursor and the tasks move.     *)
LEMMA WithinRows ==
  ASSUME IInv, NEW r \in Requests, TypeOK', StepOf(r),
         pc[r] = "rows", pc'[r] = "rows", ReplyInv(r)',
         UNCHANGED <<months, charged, billed, bill>>
  PROVE  IInv'
<1>1. RequestInv(r)
  BY DEF IInv
<1>2. AtRest(r)' /\ OwnHandler(r)' /\ ForecastInv(r)'
  BY <1>1 DEF RequestInv, AtRest, OwnHandler, ForecastInv
<1>3. BilledInv(r)'
  BY <1>1 DEF RequestInv, BilledInv
<1>4. FilterInv(r)'
  BY <1>1 DEF RequestInv, FilterInv, Complete, Answered, AskedFilters
<1>5. RequestInv(r)'
  BY <1>2, <1>3, <1>4 DEF RequestInv
<1> QED
  BY <1>5, HandlerStep

LEMMA SendBillableEventStep ==
  ASSUME IInv, NEW r \in Requests, SendBillableEvent(r)
  PROVE  IInv'
<1>1. TypeOK /\ RequestInv(r)
  BY DEF IInv
<1>2. PICK e : e = Min(cursor[r])
  OBVIOUS
<1>3. PICK delim : delim = IF Sent(r, "row") THEN <<"comma">> ELSE <<>>
  OBVIOUS
<1>4. PICK tokens : tokens = OKHeader(r) \o delim \o <<"row">>
  OBVIOUS
<1>5. /\ pc[r] = "rows" /\ Endpoint[r] = "billable" /\ cursor[r] # {}
      /\ Fetch(r, cursor[r] \ {e})
      /\ UNCHANGED <<raw, table, refresh, bill, pc, months, charged, open, inserted, billed>>
      /\ \/ e \in Tasks /\ tasks' = [tasks EXCEPT ![r] = @ \cup {e}] /\ reply' = reply
         \/ /\ reply' = [reply EXCEPT ![r] = @ \o OKHeader(r) \o delim \o <<"row">>]
            /\ tasks' = tasks
  BY <1>2, <1>3 DEF SendBillableEvent, database
<1>6. reply[r] \in Seq(Tokens) /\ cursor[r] \in SUBSET Events
  BY <1>1 DEF TypeOK
<1>7. /\ cursor' \in [Requests -> SUBSET Events] /\ broken' \in [Requests -> BOOLEAN]
      /\ failures' \in 0 .. MaxFailures
      /\ \A q \in Requests \ {r} : cursor'[q] = cursor[q] /\ broken'[q] = broken[q]
  <2>1. cursor[r] \ {e} \in SUBSET Events
    BY <1>6
  <2> QED
    BY <1>1, <1>5, <2>1, FetchFacts
<1>8. tokens \in Seq(Tokens) /\ reply[r] \o OKHeader(r) \o delim \o <<"row">> = reply[r] \o tokens
  <2>1. PICK header : header = OKHeader(r)
    OBVIOUS
  <2>2. header \in Seq(Tokens)
    BY <2>1, OKHeaderIsTokens
  <2>3. PICK row : row = <<"row">>
    OBVIOUS
  <2>4. row \in Seq(Tokens) /\ delim \in Seq(Tokens)
    <3>1. "row" \in Tokens /\ "comma" \in Tokens
      BY DEF Tokens
    <3>2. delim = <<>> \/ delim = <<"comma">>
      BY <1>3
    <3> QED
      BY <2>3, <3>1, <3>2, TokenSequences
  <2>5. header \o delim \o row \in Seq(Tokens)
        /\ reply[r] \o header \o delim \o row = reply[r] \o (header \o delim \o row)
    <3>1. PICK old : old = reply[r]
      OBVIOUS
    <3>2. old \in Seq(Tokens)
      BY <1>6, <3>1
    <3>3. header \o delim \in Seq(Tokens) /\ (old \o header) \o delim = old \o (header \o delim)
      BY <2>2, <2>4, <3>2
    <3>4. PICK start : start = header \o delim
      OBVIOUS
    <3>5. start \in Seq(Tokens)
      BY <3>3, <3>4
    <3>6. start \o row \in Seq(Tokens) /\ (old \o start) \o row = old \o (start \o row)
      BY <2>4, <3>2, <3>5
    <3> QED
      BY <3>1, <3>3, <3>4, <3>6, Zenon
  <2> QED
    BY <1>4, <2>1, <2>3, <2>5
<1>9. reply'[r] = reply[r] \/ reply'[r] = reply[r] \o tokens
  BY <1>1, <1>5, <1>8 DEF TypeOK
<1>10. TypeOK'
  <2>1. reply' \in [Requests -> Seq(Tokens)]
    BY <1>1, <1>5, <1>6, <1>8, SentStays DEF TypeOK
  <2>2. tasks' \in [Requests -> SUBSET Tasks]
    <3>1. tasks \in [Requests -> SUBSET Tasks]
      BY <1>1 DEF TypeOK
    <3>2. CASE e \in Tasks /\ tasks' = [tasks EXCEPT ![r] = @ \cup {e}]
      BY <3>1, <3>2
    <3>3. CASE tasks' = tasks
      BY <3>1, <3>3
    <3> QED
      BY <1>5, <3>2, <3>3
  <2> QED
    BY <1>1, <1>5, <1>7, <2>1, <2>2 DEF TypeOK
<1>11. StepOf(r)
  BY <1>1, <1>5, <1>7 DEF TypeOK, database, StepOf, Untouched
<1>12. pc'[r] = "rows"
  BY <1>5
<1>13. ReplyInv(r)'
  <2>1. ~Complete(r)'
    BY <1>12 DEF Complete
  <2>2. CASE reply'[r] = reply[r]
    BY <1>1, <1>5, <1>12, <2>1, <2>2 DEF RequestInv, ReplyInv, Sent
  <2>3. CASE reply'[r] = reply[r] \o tokens /\ Sent(r, "sum")
    <3>1. Sent(r, "sum")'
      BY <1>6, <1>8, <2>3, SentStays
    <3> QED
      BY <1>5, <2>1, <3>1 DEF ReplyInv
  <2>4. CASE reply'[r] = reply[r] \o tokens /\ ~Sent(r, "sum")
    <3>1. reply[r] = <<>> \/ (Unclosed(reply[r]) /\ Len(reply[r]) > 0 /\ Even(Len(reply[r])))
      BY <1>1, <1>5, <2>4 DEF RequestInv, ReplyInv
    <3>2. reply'[r] = reply[r] \o OKHeader(r) \o delim \o <<"row">>
      BY <1>8, <2>4
    <3>3. /\ OKHeader(r) = IF "[" \in Range(reply[r]) THEN <<>> ELSE <<"[">>
          /\ delim = IF "row" \in Range(reply[r]) THEN <<"comma">> ELSE <<>>
      BY <1>3 DEF OKHeader, Sent
    <3>4. Unclosed(reply'[r]) /\ Len(reply'[r]) > 0 /\ Even(Len(reply'[r]))
      BY <1>6, <3>1, <3>2, <3>3, BillableRow
    <3> QED
      BY <1>5, <2>1, <3>4 DEF ReplyInv
  <2> QED
    BY <1>9, <2>2, <2>3, <2>4
<1> QED
  BY <1>5, <1>10, <1>11, <1>12, <1>13, WithinRows

LEMMA SendEventStep ==
  ASSUME IInv, NEW r \in Requests, SendEvent(r)
  PROVE  IInv'
<1>1. TypeOK /\ RequestInv(r)
  BY DEF IInv
<1>2. PICK tokens : tokens = IF cursor'[r] = {} THEN <<"row">> ELSE <<"row", "comma">>
  OBVIOUS
<1>3. /\ pc[r] = "rows" /\ Endpoint[r] # "billable" /\ cursor[r] # {}
      /\ Fetch(r, cursor[r] \ {Min(cursor[r])})
      /\ reply' = [reply EXCEPT ![r] = @ \o tokens]
      /\ UNCHANGED <<raw, table, refresh, bill, pc, months, tasks, charged, open, inserted, billed>>
  BY <1>2 DEF SendEvent, database
<1>4. reply[r] \in Seq(Tokens) /\ cursor[r] \in SUBSET Events /\ reply'[r] = reply[r] \o tokens
  BY <1>1, <1>3 DEF TypeOK
<1>5. /\ cursor' \in [Requests -> SUBSET Events] /\ broken' \in [Requests -> BOOLEAN]
      /\ failures' \in 0 .. MaxFailures
      /\ \A q \in Requests \ {r} : cursor'[q] = cursor[q] /\ broken'[q] = broken[q]
  <2>1. cursor[r] \ {Min(cursor[r])} \in SUBSET Events
    BY <1>4
  <2> QED
    BY <1>1, <1>3, <2>1, FetchFacts
<1>6. tokens \in Seq(Tokens)
  <2>1. <<"row">> \in Seq(Tokens) /\ <<"row", "comma">> \in Seq(Tokens)
    BY DEF Tokens
  <2> QED
    BY <1>2, <2>1
<1>7. TypeOK'
  <2>1. reply' \in [Requests -> Seq(Tokens)]
    BY <1>1, <1>3, <1>4, <1>6, SentStays DEF TypeOK
  <2> QED
    BY <1>1, <1>3, <1>5, <2>1 DEF TypeOK
<1>8. StepOf(r)
  BY <1>1, <1>3, <1>5 DEF TypeOK, database, StepOf, Untouched
<1>9. ReplyInv(r)'
  <2>1. ~Complete(r)' /\ pc'[r] = "rows"
    BY <1>3 DEF Complete
  <2>2. /\ Unclosed(reply[r]) /\ Len(reply[r]) > 0 /\ Len(reply[r]) \in Nat
        /\ ~Even(Len(reply[r]))
    BY <1>1, <1>3, <1>4 DEF RequestInv, ReplyInv
  <2>3. PICK s : s = reply[r] \o <<"row">>
    OBVIOUS
  <2>4. s \in Seq(Tokens) /\ Unclosed(s) /\ Len(s) = Len(reply[r]) + 1
    BY <1>4, <2>2, <2>3, AddToken
  <2>5. Even(Len(s)) /\ Len(s) > 1 /\ Len(s) > 0 /\ Len(s) \in Nat
    <3>1. Len(s) > 1 /\ Len(s) > 0 /\ Len(s) \in Nat
      BY <2>2, <2>4
    <3>2. Even(Len(s))
      BY <2>2, <2>4, Parity
    <3> QED
      BY <3>1, <3>2
  <2>6. CASE cursor'[r] = {}
    <3>1. reply'[r] = s
      BY <1>2, <1>4, <2>3, <2>6
    <3> QED
      BY <1>3, <2>1, <2>4, <2>5, <2>6, <3>1, Zenon DEF ReplyInv
  <2>7. CASE cursor'[r] # {}
    <3>1. PICK t : t = s \o <<"comma">>
      OBVIOUS
    <3>2. t \in Seq(Tokens) /\ Unclosed(t) /\ Len(t) = Len(s) + 1
      BY <2>4, <2>5, <3>1, AddToken
    <3>3. ~Even(Len(t)) /\ Len(t) > 0
      BY <2>5, <3>2, Parity
    <3>4. reply'[r] = t
      <4>1. \A q \in Seq(Tokens) : q \o <<"row", "comma">> = (q \o <<"row">>) \o <<"comma">>
        OBVIOUS
      <4> QED
        BY <1>2, <1>4, <2>3, <2>7, <3>1, <4>1
    <3> QED
      BY <1>3, <2>1, <2>7, <3>2, <3>3, <3>4, Zenon DEF ReplyInv
  <2> QED
    BY <2>6, <2>7
<1> QED
  BY <1>3, <1>7, <1>8, <1>9, WithinRows


(* The sums of n tasks, each after a separator.                            *)
LEMMA SumsOfTasks ==
  ASSUME NEW n \in Nat
  PROVE  LET sums == [i \in 1 .. 2 * n |-> IF i % 2 = 1 THEN "comma" ELSE "sum"]
         IN sums \in Seq(Tokens) /\ (sums = <<>> \/ "sum" \in Range(sums))
<1> DEFINE sums == [i \in 1 .. 2 * n |-> IF i % 2 = 1 THEN "comma" ELSE "sum"]
<1>1. "comma" \in Tokens /\ "sum" \in Tokens
  BY DEF Tokens
<1>2. 2 * n \in Nat
  OBVIOUS
<1>3. sums \in [1 .. 2 * n -> Tokens]
  BY <1>1
<1>4. sums \in Seq(Tokens) /\ Len(sums) = 2 * n
  <2>1. sums \in Seq(Tokens)
    BY <1>2, <1>3, SeqDef, Zenon
  <2>2. DOMAIN sums = 1 .. 2 * n
    BY Zenon
  <2> HIDE DEF sums
  <2> QED
    BY <1>2, <2>1, <2>2
<1>5. CASE n = 0
  <2>1. Len(sums) = 0
    BY <1>4, <1>5
  <2> HIDE DEF sums
  <2>2. sums = <<>>
    BY <1>4, <2>1
  <2> QED
    BY <1>4, <2>2 DEF sums
<1>6. CASE n # 0
  <2>1. 2 \in 1 .. 2 * n
    BY <1>6
  <2>2. sums[2] = IF 2 % 2 = 1 THEN "comma" ELSE "sum"
    BY <2>1
  <2>3. 2 % 2 # 1
    OBVIOUS
  <2>4. sums[2] = "sum"
    BY <2>2, <2>3
  <2>5. "sum" \in Range(sums)
    BY <2>1, <2>4 DEF Range
  <2> QED
    BY <1>4, <2>5
<1> QED
  BY <1>5, <1>6

LEMMA SendTaskTotalsStep ==
  ASSUME IInv, NEW r \in Requests, SendTaskTotals(r)
  PROVE  IInv'
<1>1. TypeOK /\ RequestInv(r)
  BY DEF IInv
<1>2. PICK n : n = Cardinality({OrgOf[e] : e \in tasks[r]})
  OBVIOUS
<1>3. n \in Nat
  <2>1. tasks[r] \subseteq Events
    BY <1>1, EventsAssumption DEF TypeOK
  <2>2. IsFiniteSet(tasks[r])
    BY <2>1, EventsAssumption, FS_Subset
  <2>3. IsFiniteSet({OrgOf[e] : e \in tasks[r]})
    <3>1. PICK org : org = [e \in tasks[r] |-> OrgOf[e]]
      OBVIOUS
    <3>2. PICK orgs : orgs = {OrgOf[e] : e \in tasks[r]}
      OBVIOUS
    <3>3. org \in Surjection(tasks[r], orgs)
      BY <3>1, <3>2 DEF Surjection
    <3> QED
      BY <2>2, <3>2, <3>3, FS_Surjection, Zenon
  <2> QED
    BY <1>2, <2>3, FS_CardinalityType
<1>4. PICK sums : sums = [i \in 1 .. 2 * n |-> IF i % 2 = 1 THEN "comma" ELSE "sum"]
  OBVIOUS
<1>5. sums \in Seq(Tokens) /\ (sums = <<>> \/ "sum" \in Range(sums))
  BY <1>3, <1>4, SumsOfTasks, Zenon
<1>6. /\ pc[r] = "rows" /\ Endpoint[r] = "billable" /\ cursor[r] = {}
      /\ reply' = [reply EXCEPT ![r] = @ \o sums]
      /\ tasks' = [tasks EXCEPT ![r] = {}]
      /\ months' = [months EXCEPT ![r] = Tail(@)]
      /\ pc' = [pc EXCEPT ![r] = "next"]
      /\ UNCHANGED <<raw, table, refresh, bill, failures, cursor, broken, charged, open,
                     inserted, billed>>
  BY <1>2, <1>4, Zenon DEF SendTaskTotals, database
<1>7. /\ reply[r] \in Seq(Tokens) /\ months[r] \in Seq(EventFilter) /\ months[r] # <<>>
      /\ Filter(r) \in Answered(r)
  BY <1>1, <1>6 DEF TypeOK, RequestInv, FilterInv, Filter
<1>8. Tail(months[r]) \in Seq(EventFilter) /\ Range(months[r]) = {Filter(r)} \cup Range(Tail(months[r]))
  BY <1>7, RangeOfHeadAndTail DEF Filter
<1>9. /\ pc'[r] = "next" /\ reply'[r] = reply[r] \o sums
      /\ months'[r] = Tail(months[r]) /\ tasks'[r] = {}
  BY <1>1, <1>6 DEF TypeOK
<1>10. TypeOK'
  <2>1. reply' \in [Requests -> Seq(Tokens)]
    BY <1>1, <1>5, <1>6, <1>7, <1>9, SentStays DEF TypeOK
  <2>2. tasks' \in [Requests -> SUBSET Tasks]
    BY <1>1, <1>6 DEF TypeOK
  <2>3. months' \in [Requests -> Seq(EventFilter)]
    BY <1>1, <1>6, <1>8 DEF TypeOK
  <2>4. pc' \in [Requests -> {"absent", "new", "next", "bill", "live", "insert", "price", "rows", "done"}]
    BY <1>1, <1>6 DEF TypeOK
  <2> QED
    BY <1>1, <1>6, <2>1, <2>2, <2>3, <2>4 DEF TypeOK
<1>11. StepOf(r)
  BY <1>1, <1>6 DEF TypeOK, database, StepOf, Untouched
<1>12. AtRest(r)' /\ OwnHandler(r)'
  BY <1>9 DEF AtRest, OwnHandler
<1>13. ForecastInv(r)' /\ BilledInv(r)'
  BY <1>1, <1>6, <1>9 DEF RequestInv, ForecastInv, BilledInv
<1>14. ~Complete(r)'
  BY <1>9 DEF Complete
<1>15. FilterInv(r)'
  <2>1. AskedFilters(r) = Answered(r) \cup Range(months[r])
    BY <1>1, <1>6 DEF RequestInv, FilterInv
  <2>2. AskedFilters(r)' = AskedFilters(r) /\ Answered(r)' = Answered(r)
    BY <1>6 DEF AskedFilters, Answered
  <2>3. AskedFilters(r)' = Answered(r)' \cup Range(months'[r])
    BY <1>7, <1>8, <1>9, <2>1, <2>2
  <2> QED
    BY <1>9, <1>14, <2>3 DEF FilterInv
<1>16. ReplyInv(r)'
  <2>1. CASE sums = <<>>
    <3>1. reply'[r] = reply[r]
      BY <1>7, <1>9, <2>1
    <3> QED
      BY <1>1, <1>6, <1>9, <1>14, <3>1 DEF RequestInv, ReplyInv, Sent
  <2>2. CASE "sum" \in Range(sums)
    <3>1. Sent(r, "sum")'
      BY <1>5, <1>7, <1>9, <2>2, SentStays
    <3> QED
      BY <1>6, <1>14, <3>1 DEF ReplyInv
  <2> QED
    BY <1>5, <2>1, <2>2
<1>17. RequestInv(r)'
  BY <1>12, <1>13, <1>15, <1>16 DEF RequestInv
<1> QED
  BY <1>10, <1>11, <1>17, HandlerStep

(* The end of a handler: its reply, if it is one without an error, answers *)
(* what was asked for and is whole.                                        *)
LEMMA EndStep ==
  ASSUME IInv, NEW r \in Requests, NEW tokens \in Seq(Tokens), End(r, tokens),
         UNCHANGED <<database, broken, charged, billed>>,
         failures' \in 0 .. MaxFailures,
         Complete(r)' => /\ AskedFilters(r) = Answered(r)
                         /\ ~Sent(r, "sum")' => WellFormed(reply[r] \o tokens)
                         /\ Endpoint[r] # "billable" => ~broken[r]
  PROVE  IInv'
<1>1. TypeOK /\ RequestInv(r)
  BY DEF IInv
<1>2. /\ pc' = [pc EXCEPT ![r] = "done"]
      /\ reply' = [reply EXCEPT ![r] = @ \o tokens]
      /\ cursor' = [cursor EXCEPT ![r] = {}]
      /\ tasks' = [tasks EXCEPT ![r] = {}]
      /\ months' = [months EXCEPT ![r] = <<>>]
      /\ open' = [open EXCEPT ![r] = {}]
      /\ inserted' = [inserted EXCEPT ![r] = {}]
      /\ UNCHANGED <<raw, table, refresh, bill, broken, charged, billed>>
  BY DEF End, database
<1>3. /\ pc'[r] = "done" /\ reply'[r] = reply[r] \o tokens /\ reply[r] \in Seq(Tokens)
      /\ tasks'[r] = {} /\ months'[r] = <<>> /\ inserted'[r] = {}
  BY <1>1, <1>2 DEF TypeOK
<1>4. TypeOK'
  <2>1. reply' \in [Requests -> Seq(Tokens)]
    BY <1>1, <1>2, <1>3, SentStays DEF TypeOK
  <2>2. months' \in [Requests -> Seq(EventFilter)]
    BY <1>1, <1>2 DEF TypeOK
  <2>3. pc' \in [Requests -> {"absent", "new", "next", "bill", "live", "insert", "price", "rows", "done"}]
    BY <1>1, <1>2 DEF TypeOK
  <2> QED
    BY <1>1, <1>2, <2>1, <2>2, <2>3 DEF TypeOK
<1>5. StepOf(r)
  BY <1>1, <1>2 DEF TypeOK, database, StepOf, Untouched
<1>6. AtRest(r)' /\ OwnHandler(r)'
  BY <1>3 DEF AtRest, OwnHandler
<1>7. ForecastInv(r)' /\ BilledInv(r)'
  BY <1>1, <1>2, <1>3 DEF RequestInv, ForecastInv, BilledInv
<1>8. FilterInv(r)'
  <2>1. AskedFilters(r)' = AskedFilters(r) /\ Answered(r)' = Answered(r)
    BY <1>2 DEF AskedFilters, Answered
  <2> QED
    BY <1>3, <2>1 DEF FilterInv
<1>9. ReplyInv(r)'
  BY <1>2, <1>3, Zenon DEF ReplyInv
<1>10. RequestInv(r)'
  BY <1>6, <1>7, <1>8, <1>9 DEF RequestInv
<1> QED
  BY <1>4, <1>5, <1>10, HandlerStep


LEMMA FinishBillableStep ==
  ASSUME IInv, NEW r \in Requests, FinishBillable(r)
  PROVE  IInv'
<1>1. TypeOK /\ RequestInv(r)
  BY DEF IInv
<1>2. /\ pc[r] = "next" /\ months[r] = <<>> /\ Endpoint[r] = "billable"
      /\ UNCHANGED <<database, failures, broken, charged, billed>>
  BY DEF FinishBillable
<1>3. PICK tokens : tokens = OKHeader(r) \o <<"]">>
  OBVIOUS
<1>4. End(r, tokens)
  BY <1>3 DEF FinishBillable
<1>5. reply[r] \in Seq(Tokens) /\ <<"]">> \in Seq(Tokens)
  BY <1>1 DEF TypeOK, Tokens
<1>6. tokens \in Seq(Tokens)
  BY <1>3, <1>5, OKHeaderIsTokens, RangeOfConcat
<1>7. failures' \in 0 .. MaxFailures
  BY <1>1, <1>2 DEF TypeOK
<1>8. AskedFilters(r) = Answered(r)
  BY <1>1, <1>2, EmptyRange DEF RequestInv, FilterInv
<1>9. reply'[r] = reply[r] \o tokens
  BY <1>1, <1>4 DEF TypeOK, End
<1>10. ASSUME ~Sent(r, "sum")' PROVE WellFormed(reply[r] \o tokens)
  <2>1. ~Sent(r, "sum")
    BY <1>5, <1>6, <1>9, <1>10, SentStays
  <2>2. CASE reply[r] = <<>>
    <3>1. PICK s : s = <<"[">>
      OBVIOUS
    <3>2. Len(s) = 1 /\ s[1] = "[" /\ s \in Seq(Tokens)
      BY <3>1 DEF Tokens
    <3>3. Unclosed(s)
      BY <3>2 DEF Unclosed
    <3>4. tokens = s \o <<"]">>
      BY <1>3, <2>2, <3>1, EmptyReply DEF OKHeader
    <3>5. reply[r] \o tokens = tokens
      BY <1>6, <2>2
    <3> QED
      BY <3>2, <3>3, <3>4, <3>5, CloseArray
  <2>3. CASE reply[r] # <<>>
    <3>1. Unclosed(reply[r]) /\ Len(reply[r]) > 0 /\ Even(Len(reply[r]))
      BY <1>1, <1>2, <2>1, <2>3 DEF RequestInv, ReplyInv
    <3>2. reply[r][1] = "[" /\ 1 \in DOMAIN reply[r]
      BY <1>5, <3>1 DEF Unclosed
    <3>3. OKHeader(r) = <<>>
      BY <3>2 DEF OKHeader, Sent, Range
    <3>4. tokens = <<"]">>
      BY <1>3, <3>3
    <3> QED
      BY <1>5, <3>1, <3>4, CloseArray
  <2> QED
    BY <2>2, <2>3
<1> QED
  BY <1>2, <1>4, <1>6, <1>7, <1>8, <1>10, EndStep

LEMMA FinishEventsStep ==
  ASSUME IInv, NEW r \in Requests, FinishEvents(r)
  PROVE  IInv'
<1>1. TypeOK /\ RequestInv(r)
  BY DEF IInv
<1>2. /\ pc[r] = "rows" /\ Endpoint[r] # "billable" /\ cursor[r] = {}
      /\ UNCHANGED <<database, failures, broken, charged, billed>>
  BY DEF FinishEvents
<1>3. PICK tokens : tokens = <<"]">> \o RowsErr(r)
  OBVIOUS
<1>4. End(r, tokens)
  BY <1>3 DEF FinishEvents
<1>5. reply[r] \in Seq(Tokens)
  BY <1>1 DEF TypeOK
<1>6. tokens \in Seq(Tokens) /\ (broken[r] => "error" \in Range(tokens))
  <2>1. "]" \in Tokens /\ "error" \in Tokens
    BY DEF Tokens
  <2>2. <<"]">> \in Seq(Tokens) /\ <<"error">> \in Seq(Tokens) /\ <<>> \in Seq(Tokens)
    BY <2>1, TokenSequences
  <2>3. RowsErr(r) \in Seq(Tokens)
    BY <2>2 DEF RowsErr
  <2>4. tokens \in Seq(Tokens) /\ Range(RowsErr(r)) \subseteq Range(tokens)
    BY <1>3, <2>2, <2>3, RangeOfConcat
  <2>5. "error" \in Range(<<"error">>)
    BY DEF Range
  <2> QED
    BY <2>4, <2>5 DEF RowsErr
<1>7. failures' \in 0 .. MaxFailures
  BY <1>1, <1>2 DEF TypeOK
<1>8. AskedFilters(r) = Answered(r)
  <2>1. /\ AskedFilters(r) = Answered(r) \cup Range(months[r])
        /\ Filter(r) \in Answered(r) /\ months[r] # <<>>
    BY <1>1, <1>2 DEF RequestInv, FilterInv, Filter
  <2>2. PICK f : AskedFilters(r) = {f}
    BY <1>2 DEF AskedFilters
  <2> QED
    BY <2>1, <2>2
<1>9. reply'[r] = reply[r] \o tokens
  BY <1>1, <1>4 DEF TypeOK, End
<1>10. ASSUME Complete(r)' PROVE ~broken[r]
  <2>1. ~Sent(r, "error")'
    BY <1>10 DEF Complete
  <2> QED
    BY <1>5, <1>6, <1>9, <2>1, SentStays
<1>11. ASSUME ~broken[r] PROVE WellFormed(reply[r] \o tokens)
  <2>1. tokens = <<"]">>
    <3>1. RowsErr(r) = <<>>
      BY <1>11 DEF RowsErr
    <3> QED
      BY <1>3, <3>1
  <2>2. /\ Unclosed(reply[r]) /\ Len(reply[r]) > 0
        /\ Even(Len(reply[r])) \/ ~(Len(reply[r]) > 1)
    BY <1>1, <1>2, Zenon DEF RequestInv, ReplyInv
  <2>3. Len(reply[r]) = 1 \/ (Len(reply[r]) > 0 /\ Even(Len(reply[r])))
    <3>1. Len(reply[r]) \in Nat
      BY <1>5
    <3>2. \A n \in Nat : n > 0 /\ ~(n > 1) => n = 1
      OBVIOUS
    <3>3. CASE Even(Len(reply[r]))
      BY <2>2, <3>3, Zenon
    <3>4. CASE ~(Len(reply[r]) > 1)
      BY <2>2, <3>1, <3>2, <3>4, Zenon
    <3> QED
      BY <2>2, <3>3, <3>4, Zenon
  <2> QED
    BY <1>5, <2>1, <2>2, <2>3, CloseArray
<1> QED
  BY <1>2, <1>4, <1>6, <1>7, <1>8, <1>10, <1>11, EndStep

LEMMA FailStep ==
  ASSUME IInv, NEW r \in Requests, Fail(r)
  PROVE  IInv'
<1>1. TypeOK
  BY DEF IInv
<1>2. PICK tokens : tokens = <<"error">>
  OBVIOUS
<1>3. End(r, tokens) /\ UNCHANGED <<database, broken, charged, billed>>
  BY <1>2 DEF Fail
<1>4. tokens \in Seq(Tokens) /\ "error" \in Range(tokens)
  BY <1>2 DEF Tokens, Range
<1>5. failures' \in 0 .. MaxFailures
  BY <1>1, BoundsAssumption DEF TypeOK, Fail
<1>6. reply'[r] = reply[r] \o tokens /\ reply[r] \in Seq(Tokens)
  BY <1>1, <1>3 DEF TypeOK, End
<1>7. ~Complete(r)'
  BY <1>4, <1>6, SentStays DEF Complete
<1> QED
  BY <1>3, <1>4, <1>5, <1>7, EndStep

------------------------------------------------------------------------------
(* The invariant holds.                                                    *)

LEMMA InitInvariant == Init => IInv
<1> SUFFICES ASSUME Init PROVE IInv
  OBVIOUS
<1>1. TypeOK
  <2>1. \E clients \in Together :
          pc = [r \in Requests |-> IF r \in clients THEN "new" ELSE "absent"]
    BY DEF Init
  <2>2. pc \in [Requests -> {"absent", "new", "next", "bill", "live", "insert", "price", "rows", "done"}]
    BY <2>1
  <2>3. <<>> \in Seq(EventFilter) /\ <<>> \in Seq(Tokens) /\ <<>> \in Seq(SUBSET Events)
    OBVIOUS
  <2>4. bill \in Seq(SUBSET Events) /\ DOMAIN bill \subseteq Months
    BY <2>3 DEF Init
  <2>5. months \in [Requests -> Seq(EventFilter)] /\ reply \in [Requests -> Seq(Tokens)]
    BY <2>3 DEF Init
  <2> QED
    BY <2>2, <2>4, <2>5, BoundsAssumption DEF Init, TypeOK, Tables
<1>2. NothingSimulated
  BY DEF Init, NothingSimulated
<1>3. ASSUME NEW r \in Requests PROVE RequestInv(r)
  <2>1. /\ pc[r] \in {"absent", "new"} /\ months[r] = <<>> /\ inserted[r] = {} /\ tasks[r] = {}
        /\ reply[r] = <<>> /\ charged[r] = {} /\ billed[r] = {}
    BY <1>3 DEF Init
  <2>2. ~Complete(r)
    BY <2>1 DEF Complete
  <2>3. AtRest(r) /\ OwnHandler(r)
    BY <2>1 DEF AtRest, OwnHandler
  <2>4. BilledInv(r) /\ ForecastInv(r)
    BY <2>1 DEF BilledInv, ForecastInv
  <2>5. FilterInv(r) /\ ReplyInv(r)
    BY <2>1, <2>2 DEF FilterInv, ReplyInv
  <2> QED
    BY <2>3, <2>4, <2>5 DEF RequestInv
<1> QED
  BY <1>1, <1>2, <1>3 DEF IInv

LEMMA StutterInvariant ==
  ASSUME IInv, UNCHANGED vars
  PROVE  IInv'
<1>1. UNCHANGED request /\ BillsKept
  BY DEF vars, BillsKept
<1>2. TypeOK'
  BY DEF IInv, TypeOK, vars, request
<1>3. NothingSimulated'
  BY DEF IInv, NothingSimulated, vars
<1> QED
  BY <1>1, <1>2, <1>3, DatabaseStep

LEMMA NextInvariant == IInv /\ [Next]_vars => IInv'
<1> SUFFICES ASSUME IInv, [Next]_vars PROVE IInv'
  OBVIOUS
<1>1. CASE UNCHANGED vars
  BY <1>1, StutterInvariant
<1>2. CASE \E e \in Events : Arrive(e)
  BY <1>2, ArriveStep
<1>3. CASE BeginRefresh \/ SwapEvents \/ SwapComponents \/ RefreshTimeout
  BY <1>3, RefreshStep
<1>4. CASE \E m \in Months : Consolidate(m)
  BY <1>4, ConsolidateStep
<1>5. ASSUME NEW r \in Requests, Refuse(r) \/ Handle(r) \/ Fail(r) \/ AskAgain(r)
      PROVE  IInv'
  <2>1. CASE Refuse(r)
    BY <2>1, RefuseStep
  <2>2. CASE Fail(r)
    BY <2>2, FailStep
  <2>3. CASE AskAgain(r)
    BY <2>3, AskAgainStep
  <2>4. CASE Accept(r) \/ IsRangeConsolidated(r) \/ ReadEvents(r)
    BY <2>4, AcceptStep, IsRangeConsolidatedStep, ReadEventsStep
  <2>5. CASE \/ GetConsolidatedBillableEventRows(r) \/ GetBillableEventRows(r)
             \/ GetUsageEventRows(r)
    BY <2>5, GetConsolidatedBillableEventRowsStep, GetBillableEventRowsStep,
       GetUsageEventRowsStep
  <2>6. CASE ForecastInsert(r) \/ ForecastBillableEventRows(r)
    BY <2>6, ForecastInsertStep, ForecastBillableEventRowsStep
  <2>7. CASE SendBillableEvent(r) \/ SendTaskTotals(r) \/ FinishBillable(r)
    BY <2>7, SendBillableEventStep, SendTaskTotalsStep, FinishBillableStep
  <2>8. CASE SendEvent(r) \/ FinishEvents(r)
    BY <2>8, SendEventStep, FinishEventsStep
  <2> QED
    BY <1>5, <2>1, <2>2, <2>3, <2>4, <2>5, <2>6, <2>7, <2>8 DEF Handle
<1> QED
  BY <1>1, <1>2, <1>3, <1>4, <1>5 DEF Next

(* Every state of every behaviour satisfies the invariant.                 *)
THEOREM Invariance == Spec => []IInv
<1>1. Init => IInv
  BY InitInvariant
<1>2. IInv /\ [Next]_vars => IInv'
  BY NextInvariant
<1> QED
  BY <1>1, <1>2, PTL DEF Spec

(* The variables keep their types.                                         *)
THEOREM TypeCorrect == Spec => []TypeOK
<1>1. IInv => TypeOK
  BY DEF IInv
<1> QED
  BY <1>1, Invariance, PTL

(* Whatever the calendar and the range, each day of it is answered by one  *)
(* filter and no other day by any.                                         *)
THEOREM NoDayTwice == Spec => []DaysAnsweredOnce
<1>1. IInv => DaysAnsweredOnce
  <2> SUFFICES ASSUME IInv, NEW r \in Requests, Complete(r), NEW day \in Days
               PROVE  Quantify({a.filter : a \in charged[r]},
                               LAMBDA f : f.start =< day /\ day < f.stop)
                        = IF AskedRange[r][1] =< day /\ day < AskedRange[r][2] THEN 1 ELSE 0
    BY DEF DaysAnsweredOnce
  <2>1. {a.filter : a \in charged[r]} = AskedFilters(r)
    BY DEF IInv, RequestInv, FilterInv, Answered
  <2>2. Quantify(AskedFilters(r), LAMBDA f : f.start =< day /\ day < f.stop)
          = Cardinality({f \in AskedFilters(r) : f.start =< day /\ day < f.stop})
    BY DEF Quantify
  <2> QED
    BY <2>1, <2>2, DaysCounted
<1> QED
  BY <1>1, Invariance, PTL

(* A month consolidated before the request came is answered from its bill. *)
THEOREM BillsRepeated == Spec => []BilledMonthsRepeated
<1>1. IInv => BilledMonthsRepeated
  <2> SUFFICES ASSUME IInv, NEW r \in Requests, Complete(r), Endpoint[r] = "billable",
                      EveryMonthHas(AskedRange[r][1]), NEW m \in billed[r],
                      AskedRange[r][1] =< Month(m).start, Month(m).stop =< AskedRange[r][2]
               PROVE  [filter |-> Month(m), rows |-> AskedFor(r, bill[m])] \in charged[r]
    BY DEF BilledMonthsRepeated
  <2>1. m \in Months /\ charged[r] \subseteq Answer
    BY DEF IInv, TypeOK
  <2>2. Month(m) \in AskedFilters(r)
    BY <2>1, BillsAreSplit DEF SplitsRight, AskedFilters
  <2>3. AskedFilters(r) = Answered(r)
    BY DEF IInv, RequestInv, FilterInv
  <2>4. PICK a \in charged[r] : a.filter = Month(m)
    BY <2>2, <2>3 DEF Answered
  <2>5. a.rows = AskedFor(r, bill[m])
    BY <2>4 DEF IInv, RequestInv, BilledInv
  <2>6. a = [filter |-> Month(m), rows |-> AskedFor(r, bill[m])]
    BY <2>1, <2>4, <2>5 DEF Answer
  <2> QED
    BY <2>6
<1> QED
  BY <1>1, Invariance, PTL

(* No other request, table or bill ever has an event of a forecast.        *)
THEOREM NothingOfForecasts == Spec => []ForecastsLeaveNothing
<1>1. IInv => ForecastsLeaveNothing
  BY DEF IInv, NothingSimulated, RequestInv, ForecastInv, ForecastsLeaveNothing
<1> QED
  BY <1>1, Invariance, PTL

------------------------------------------------------------------------------
(* How many rows a reply of usage or of a forecast has, beside the         *)
(* invariant.                                                              *)

(* The tokens sent of an array of these rows while the cursor is in them.  *)
RowsSent(r, rows) ==
  /\ cursor[r] \subseteq rows
  /\ ~broken[r] =>
       Len(reply[r]) = IF cursor[r] = {} /\ rows # {} THEN 2 * Cardinality(rows)
                       ELSE 1 + 2 * (Cardinality(rows) - Cardinality(cursor[r]))

CountInv(r) ==
  Endpoint[r] # "billable" =>
    /\ pc[r] \notin {"rows", "done"} => charged[r] = {}
    /\ pc[r] = "rows" => \A a \in charged[r] : RowsSent(r, a.rows)
    /\ Complete(r) => \A a \in charged[r] : Len(reply[r]) = ArrayLength(Cardinality(a.rows))

(* What is counted of a request.                                           *)
Uncounted(q) ==
  /\ pc'[q] = pc[q]
  /\ cursor'[q] = cursor[q]
  /\ broken'[q] = broken[q]
  /\ reply'[q] = reply[q]
  /\ charged'[q] = charged[q]

LEMMA UncountedStep ==
  ASSUME NEW q, CountInv(q), Uncounted(q)
  PROVE  CountInv(q)'
<1>1. Complete(q)' = Complete(q)
  BY DEF Complete, Sent, Uncounted
<1>2. \A a \in charged[q] : RowsSent(q, a.rows)' = RowsSent(q, a.rows)
  BY DEF RowsSent, Uncounted
<1> QED
  BY <1>1, <1>2 DEF CountInv, Uncounted

LEMMA LengthOfConcat ==
  /\ \A s \in Seq(Tokens) : \A token \in Tokens : Len(s \o <<token>>) = Len(s) + 1
  /\ \A s \in Seq(Tokens) : \A t, u \in Tokens : Len(s \o <<t, u>>) = Len(s) + 2
  /\ \A s \in Seq(Tokens) : Len(s) \in Nat /\ s \o <<>> = s
  /\ {"row", "comma", "]", "error"} \subseteq Tokens
<1>1. {"row", "comma", "]", "error"} \subseteq Tokens
  BY DEF Tokens
<1>2. \A s \in Seq(Tokens) : \A token \in Tokens : Len(s \o <<token>>) = Len(s) + 1
  OBVIOUS
<1>3. \A s \in Seq(Tokens) : \A t, u \in Tokens : Len(s \o <<t, u>>) = Len(s) + 2
  OBVIOUS
<1>4. \A s \in Seq(Tokens) : Len(s) \in Nat /\ s \o <<>> = s
  OBVIOUS
<1> QED
  BY <1>1, <1>2, <1>3, <1>4

(* A step of a request is no other's.                                      *)
LEMMA OwnStep ==
  ASSUME TypeOK, NEW r \in Requests, NEW q \in Requests, q # r,
         Refuse(r) \/ Handle(r) \/ Fail(r) \/ AskAgain(r)
  PROVE  Uncounted(q)
<1>1. ASSUME NEW left, Fetch(r, left) PROVE cursor'[q] = cursor[q] /\ broken'[q] = broken[q]
  BY <1>1 DEF Fetch, TypeOK
<1>2. ASSUME NEW rows, Rows(r, rows) PROVE Uncounted(q)
  BY <1>1, <1>2 DEF Rows, TypeOK, Uncounted
<1>3. ASSUME NEW tokens, End(r, tokens), UNCHANGED <<broken, charged>> PROVE Uncounted(q)
  BY <1>3 DEF End, TypeOK, Uncounted
<1>4. CASE Refuse(r) \/ AskAgain(r)
  BY <1>4 DEF Refuse, AskAgain, TypeOK, Uncounted
<1>5. CASE Fail(r) \/ FinishBillable(r) \/ FinishEvents(r)
  BY <1>3, <1>5 DEF Fail, FinishBillable, FinishEvents
<1>6. CASE Accept(r) \/ IsRangeConsolidated(r) \/ ReadEvents(r)
  BY <1>6 DEF Accept, IsRangeConsolidated, ReadEvents, TypeOK, Uncounted
<1>7. CASE \/ GetConsolidatedBillableEventRows(r) \/ GetBillableEventRows(r)
           \/ GetUsageEventRows(r) \/ ForecastBillableEventRows(r)
  BY <1>2, <1>7 DEF GetConsolidatedBillableEventRows, GetBillableEventRows,
     GetUsageEventRows, ForecastBillableEventRows
<1>8. CASE ForecastInsert(r)
  BY <1>8 DEF ForecastInsert, Insertable, TypeOK, Uncounted
<1>9. CASE SendBillableEvent(r)
  <2>1. /\ Fetch(r, cursor[r] \ {Min(cursor[r])}) /\ UNCHANGED <<pc, charged>>
        /\ reply'[q] = reply[q]
    BY <1>9 DEF SendBillableEvent, TypeOK
  <2> QED
    BY <1>1, <2>1 DEF Uncounted
<1>10. CASE SendTaskTotals(r)
  BY <1>10 DEF SendTaskTotals, TypeOK, Uncounted
<1>11. CASE SendEvent(r)
  <2>1. /\ Fetch(r, cursor[r] \ {Min(cursor[r])}) /\ UNCHANGED <<pc, charged>>
        /\ reply'[q] = reply[q]
    BY <1>11 DEF SendEvent, TypeOK
  <2> QED
    BY <1>1, <2>1 DEF Uncounted
<1> QED
  BY <1>4, <1>5, <1>6, <1>7, <1>8, <1>9, <1>10, <1>11 DEF Handle

(* Rows are finitely many events.                                          *)
LEMMA RowsAreFinite ==
  ASSUME NEW rows \in SUBSET Events
  PROVE  /\ IsFiniteSet(rows) /\ Cardinality(rows) \in Nat
         /\ Cardinality(rows) = 0 <=> rows = {}
         /\ \A part \in SUBSET rows :
              Cardinality(part) \in Nat /\ Cardinality(part) =< Cardinality(rows)
<1>1. IsFiniteSet(rows)
  BY EventsAssumption, FS_Subset
<1>2. \A part \in SUBSET rows : Cardinality(part) =< Cardinality(rows) /\ IsFiniteSet(part)
  BY <1>1, FS_Subset
<1> QED
  BY <1>1, <1>2, FS_CardinalityType, FS_EmptySet

LEMMA CountBegins ==
  ASSUME TypeOK, NEW r \in Requests, CountInv(r), NEW rows \in SUBSET Events,
         Rows(r, rows), pc[r] \in {"live", "price"}
  PROVE  CountInv(r)'
<1> SUFFICES ASSUME Endpoint[r] # "billable" PROVE CountInv(r)'
  BY DEF CountInv
<1> PICK new : new = [filter |-> Filter(r), rows |-> rows]
  OBVIOUS
<1>1. /\ pc'[r] = "rows" /\ charged'[r] = charged[r] \cup {new} /\ reply'[r] = <<"[">>
      /\ Fetch(r, rows)
  BY DEF Rows, TypeOK
<1>2. charged'[r] = {new} /\ new.rows = rows
  BY <1>1 DEF CountInv
<1>3. \/ cursor'[r] = rows
      \/ cursor'[r] = {} /\ broken'[r]
  <2>1. CASE cursor' = [cursor EXCEPT ![r] = rows]
    BY <2>1 DEF TypeOK
  <2>2. CASE cursor' = [cursor EXCEPT ![r] = {}] /\ broken' = [broken EXCEPT ![r] = TRUE]
    BY <2>2, Zenon DEF TypeOK
  <2> QED
    BY <1>1, <2>1, <2>2 DEF Fetch
<1>4. RowsSent(r, rows)'
  <2>1. CASE cursor'[r] = {} /\ broken'[r]
    BY <2>1, Zenon DEF RowsSent
  <2>2. CASE cursor'[r] = rows
    BY <1>1, <2>2, RowsAreFinite DEF RowsSent
  <2> QED
    BY <1>3, <2>1, <2>2
<1>5. ~Complete(r)'
  BY <1>1 DEF Complete
<1> QED
  BY <1>1, <1>2, <1>4, <1>5 DEF CountInv

LEMMA CountSendEvent ==
  ASSUME TypeOK, NEW r \in Requests, CountInv(r), SendEvent(r)
  PROVE  CountInv(r)'
<1> PICK e : e = Min(cursor[r])
  OBVIOUS
<1>1. /\ pc[r] = "rows" /\ Endpoint[r] # "billable" /\ cursor[r] # {}
      /\ Fetch(r, cursor[r] \ {e}) /\ UNCHANGED <<pc, charged>>
      /\ cursor[r] \in SUBSET Events /\ reply[r] \in Seq(Tokens) /\ broken[r] \in BOOLEAN
  BY DEF SendEvent, TypeOK
<1>2. reply'[r] = reply[r] \o IF cursor'[r] = {} THEN <<"row">> ELSE <<"row", "comma">>
  BY DEF SendEvent, TypeOK
<1>3. e \in cursor[r]
  <2>1. cursor[r] \in SUBSET Nat
    BY <1>1, EventsAssumption
  <2>2. \E n \in cursor[r] : \A m \in cursor[r] : n =< m
    BY <1>1, <2>1, LeastNat
  <2> QED
    BY <2>2 DEF Min
<1>4. /\ cursor'[r] \subseteq cursor[r]
      /\ ~broken'[r] => ~broken[r] /\ cursor'[r] = cursor[r] \ {e}
  <2>1. CASE cursor' = [cursor EXCEPT ![r] = cursor[r] \ {e}] /\ UNCHANGED broken
    BY <2>1 DEF TypeOK
  <2>2. CASE cursor' = [cursor EXCEPT ![r] = {}] /\ broken' = [broken EXCEPT ![r] = TRUE]
    BY <2>2, Zenon DEF TypeOK
  <2> QED
    BY <1>1, <2>1, <2>2 DEF Fetch
<1>5. ASSUME NEW a \in charged[r] PROVE RowsSent(r, a.rows)'
  <2>1. a.rows \in SUBSET Events
    BY DEF TypeOK, Answer
  <2> PICK rows : rows = a.rows
    OBVIOUS
  <2>2. RowsSent(r, rows) /\ rows \in SUBSET Events
    BY <1>1, <2>1 DEF CountInv
  <2>3. cursor[r] \subseteq rows
    BY <2>2 DEF RowsSent
  <2>4. cursor'[r] \subseteq rows
    BY <1>4, <2>3
  <2>5. ASSUME ~broken'[r]
        PROVE  Len(reply'[r]) = IF cursor'[r] = {} /\ rows # {} THEN 2 * Cardinality(rows)
                                ELSE 1 + 2 * (Cardinality(rows) - Cardinality(cursor'[r]))
    <3>1. ~broken[r] /\ cursor'[r] = cursor[r] \ {e}
      BY <1>4, <2>5
    <3>2. Len(reply[r]) = 1 + 2 * (Cardinality(rows) - Cardinality(cursor[r]))
      BY <1>1, <2>2, <3>1 DEF RowsSent
    <3>3. Cardinality(cursor'[r]) = Cardinality(cursor[r]) - 1
      BY <1>1, <1>3, <3>1, RowsAreFinite, FS_RemoveElement
    <3>4. /\ Cardinality(rows) \in Nat /\ Cardinality(cursor[r]) \in Nat
          /\ Cardinality(cursor'[r]) \in Nat
          /\ Cardinality(cursor'[r]) = 0 <=> cursor'[r] = {}
      BY <1>1, <2>2, <2>4, RowsAreFinite
    <3>5. rows # {}
      BY <1>1, <2>3
    <3>6. CASE cursor'[r] = {}
      <4>1. Len(reply'[r]) = Len(reply[r]) + 1
        BY <1>1, <1>2, <3>6, LengthOfConcat
      <4> QED
        BY <3>2, <3>3, <3>4, <3>5, <3>6, <4>1
    <3>7. CASE cursor'[r] # {}
      <4>1. Len(reply'[r]) = Len(reply[r]) + 2
        <5>1. reply'[r] = reply[r] \o <<"row", "comma">>
          BY <1>2, <3>7
        <5>2. reply[r] \in Seq(Tokens) /\ "row" \in Tokens /\ "comma" \in Tokens
          BY <1>1, LengthOfConcat
        <5>3. Len(reply[r] \o <<"row", "comma">>) = Len(reply[r]) + 2
          BY <5>2, LengthOfConcat, Zenon
        <5> QED
          BY <5>1, <5>3, Zenon
      <4> QED
        BY <3>2, <3>3, <3>4, <3>7, <4>1
    <3> QED
      BY <3>6, <3>7
  <2> QED
    BY <2>4, <2>5 DEF RowsSent
<1>6. ~Complete(r)'
  BY <1>1 DEF Complete
<1> QED
  BY <1>1, <1>5, <1>6 DEF CountInv

LEMMA CountFinishEvents ==
  ASSUME IInv, IInv', NEW r \in Requests, CountInv(r), FinishEvents(r)
  PROVE  CountInv(r)'
<1>1. TypeOK
  BY DEF IInv
<1>2. /\ pc[r] = "rows" /\ Endpoint[r] # "billable" /\ cursor[r] = {}
      /\ UNCHANGED <<broken, charged>> /\ End(r, <<"]">> \o RowsErr(r))
      /\ reply[r] \in Seq(Tokens)
  BY <1>1 DEF FinishEvents, TypeOK
<1>3. pc'[r] = "done" /\ reply'[r] = reply[r] \o (<<"]">> \o RowsErr(r))
  BY <1>1, <1>2 DEF End, TypeOK
<1>4. ASSUME Complete(r)', NEW a \in charged[r]
      PROVE  Len(reply'[r]) = ArrayLength(Cardinality(a.rows))
  <2>1. ~broken[r]
    <3>1. ReplyInv(r)'
      BY DEF IInv, RequestInv
    <3> QED
      BY <1>2, <1>4, <3>1, Zenon DEF ReplyInv
  <2>2. Len(reply'[r]) = Len(reply[r]) + 1
    <3>1. <<"]">> \o RowsErr(r) = <<"]">>
      <4>1. RowsErr(r) = <<>>
        BY <2>1 DEF RowsErr
      <4>2. <<"]">> \in Seq(Tokens)
        BY TokenSequences, LengthOfConcat
      <4> QED
        BY <4>1, <4>2, LengthOfConcat
    <3>2. reply'[r] = reply[r] \o <<"]">>
      BY <1>3, <3>1
    <3> QED
      BY <1>2, <3>2, LengthOfConcat
  <2>3. a.rows \in SUBSET Events
    BY <1>1 DEF TypeOK, Answer
  <2>4. RowsSent(r, a.rows)
    BY <1>2 DEF CountInv
  <2>5. /\ Cardinality(a.rows) \in Nat
        /\ Cardinality(a.rows) = 0 <=> a.rows = {}
        /\ Cardinality({}) = 0
    BY <2>3, RowsAreFinite, FS_EmptySet
  <2>6. Len(reply[r]) = IF a.rows # {} THEN 2 * Cardinality(a.rows) ELSE 1 + 2 * Cardinality(a.rows)
    BY <1>2, <2>1, <2>4, <2>5 DEF RowsSent
  <2>7. CASE a.rows = {}
    BY <2>2, <2>5, <2>6, <2>7 DEF ArrayLength
  <2>8. CASE a.rows # {}
    <3>1. Cardinality(a.rows) # 0
      BY <2>5, <2>8
    <3> QED
      BY <2>2, <2>5, <2>6, <2>8, <3>1 DEF ArrayLength
  <2> QED
    BY <2>7, <2>8
<1> QED
  BY <1>2, <1>3, <1>4 DEF CountInv

(* A request's own step keeps its count.                                   *)
LEMMA CountOwnStep ==
  ASSUME IInv, IInv', NEW r \in Requests, CountInv(r),
         Refuse(r) \/ Handle(r) \/ Fail(r) \/ AskAgain(r)
  PROVE  CountInv(r)'
<1> SUFFICES ASSUME Endpoint[r] # "billable" PROVE CountInv(r)'
  BY DEF CountInv
<1>1. TypeOK /\ RequestInv(r)
  BY DEF IInv
<1>2. ASSUME pc'[r] \notin {"rows", "done"}, charged'[r] = {} PROVE CountInv(r)'
  BY <1>2 DEF CountInv, Complete
<1>3. ASSUME pc'[r] = "done", "error" \in Range(reply'[r]) PROVE CountInv(r)'
  BY <1>3 DEF CountInv, Complete, Sent
<1>4. CASE Refuse(r)
  <2>1. pc'[r] = "done" /\ reply'[r] = <<"error">>
    BY <1>1, <1>4 DEF Refuse, TypeOK
  <2> QED
    BY <1>3, <2>1 DEF Range
<1>5. CASE AskAgain(r)
  BY <1>1, <1>2, <1>5 DEF AskAgain, TypeOK
<1>6. CASE Accept(r) \/ ReadEvents(r)
  <2>1. pc[r] \notin {"rows", "done"} /\ UNCHANGED charged /\ pc'[r] \notin {"rows", "done"}
    BY <1>1, <1>6 DEF Accept, ReadEvents, TypeOK
  <2> QED
    BY <1>2, <2>1 DEF CountInv
<1>7. CASE ForecastInsert(r)
  <2>1. pc[r] \notin {"rows", "done"} /\ UNCHANGED charged /\ pc'[r] \notin {"rows", "done"}
    BY <1>1, <1>7 DEF ForecastInsert, Insertable, TypeOK
  <2> QED
    BY <1>2, <2>1 DEF CountInv
<1>8. CASE \/ IsRangeConsolidated(r) \/ GetConsolidatedBillableEventRows(r)
           \/ GetBillableEventRows(r) \/ SendBillableEvent(r) \/ SendTaskTotals(r)
           \/ FinishBillable(r)
  BY <1>1, <1>8 DEF IsRangeConsolidated, GetConsolidatedBillableEventRows, GetBillableEventRows,
     SendBillableEvent, SendTaskTotals, FinishBillable, RequestInv, OwnHandler
<1>9. CASE GetUsageEventRows(r)
  <2>1. EventRows(r, Filter(r), table["events"]) \in SUBSET Events
    BY <1>1, EventRowsAreEvents DEF TypeOK, Tables
  <2> QED
    BY <1>1, <1>9, <2>1, CountBegins DEF GetUsageEventRows
<1>10. CASE ForecastBillableEventRows(r)
  <2>1. table["billable_event_components"] \cup inserted[r] \in SUBSET Events
    <3>1. inserted[r] \subseteq Events
      BY <1>1, EventsAssumption DEF TypeOK
    <3>2. table["billable_event_components"] \subseteq Events
      BY <1>1 DEF TypeOK, Tables
    <3> QED
      BY <3>1, <3>2
  <2>2. EventRows(r, Filter(r), table["billable_event_components"] \cup inserted[r])
          \in SUBSET Events
    BY <2>1, EventRowsAreEvents
  <2> QED
    BY <1>1, <1>10, <2>2, CountBegins DEF ForecastBillableEventRows
<1>11. CASE SendEvent(r)
  BY <1>1, <1>11, CountSendEvent
<1>12. CASE FinishEvents(r)
  BY <1>12, CountFinishEvents
<1>13. CASE Fail(r)
  <2>1. pc'[r] = "done" /\ reply'[r] = reply[r] \o <<"error">> /\ reply[r] \in Seq(Tokens)
    BY <1>1, <1>13 DEF Fail, End, TypeOK
  <2>2. <<"error">> \in Seq(Tokens) /\ "error" \in Range(<<"error">>)
    BY DEF Tokens, Range
  <2>3. "error" \in Range(reply'[r])
    BY <2>1, <2>2, SentStays DEF Sent
  <2> QED
    BY <1>3, <2>1, <2>3
<1> QED
  BY <1>4, <1>5, <1>6, <1>7, <1>8, <1>9, <1>10, <1>11, <1>12, <1>13 DEF Handle

LEMMA NextCount ==
  ASSUME IInv, IInv', \A r \in Requests : CountInv(r), [Next]_vars
  PROVE  \A r \in Requests : CountInv(r)'
<1>1. CASE UNCHANGED request
  BY <1>1, UncountedStep DEF request, Uncounted
<1>2. ASSUME NEW r \in Requests, Refuse(r) \/ Handle(r) \/ Fail(r) \/ AskAgain(r)
      PROVE  \A q \in Requests : CountInv(q)'
  <2> TAKE q \in Requests
  <2>1. CASE q = r
    BY <1>2, <2>1, CountOwnStep
  <2>2. CASE q # r
    BY <1>2, <2>2, OwnStep, UncountedStep DEF IInv
  <2> QED
    BY <2>1, <2>2
<1>3. CASE UNCHANGED vars
  BY <1>1, <1>3 DEF vars
<1>4. CASE (\E e \in Events : Arrive(e)) \/ \E m \in Months : Consolidate(m)
  BY <1>1, <1>4 DEF Arrive, Consolidate
<1>5. CASE BeginRefresh \/ SwapEvents \/ SwapComponents \/ RefreshTimeout
  BY <1>1, <1>5 DEF BeginRefresh, SwapEvents, SwapComponents, RefreshTimeout
<1> QED
  BY <1>2, <1>3, <1>4, <1>5 DEF Next

CInv == IInv /\ \A r \in Requests : CountInv(r)

(* A reply that ends without an error, whatever refreshes and              *)
(* consolidations it met, is a JSON array, unless it has totals of tasks;  *)
(* one of usage or of a forecast has as many elements as its filter has    *)
(* rows, so that an error between two rows never passes for their end.     *)
(* The same is not said of bills, whose handler does not ask for it.       *)
THEOREM WholeReplies == Spec => []RepliesAreWhole
<1>1. Init => CInv
  <2> SUFFICES ASSUME Init PROVE CInv
    OBVIOUS
  <2>1. ASSUME NEW r \in Requests PROVE CountInv(r)
    BY <2>1 DEF Init, CountInv, Complete
  <2> QED
    BY <2>1, InitInvariant DEF CInv
<1>2. CInv /\ [Next]_vars => CInv'
  <2> SUFFICES ASSUME CInv, [Next]_vars PROVE CInv'
    OBVIOUS
  <2>1. IInv'
    BY NextInvariant DEF CInv
  <2> QED
    BY <2>1, NextCount DEF CInv
<1>3. CInv => RepliesAreWhole
  <2> SUFFICES ASSUME CInv, NEW r \in Requests, Complete(r)
               PROVE  /\ ~Sent(r, "sum") => WellFormed(reply[r])
                      /\ Endpoint[r] # "billable" =>
                           \A a \in charged[r] :
                             Len(reply[r]) = ArrayLength(Cardinality(a.rows))
    BY DEF RepliesAreWhole
  <2>1. ReplyInv(r) /\ CountInv(r)
    BY DEF CInv, IInv, RequestInv
  <2>2. ~Sent(r, "sum") => WellFormed(reply[r])
    BY <2>1, Zenon DEF ReplyInv
  <2>3. Endpoint[r] # "billable" =>
          \A a \in charged[r] : Len(reply[r]) = ArrayLength(Cardinality(a.rows))
    BY <2>1, Zenon DEF CountInv
  <2> QED
    BY <2>2, <2>3
<1> QED
  BY <1>1, <1>2, <1>3, PTL DEF Spec
==============================================================================
