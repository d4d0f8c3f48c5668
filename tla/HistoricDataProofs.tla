------------------------- MODULE HistoricDataProofs --------------------------
(***************************************************************************)
(* Proofs about HistoricData, for any number of entities, a platform that  *)
(* changes between the pages of a listing, and any bounds: every version   *)
(* of a plan refers to one of its service, and an entity with a version is *)
(* known from its creation on, whatever processes collect; and with one    *)
(* process, the past does not change.                                      *)
(*                                                                         *)
(* What is known of the committed rows is known of the rows a transaction  *)
(* sees as well, and of the row it inserts next: each process counts the   *)
(* rows of an entity before it inserts one, and others may commit in       *)
(* between.                                                                *)
(***************************************************************************)
EXTENDS HistoricData, FiniteSetTheorems, WellFoundedInduction, TLAPS
(* A row's key is its guid and valid_from.                                 *)
SameKey(r, s) == r.guid = s.guid /\ r.from = s.from

OneRowPerKey(rows) == \A r, s \in rows : SameKey(r, s) => r = s

(* If there are rows of an entity, one is from its creation on.            *)
Begins(rows, g) ==
  (\E r \in rows : r.guid = g)
    => \E r \in rows : r.guid = g /\ r.from = platform[g].created

(* The plan r has its service among the rows.                              *)
HasService(r, rows) ==
  r.guid \in Plans => \E s \in rows : s.guid = ServiceOf[r.guid] /\ s.from = r.serviceFrom

Known(g) == g \in DOMAIN platform \cup gone

(* The rows a transaction sees.                                            *)
Seen(p) == history \cup txn[p].rows

(* What a transaction has listed is of the kind it is at, and was created  *)
(* when the platform says.                                                 *)
ListedInv(p) ==
  /\ \A e \in txn[p].listed :
       /\ txn[p].kinds # <<>>
       /\ e.guid \in OfKind(Head(txn[p].kinds))
       /\ Known(e.guid)
       /\ e.guid \in DOMAIN platform => e.created = platform[e.guid].created

(* The row to insert next is the first of its entity or not.               *)
InsertInv(p) ==
  \A r \in txn[p].insert :
    /\ Known(r.guid)
    /\ HasService(r, Seen(p))
    /\ r.guid \in DOMAIN platform =>
         r.from = platform[r.guid].created \/ \E s \in Seen(p) : s.guid = r.guid

RowsInv(p) ==
  /\ \A r \in txn[p].rows : Known(r.guid) /\ HasService(r, Seen(p))
  /\ OneRowPerKey(Seen(p))
  /\ \A g \in DOMAIN platform : Begins(Seen(p), g)

TxnInv(p) == txn[p] # Idle => ListedInv(p) /\ InsertInv(p) /\ RowsInv(p)

(* No two transactions have inserted the same key.                         *)
KeysApart(p, q) ==
  txn[p] # Idle /\ txn[q] # Idle =>
    \A r \in txn[p].rows, s \in txn[q].rows : ~SameKey(r, s)

HistoryInv ==
  /\ \A r \in history : Known(r.guid) /\ HasService(r, history)
  /\ OneRowPerKey(history)
  /\ \A g \in DOMAIN platform : Begins(history, g)

IInv ==
  /\ TypeOK
  /\ HistoryInv
  /\ \A p \in Processes : TxnInv(p)
  /\ \A p, q \in Processes : p # q => KeysApart(p, q)

------------------------------------------------------------------------------
(* Numbers.                                                                *)

(* A set of numbers that is not empty has a least.                         *)
LEMMA LeastNat ==
  ASSUME NEW T \in SUBSET Nat, T # {}
  PROVE  \E n \in T : \A m \in T : n =< m
<1> DEFINE R == OpToRel(<, Nat)
<1>1. IsWellFoundedOn(R, Nat)
  BY NatLessThanWellFounded
<1>2. \A m, n \in Nat : m < n => <<m, n>> \in R
  BY DEF OpToRel
<1> HIDE DEF R
<1>3. PICK n \in T : \A m \in T : ~(<<m, n>> \in R)
  BY <1>1, WFMin
<1>4. \A m \in T : ~(m < n)
  BY <1>2, <1>3
<1> QED
  BY <1>4

(* One that is bounded has a greatest.                                     *)
LEMMA GreatestNat ==
  ASSUME NEW bound \in Nat, NEW T \in SUBSET (0 .. bound), T # {}
  PROVE  \E n \in T : \A m \in T : n >= m
<1> DEFINE rest == {k \in Nat : \E m \in T : k = bound - m}
<1>1. rest \in SUBSET Nat /\ \A m \in T : bound - m \in rest
  OBVIOUS
<1>2. PICK k \in rest : \A j \in rest : k =< j
  BY <1>1, LeastNat
<1>3. PICK n \in T : k = bound - n
  BY <1>2
<1>4. ASSUME NEW m \in T PROVE n >= m
  <2>1. bound - n =< bound - m
    BY <1>1, <1>2, <1>3
  <2> QED
    BY <2>1
<1> QED
  BY <1>4

------------------------------------------------------------------------------
(* Types.                                                                  *)

LEMMA Shapes ==
  ASSUME TypeOK
  PROVE  /\ DOMAIN platform \subseteq Guids
         /\ \A g \in DOMAIN platform : platform[g] \in V3Org
         /\ \A p \in Processes : txn[p] # Idle => txn[p] \in Transaction
         /\ platform = [g \in DOMAIN platform |-> platform[g]]
<1>1. PICK existing \in SUBSET Guids : platform \in [existing -> V3Org]
  BY DEF TypeOK
<1>2. \A p \in Processes : txn[p] # Idle => txn[p] \in Transaction
  BY DEF TypeOK
<1> QED
  BY <1>1, <1>2

LEMMA KindFacts ==
  /\ \A kind : kind \in Range(KindNames) <=>
       kind \in {"services", "service_plans", "orgs", "spaces"}
  /\ KindNames \in Seq(Range(KindNames))
  /\ \A k \in 1 .. 4 : <<KindNames[k]>> \in Seq(Range(KindNames))
  /\ \A k \in 0 .. 4 : NextTurn(k) \in 0 .. 4
<1>1. /\ KindNames[1] = "services" /\ KindNames[2] = "service_plans"
      /\ KindNames[3] = "orgs" /\ KindNames[4] = "spaces" /\ DOMAIN KindNames = 1 .. 4
  BY DEF KindNames
<1>2. \A k \in 1 .. 4 : k = 1 \/ k = 2 \/ k = 3 \/ k = 4
  OBVIOUS
<1>3. \A kind : kind \in Range(KindNames) <=>
        kind \in {"services", "service_plans", "orgs", "spaces"}
  BY <1>1, <1>2 DEF Range
<1>4. KindNames \in Seq(Range(KindNames))
  BY <1>3 DEF KindNames
<1>5. \A k \in 1 .. 4 : KindNames[k] \in Range(KindNames)
  BY <1>1 DEF Range
<1>6. \A k \in 0 .. 4 : NextTurn(k) \in 0 .. 4
  BY DEF NextTurn
<1> QED
  BY <1>3, <1>4, <1>5, <1>6

(* The kinds have no guid in common.                                       *)
LEMMA KindsApart ==
  ASSUME GuidsAssumption
  PROVE  /\ OfKind("services") = Services
         /\ OfKind("service_plans") = Plans
         /\ OfKind("orgs") = Orgs
         /\ OfKind("spaces") = Spaces
         /\ \A kind \in {"services", "orgs", "spaces"} : OfKind(kind) \cap Plans = {}
         /\ \A kind \in Range(KindNames) : OfKind(kind) \subseteq Guids
         /\ Plans \subseteq Guids
<1>1. /\ OfKind("services") = Services
      /\ OfKind("service_plans") = Plans
      /\ OfKind("orgs") = Orgs
      /\ OfKind("spaces") = Spaces
  BY DEF OfKind
<1>2. Services \subseteq Guids /\ Plans \subseteq Guids /\ Orgs \subseteq Guids /\ Spaces \subseteq Guids
  BY DEF Guids
<1> QED
  BY <1>1, <1>2, KindFacts DEF GuidsAssumption

(* A step of one transaction that leaves it a transaction, or ends it.     *)
LEMMA TxnTypes ==
  ASSUME TypeOK, NEW p \in Processes, NEW t \in {Idle} \cup Transaction,
         txn' = [txn EXCEPT ![p] = t],
         UNCHANGED <<now, platform, gone, history, turn, failures, polled>>
  PROVE  TypeOK'
<1>1. txn' \in [Processes -> {Idle} \cup Transaction]
  BY DEF TypeOK
<1> QED
  BY <1>1 DEF TypeOK, V3Org, Version

------------------------------------------------------------------------------
(* Steps of the platform.                                                  *)

(* Nothing in the database changes, and no creation time.                  *)
LEMMA PlatformStep ==
  ASSUME IInv, TypeOK', UNCHANGED <<history, txn>>,
         \A g : Known(g) => Known(g)',
         \A g \in DOMAIN platform' : Known(g) =>
           g \in DOMAIN platform /\ platform'[g].created = platform[g].created
  PROVE  IInv'
<1>1. ASSUME NEW rows, \A r \in rows : Known(r.guid),
             \A g \in DOMAIN platform : Begins(rows, g)
      PROVE  \A g \in DOMAIN platform' :
               (\E r \in rows : r.guid = g)
                 => \E r \in rows : r.guid = g /\ r.from = platform'[g].created
  BY <1>1 DEF Begins
<1>2. HistoryInv'
  <2>1. \A r \in history : Known(r.guid)' /\ HasService(r, history)
    BY DEF IInv, HistoryInv
  <2>2. \A g \in DOMAIN platform' : Begins(history, g)'
    BY <1>1 DEF IInv, HistoryInv, Begins
  <2>3. OneRowPerKey(history)
    BY DEF IInv, HistoryInv
  <2> QED
    BY <2>1, <2>2, <2>3 DEF HistoryInv, HasService, OneRowPerKey, SameKey
<1>3. ASSUME NEW p \in Processes, txn[p] # Idle
      PROVE  ListedInv(p)' /\ InsertInv(p)' /\ RowsInv(p)'
  <2>1. ListedInv(p) /\ InsertInv(p) /\ RowsInv(p) /\ Seen(p)' = Seen(p)
    BY <1>3 DEF IInv, TxnInv, Seen
  <2>2. ListedInv(p)'
    BY <2>1 DEF ListedInv
  <2>3. InsertInv(p)'
    BY <2>1 DEF InsertInv, HasService
  <2>4. \A r \in Seen(p) : Known(r.guid)
    BY <2>1 DEF Seen, RowsInv, IInv, HistoryInv
  <2>5. \A g \in DOMAIN platform' : Begins(Seen(p), g)'
    BY <1>1, <2>1, <2>4 DEF RowsInv, Begins
  <2>6. RowsInv(p)'
    BY <2>1, <2>5 DEF RowsInv, HasService, OneRowPerKey, SameKey
  <2> QED
    BY <2>2, <2>3, <2>6
<1>4. \A p \in Processes : TxnInv(p)'
  BY <1>3 DEF TxnInv
<1>5. \A p, q \in Processes : p # q => KeysApart(p, q)'
  BY DEF IInv, KeysApart, SameKey
<1> QED
  BY <1>2, <1>4, <1>5 DEF IInv

LEMMA TickStep ==
  ASSUME ParametersAssumption, IInv, Tick
  PROVE  IInv'
<1>1. TypeOK'
  BY DEF IInv, Tick, TypeOK, Time, ParametersAssumption, V3Org, Version
<1> QED
  BY <1>1, PlatformStep DEF Tick, Known

LEMMA CreateStep ==
  ASSUME ParametersAssumption, GuidsAssumption, IInv,
         NEW v \in Values, NEW k \in Range(KindNames), NEW g \in Guids, Create(k, g, v)
  PROVE  IInv'
<1>1. TypeOK /\ g \notin DOMAIN platform \cup gone
  BY DEF IInv, Create
<1>2. PICK new : new = [created |-> now, updated |-> now, value |-> v]
  OBVIOUS
<1>3. platform' = [h \in DOMAIN platform \cup {g} |-> IF h = g THEN new ELSE platform[h]]
  BY <1>2 DEF Create
<1>4. new \in V3Org
  BY <1>1, <1>2 DEF V3Org, TypeOK
<1>5. platform' \in [DOMAIN platform \cup {g} -> V3Org]
  BY <1>1, <1>3, <1>4, Shapes
<1>6. DOMAIN platform \cup {g} \in SUBSET Guids
  BY <1>1, Shapes
<1>7. TypeOK'
  <2>1. \E existing \in SUBSET Guids : platform' \in [existing -> V3Org]
    BY <1>5, <1>6
  <2> QED
    BY <1>1, <2>1 DEF Create, TypeOK
<1>8. UNCHANGED <<gone, history, txn>>
  BY DEF Create
<1>9. DOMAIN platform' = DOMAIN platform \cup {g}
  BY <1>3
<1>10. \A h : Known(h) => Known(h)'
  BY <1>8, <1>9 DEF Known
<1>11. \A h \in DOMAIN platform' : Known(h) =>
         h \in DOMAIN platform /\ platform'[h].created = platform[h].created
  <2> TAKE h \in DOMAIN platform'
  <2> HAVE Known(h)
  <2>1. h # g
    BY <1>1 DEF Known
  <2> QED
    BY <1>3, <1>9, <2>1
<1> QED
  BY <1>7, <1>8, <1>10, <1>11, PlatformStep

LEMMA ChangeStep ==
  ASSUME ParametersAssumption, IInv, NEW v \in Values, NEW g \in Guids, Change(g, v)
  PROVE  IInv'
<1>1. TypeOK /\ g \in DOMAIN platform /\ platform[g] \in V3Org
  BY Shapes DEF IInv, Change
<1>2. PICK new : new = [platform[g] EXCEPT !.updated = now, !.value = v]
  OBVIOUS
<1>3. platform' = [platform EXCEPT ![g] = new]
  BY <1>2 DEF Change
<1>4. new \in V3Org /\ new.created = platform[g].created
  BY <1>1, <1>2 DEF V3Org, TypeOK
<1>5. DOMAIN platform' = DOMAIN platform /\ \A h \in DOMAIN platform :
        platform'[h] = IF h = g THEN new ELSE platform[h]
  BY <1>1, <1>3, Shapes
<1>6. TypeOK'
  <2>1. platform' \in [DOMAIN platform -> V3Org] /\ DOMAIN platform \in SUBSET Guids
    BY <1>1, <1>3, <1>4, Shapes
  <2>2. \E existing \in SUBSET Guids : platform' \in [existing -> V3Org]
    BY <2>1
  <2> QED
    BY <1>1, <2>2 DEF Change, TypeOK
<1>7. UNCHANGED <<gone, history, txn>>
  BY DEF Change
<1>8. \A h : Known(h) => Known(h)'
  BY <1>5, <1>7 DEF Known
<1>9. \A h \in DOMAIN platform' : Known(h) =>
        h \in DOMAIN platform /\ platform'[h].created = platform[h].created
  BY <1>4, <1>5
<1> QED
  BY <1>6, <1>7, <1>8, <1>9, PlatformStep

LEMMA RemoveStep ==
  ASSUME IInv, NEW g \in Guids, Remove(g)
  PROVE  IInv'
<1>1. TypeOK
  BY DEF IInv
<1>2. platform' = [h \in DOMAIN platform \ {g} |-> platform[h]] /\ gone' = gone \cup {g}
  BY DEF Remove, Restrict
<1>3. TypeOK'
  <2>1. platform' \in [DOMAIN platform \ {g} -> V3Org] /\ DOMAIN platform \ {g} \in SUBSET Guids
    BY <1>1, <1>2, Shapes
  <2>2. \E existing \in SUBSET Guids : platform' \in [existing -> V3Org]
    BY <2>1
  <2> QED
    BY <1>1, <1>2, <2>2 DEF Remove, TypeOK
<1>4. UNCHANGED <<history, txn>>
  BY DEF Remove
<1>5. DOMAIN platform' = DOMAIN platform \ {g}
  BY <1>2
<1>6. \A h : Known(h) => Known(h)'
  BY <1>2, <1>5 DEF Known
<1>7. \A h \in DOMAIN platform' : Known(h) =>
        h \in DOMAIN platform /\ platform'[h].created = platform[h].created
  BY <1>2, <1>5
<1> QED
  BY <1>3, <1>4, <1>6, <1>7, PlatformStep

------------------------------------------------------------------------------
(* Steps of a transaction.                                                 *)

(* Only the transaction of p changes.                                      *)
OwnStep(p) ==
  /\ UNCHANGED <<platform, gone, history>>
  /\ \A q \in Processes \ {p} : txn'[q] = txn[q]

LEMMA TxnStep ==
  ASSUME IInv, TypeOK', NEW p \in Processes, OwnStep(p), TxnInv(p)',
         \A q \in Processes \ {p} : KeysApart(p, q)'
  PROVE  IInv'
<1>1. HistoryInv'
  BY DEF IInv, HistoryInv, OwnStep, HasService, OneRowPerKey, SameKey, Begins, Known
<1>2. ASSUME NEW q \in Processes \ {p}
      PROVE  TxnInv(q)'
  <2>1. TxnInv(q) /\ txn'[q] = txn[q] /\ UNCHANGED <<platform, gone, history>>
    BY <1>2 DEF IInv, OwnStep
  <2>2. Seen(q)' = Seen(q)
    BY <2>1 DEF Seen
  <2>3. ListedInv(q) => ListedInv(q)'
    BY <2>1 DEF ListedInv, Known
  <2>4. InsertInv(q) => InsertInv(q)'
    BY <2>1, <2>2 DEF InsertInv, Known, HasService
  <2>5. RowsInv(q) => RowsInv(q)'
    BY <2>1, <2>2 DEF RowsInv, Known, HasService, OneRowPerKey, SameKey, Begins
  <2> QED
    BY <2>1, <2>3, <2>4, <2>5 DEF TxnInv
<1>3. \A q, o \in Processes : q # o => KeysApart(q, o)'
  <2> TAKE q, o \in Processes
  <2> HAVE q # o
  <2>1. CASE q = p
    BY <2>1
  <2>2. CASE o = p
    <3>1. KeysApart(p, q)'
      BY <2>2
    <3> QED
      BY <2>2, <3>1 DEF KeysApart, SameKey
  <2>3. CASE q # p /\ o # p
    BY <2>3 DEF IInv, OwnStep, KeysApart, SameKey
  <2> QED
    BY <2>1, <2>2, <2>3
<1> QED
  BY <1>1, <1>2, <1>3 DEF IInv

(* Nothing is known of a transaction that has inserted nothing, or is      *)
(* over, but what is known of the history.                                 *)
LEMMA EndStep ==
  ASSUME IInv, TypeOK', NEW p \in Processes, OwnStep(p),
         \/ txn'[p] = Idle
         \/ txn'[p].rows = {} /\ txn'[p].listed = {} /\ txn'[p].insert = {}
  PROVE  IInv'
<1>1. CASE txn'[p] = Idle
  BY <1>1, TxnStep DEF TxnInv, KeysApart
<1>2. CASE txn'[p].rows = {} /\ txn'[p].listed = {} /\ txn'[p].insert = {}
  <2>1. Seen(p)' = history /\ UNCHANGED <<platform, gone, history>>
    BY <1>2 DEF Seen, OwnStep
  <2>2. ListedInv(p)' /\ InsertInv(p)'
    BY <1>2 DEF ListedInv, InsertInv
  <2>3. OneRowPerKey(Seen(p))'
    BY <2>1 DEF IInv, HistoryInv, OneRowPerKey, SameKey
  <2>4. \A g \in DOMAIN platform' : Begins(Seen(p), g)'
    BY <2>1 DEF IInv, HistoryInv, Begins
  <2>5. RowsInv(p)'
    BY <1>2, <2>3, <2>4 DEF RowsInv
  <2>6. \A q \in Processes \ {p} : KeysApart(p, q)'
    BY <1>2 DEF KeysApart
  <2> QED
    BY <2>2, <2>5, <2>6, TxnStep DEF TxnInv
<1> QED
  BY <1>1, <1>2

(* Nothing is inserted.                                                    *)
LEMMA ReadStep ==
  ASSUME IInv, TypeOK', NEW p \in Processes, OwnStep(p), txn[p] # Idle,
         txn'[p].rows = txn[p].rows, ListedInv(p)', InsertInv(p)'
  PROVE  IInv'
<1>1. Seen(p)' = Seen(p) /\ UNCHANGED <<platform, gone, history>>
  BY DEF Seen, OwnStep
<1>2. RowsInv(p)
  BY DEF IInv, TxnInv
<1>3. RowsInv(p)'
  BY <1>1, <1>2 DEF RowsInv, Known, HasService, OneRowPerKey, SameKey, Begins
<1>4. \A q \in Processes \ {p} : KeysApart(p, q)'
  BY DEF IInv, OwnStep, KeysApart, SameKey
<1> QED
  BY <1>3, <1>4, TxnStep DEF TxnInv

LEMMA BeginStep ==
  ASSUME IInv, NEW p \in Processes, NEW kinds \in Seq(Range(KindNames)), Begin(p, kinds)
  PROVE  IInv'
<1>1. TypeOK
  BY DEF IInv
<1>2. PICK t : t = [kinds |-> kinds, page |-> 1, listed |-> {}, insert |-> {},
                    rows |-> {}, seen |-> {}]
  OBVIOUS
<1>3. txn' = [txn EXCEPT ![p] = t]
  BY <1>2 DEF Begin
<1>4. t \in Transaction /\ t.rows = {} /\ t.listed = {} /\ t.insert = {}
  BY <1>2 DEF Transaction
<1>5. TypeOK'
  BY <1>1, <1>3, <1>4, TxnTypes DEF Begin
<1>6. OwnStep(p) /\ txn'[p] = t
  BY <1>1, <1>3 DEF OwnStep, TypeOK, Begin
<1> QED
  BY <1>4, <1>5, <1>6, EndStep

LEMMA CollectStep ==
  ASSUME IInv, NEW p \in Processes,
         \/ Initialise(p)
         \/ CollectServices(p) \/ CollectServicePlans(p) \/ CollectOrgs(p) \/ CollectSpaces(p)
  PROVE  IInv'
<1>1. 1 \in 1 .. 4 /\ 2 \in 1 .. 4 /\ 3 \in 1 .. 4 /\ 4 \in 1 .. 4
  OBVIOUS
<1>2. PICK kinds \in Seq(Range(KindNames)) : Begin(p, kinds)
  BY <1>1, KindFacts, Zenon DEF Initialise, CollectServices, CollectServicePlans, CollectOrgs,
       CollectSpaces, Collect
<1> QED
  BY <1>2, BeginStep

LEMMA ListPageStep ==
  ASSUME GuidsAssumption, IInv, NEW p \in Processes, NEW kind \in Range(KindNames),
         ListPage(p, kind)
  PROVE  IInv'
<1>1. TypeOK /\ txn[p] # Idle /\ txn[p] \in Transaction
  BY Shapes DEF IInv, ListPage, Collecting
<1>2. PICK found : found = {[guid |-> g, created |-> platform[g].created,
                             updated |-> platform[g].updated,
                             value |-> platform[g].value, at |-> now]
                              : g \in Page(kind, txn[p].page)}
  OBVIOUS
<1>3. PICK t : t = [txn[p] EXCEPT !.page = NextPage(kind, txn[p].page),
                                  !.listed = @ \cup found, !.seen = @ \cup found]
  OBVIOUS
<1>4. txn' = [txn EXCEPT ![p] = t]
  BY <1>1, <1>2, <1>3 DEF ListPage, TypeOK
<1>5. \A g \in Page(kind, txn[p].page) : g \in OfKind(kind) /\ g \in DOMAIN platform
  BY DEF Page
<1>6. \A e \in found : /\ e.guid \in OfKind(kind) /\ e.guid \in DOMAIN platform
                       /\ e.created = platform[e.guid].created
  BY <1>2, <1>5
<1>7. found \subseteq Listed
  <2>1. \A g \in Page(kind, txn[p].page) : g \in Guids /\ platform[g] \in V3Org
    BY <1>1, <1>5, Shapes
  <2>2. now \in Time
    BY <1>1 DEF TypeOK
  <2> QED
    BY <1>2, <2>1, <2>2 DEF Listed, V3Org
<1>8. NextPage(kind, txn[p].page) \in Nat
  BY <1>1 DEF NextPage, Transaction
<1>9. /\ t \in Transaction /\ t.kinds = txn[p].kinds /\ t.rows = txn[p].rows
      /\ t.insert = txn[p].insert /\ t.listed = txn[p].listed \cup found
  BY <1>1, <1>3, <1>7, <1>8 DEF Transaction
<1>10. TypeOK'
  BY <1>1, <1>4, <1>9, TxnTypes DEF ListPage
<1>11. OwnStep(p) /\ txn'[p] = t
  BY <1>1, <1>4 DEF OwnStep, TypeOK, ListPage
<1>12. txn[p].kinds # <<>> /\ Head(txn[p].kinds) = kind
  BY DEF ListPage, Collecting
<1>13. ListedInv(p) /\ InsertInv(p) /\ UNCHANGED <<platform, gone, history>>
  BY <1>1, <1>11 DEF IInv, TxnInv, OwnStep
<1>14. ListedInv(p)'
  BY <1>6, <1>9, <1>11, <1>12, <1>13 DEF ListedInv, Known
<1>15. InsertInv(p)'
  BY <1>9, <1>11, <1>13 DEF InsertInv, Known, HasService, Seen
<1> QED
  BY <1>1, <1>9, <1>10, <1>11, <1>14, <1>15, ReadStep

(* The listed entity e is taken off, and its row is to be inserted next.   *)
LEMMA PrepareStep ==
  ASSUME IInv, NEW p \in Processes, txn[p] # Idle, NEW e \in txn[p].listed,
         NEW rows \in SUBSET Version, Prepare(p, e, rows),
         \A r \in rows : /\ r.guid = e.guid
                         /\ HasService(r, Seen(p))
                         /\ r.from = ValidFrom(p, e)
  PROVE  IInv'
<1>1. TypeOK /\ txn[p] \in Transaction
  BY Shapes DEF IInv
<1>2. PICK t : t = [txn[p] EXCEPT !.listed = @ \ {e}, !.insert = rows]
  OBVIOUS
<1>3. txn' = [txn EXCEPT ![p] = t]
  BY <1>1, <1>2 DEF Prepare, TypeOK
<1>4. /\ t \in Transaction /\ t.kinds = txn[p].kinds /\ t.rows = txn[p].rows
      /\ t.insert = rows /\ t.listed = txn[p].listed \ {e}
  BY <1>1, <1>2 DEF Transaction
<1>5. TypeOK'
  BY <1>1, <1>3, <1>4, TxnTypes DEF Prepare
<1>6. OwnStep(p) /\ txn'[p] = t /\ UNCHANGED <<platform, gone, history>>
  BY <1>1, <1>3 DEF OwnStep, TypeOK, Prepare
<1>7. ListedInv(p)
  BY DEF IInv, TxnInv
<1>8. ListedInv(p)'
  BY <1>4, <1>6, <1>7 DEF ListedInv, Known
<1>9. Seen(p)' = Seen(p)
  BY <1>4, <1>6 DEF Seen
<1>10. ASSUME NEW r \in rows
       PROVE  /\ Known(r.guid)
              /\ r.guid \in DOMAIN platform =>
                   r.from = platform[r.guid].created \/ \E s \in Seen(p) : s.guid = r.guid
  <2>1. Known(e.guid) /\ (e.guid \in DOMAIN platform => e.created = platform[e.guid].created)
    BY <1>7 DEF ListedInv
  <2>2. r.guid = e.guid /\ r.from = ValidFrom(p, e)
    OBVIOUS
  <2>3. CASE Visible(p, e.guid) = {}
    BY <2>1, <2>2, <2>3 DEF ValidFrom
  <2>4. CASE Visible(p, e.guid) # {}
    <3>1. \E s \in Seen(p) : s.guid = e.guid
      BY <2>4 DEF Visible, Seen
    <3> QED
      BY <2>1, <2>2, <3>1
  <2> QED
    BY <2>3, <2>4
<1>11. InsertInv(p)'
  BY <1>4, <1>6, <1>9, <1>10 DEF InsertInv, Known, HasService
<1> QED
  BY <1>4, <1>5, <1>6, <1>8, <1>11, ReadStep

LEMMA PlainStep ==
  ASSUME GuidsAssumption, IInv, NEW p \in Processes, txn[p] # Idle,
         NEW kind \in {"services", "orgs", "spaces"}, Plain(p, kind)
  PROVE  IInv'
<1>1. PICK e \in txn[p].listed : Due(p, kind, e) /\ Prepare(p, e, {VersionOf(p, e, None)})
  BY DEF Plain
<1>2. TypeOK /\ txn[p] \in Transaction /\ ListedInv(p)
  BY Shapes DEF IInv, TxnInv
<1>3. PICK row : row = VersionOf(p, e, None)
  OBVIOUS
<1>4. e \in Listed
  BY <1>2 DEF Transaction
<1>5. row \in Version /\ row.guid = e.guid /\ row.from = ValidFrom(p, e)
  BY <1>3, <1>4 DEF VersionOf, ValidFrom, Version, Listed
<1>6. e.guid \notin Plans
  BY <1>1, <1>2, KindsApart DEF ListedInv, Due, Collecting
<1>7. HasService(row, Seen(p))
  BY <1>5, <1>6 DEF HasService
<1>8. {row} \in SUBSET Version /\ Prepare(p, e, {row})
  BY <1>1, <1>3, <1>5
<1> QED
  BY <1>5, <1>7, <1>8, PrepareStep

LEMMA collectServicePlansStep ==
  ASSUME GuidsAssumption, IInv, NEW p \in Processes, collectServicePlans(p)
  PROVE  IInv'
<1>1. txn[p] # Idle
  BY DEF collectServicePlans
<1>2. PICK e \in txn[p].listed :
        /\ Due(p, "service_plans", e)
        /\ Prepare(p, e, {VersionOf(p, e, from) : from \in ServiceFrom(p, e)})
  BY DEF collectServicePlans
<1>3. PICK rows : rows = {VersionOf(p, e, from) : from \in ServiceFrom(p, e)}
  OBVIOUS
<1>4. TypeOK /\ txn[p] \in Transaction
  BY <1>1, Shapes DEF IInv
<1>5. e \in Listed /\ history \cup txn[p].rows \subseteq Version
  BY <1>4 DEF Transaction, TypeOK
<1>6. \A from \in ServiceFrom(p, e) :
        \E s \in Seen(p) : s.guid = ServiceOf[e.guid] /\ s.from = from /\ s \in Version
  BY <1>5 DEF ServiceFrom, Visible, Seen
<1>7. ASSUME NEW r \in rows
      PROVE  r \in Version /\ r.guid = e.guid /\ HasService(r, Seen(p)) /\ r.from = ValidFrom(p, e)
  <2>1. PICK from \in ServiceFrom(p, e) : r = VersionOf(p, e, from)
    BY <1>3
  <2>2. PICK s \in Seen(p) : s.guid = ServiceOf[e.guid] /\ s.from = from /\ s \in Version
    BY <1>6
  <2>3. from \in Time
    BY <2>2 DEF Version, Time, None
  <2>4. r \in Version /\ r.guid = e.guid /\ r.from = ValidFrom(p, e) /\ r.serviceFrom = from
    BY <1>5, <2>1, <2>3 DEF VersionOf, ValidFrom, Version, Listed
  <2>5. HasService(r, Seen(p))
    BY <2>2, <2>4 DEF HasService
  <2> QED
    BY <2>4, <2>5
<1>8. rows \in SUBSET Version /\ Prepare(p, e, rows)
  BY <1>2, <1>3, <1>7
<1> QED
  BY <1>1, <1>7, <1>8, PrepareStep

LEMMA InsertStep ==
  ASSUME IInv, NEW p \in Processes, Insert(p)
  PROVE  IInv'
<1>1. PICK r \in txn[p].insert :
        /\ \A q \in Processes \ {p} : txn[q] # Idle =>
             \A s \in txn[q].rows : <<s.guid, s.from>> # <<r.guid, r.from>>
        /\ txn' = [txn EXCEPT ![p].insert = {}, ![p].rows = OnConflict(p, r)]
  BY DEF Insert
<1>2. TypeOK /\ txn[p] # Idle /\ txn[p] \in Transaction
  BY Shapes DEF IInv, Insert
<1>3. PICK rows : rows = OnConflict(p, r)
  OBVIOUS
<1>4. PICK t : t = [txn[p] EXCEPT !.insert = {}, !.rows = rows]
  OBVIOUS
<1>5. txn' = [txn EXCEPT ![p] = t]
  BY <1>1, <1>2, <1>3, <1>4 DEF TypeOK
<1>6. txn[p].rows \subseteq rows /\ rows \subseteq txn[p].rows \cup {r}
  BY <1>3 DEF OnConflict
<1>7. r \in rows \/ \E s \in Seen(p) : SameKey(r, s)
  BY <1>3 DEF OnConflict, Visible, Seen, SameKey
<1>8. r \in rows => r \in txn[p].rows \/ \A s \in Seen(p) : ~SameKey(r, s)
  BY <1>3 DEF OnConflict, Visible, Seen, SameKey
<1>9. /\ t \in Transaction /\ t.kinds = txn[p].kinds /\ t.rows = rows
      /\ t.insert = {} /\ t.listed = txn[p].listed
  BY <1>2, <1>4, <1>6 DEF Transaction
<1>10. TypeOK'
  BY <1>2, <1>5, <1>9, TxnTypes DEF Insert
<1>11. OwnStep(p) /\ txn'[p] = t /\ UNCHANGED <<platform, gone, history>>
  BY <1>2, <1>5 DEF OwnStep, TypeOK, Insert
<1>12. ListedInv(p) /\ InsertInv(p) /\ RowsInv(p)
  BY <1>2 DEF IInv, TxnInv
<1>13. ListedInv(p)' /\ InsertInv(p)'
  BY <1>9, <1>11, <1>12 DEF ListedInv, Known, InsertInv
<1>14. Seen(p)' = history \cup rows /\ Seen(p) \subseteq history \cup rows
       /\ history \cup rows \subseteq Seen(p) \cup {r}
  BY <1>6, <1>9, <1>11 DEF Seen
<1>15. \A x \in rows : Known(x.guid)' /\ HasService(x, Seen(p))'
  BY <1>6, <1>11, <1>12, <1>14 DEF RowsInv, InsertInv, Known, HasService
<1>16. OneRowPerKey(Seen(p))'
  BY <1>8, <1>12, <1>14 DEF RowsInv, OneRowPerKey, SameKey, Seen
<1>17. ASSUME NEW g \in DOMAIN platform PROVE Begins(history \cup rows, g)
  <2>1. CASE \E s \in Seen(p) : s.guid = g
    BY <1>12, <1>14, <2>1 DEF RowsInv, Begins
  <2>2. CASE ~ \E s \in Seen(p) : s.guid = g
    BY <1>12, <1>14, <2>2 DEF InsertInv, Begins
  <2> QED
    BY <2>1, <2>2
<1>18. RowsInv(p)'
  BY <1>9, <1>11, <1>14, <1>15, <1>16, <1>17 DEF RowsInv, Begins
<1>19. \A q \in Processes \ {p} : KeysApart(p, q)'
  <2> TAKE q \in Processes \ {p}
  <2>1. txn'[q] = txn[q] /\ KeysApart(p, q)
    BY <1>11 DEF OwnStep, IInv
  <2>2. ASSUME txn[q] # Idle, NEW s \in txn[q].rows PROVE ~SameKey(r, s)
    BY <1>1, <2>2 DEF SameKey
  <2>3. ASSUME txn[q] # Idle, NEW x \in rows, NEW s \in txn[q].rows PROVE ~SameKey(x, s)
    <3>1. CASE x = r
      BY <2>2, <2>3, <3>1
    <3>2. CASE x # r
      BY <1>2, <1>6, <2>1, <2>3, <3>2 DEF KeysApart
    <3> QED
      BY <3>1, <3>2
  <2> QED
    BY <1>9, <1>11, <2>1, <2>3 DEF KeysApart, SameKey
<1> QED
  BY <1>10, <1>11, <1>13, <1>18, <1>19, TxnStep DEF TxnInv

LEMMA NextKindStep ==
  ASSUME IInv, NEW p \in Processes, NextKind(p)
  PROVE  IInv'
<1>1. TypeOK /\ txn[p] # Idle /\ txn[p] \in Transaction
  BY Shapes DEF IInv, NextKind
<1>2. PICK t : t = [txn[p] EXCEPT !.kinds = Tail(@), !.page = 1]
  OBVIOUS
<1>3. txn' = [txn EXCEPT ![p] = t]
  BY <1>1, <1>2 DEF NextKind, TypeOK
<1>4. Tail(txn[p].kinds) \in Seq(Range(KindNames))
  <2>1. txn[p].kinds \in Seq(Range(KindNames)) /\ txn[p].kinds # <<>>
    BY <1>1 DEF Transaction, NextKind
  <2> QED
    BY <2>1
<1>5. t \in Transaction /\ t.rows = txn[p].rows /\ t.insert = {} /\ t.listed = {}
  BY <1>1, <1>2, <1>4 DEF Transaction, NextKind
<1>6. TypeOK'
  BY <1>1, <1>3, <1>5, TxnTypes DEF NextKind
<1>7. OwnStep(p) /\ txn'[p] = t
  BY <1>1, <1>3 DEF OwnStep, TypeOK, NextKind
<1>8. ListedInv(p)' /\ InsertInv(p)'
  BY <1>5, <1>7 DEF ListedInv, InsertInv
<1> QED
  BY <1>1, <1>5, <1>6, <1>7, <1>8, ReadStep

(* A failure takes nothing away but what was not committed.                *)
LEMMA FailStep ==
  ASSUME ParametersAssumption, IInv, NEW p \in Processes, Fail(p) \/ Crash(p)
  PROVE  IInv'
<1>1. TypeOK
  BY DEF IInv
<1>2. /\ txn' = [txn EXCEPT ![p] = Idle]
      /\ UNCHANGED <<now, platform, gone, history, polled>>
      /\ failures < MaxFailures /\ failures' = failures + 1
      /\ \/ turn' = [turn EXCEPT ![p] = IF @ = 0 THEN 0 ELSE NextTurn(@)]
         \/ turn' = [turn EXCEPT ![p] = 0]
  BY DEF Fail, Crash
<1>3. failures' \in 0 .. MaxFailures
  BY <1>1, <1>2 DEF TypeOK, ParametersAssumption
<1>4. turn' \in [Processes -> 0 .. 4]
  BY <1>1, <1>2, KindFacts DEF TypeOK
<1>5. txn' \in [Processes -> {Idle} \cup Transaction]
  BY <1>1, <1>2 DEF TypeOK
<1>6. TypeOK'
  BY <1>1, <1>2, <1>3, <1>4, <1>5 DEF TypeOK, V3Org, Version
<1>7. OwnStep(p) /\ txn'[p] = Idle
  BY <1>1, <1>2 DEF OwnStep, TypeOK
<1> QED
  BY <1>6, <1>7, EndStep, Zenon

(* What is committed was seen by its transaction with all that was         *)
(* committed before, and no other transaction has inserted its keys.       *)
LEMMA CommitStep ==
  ASSUME ParametersAssumption, IInv, NEW p \in Processes, Commit(p)
  PROVE  IInv'
<1>1. TypeOK /\ txn[p] # Idle /\ txn[p] \in Transaction
  BY Shapes DEF IInv, Commit
<1>2. history' = Seen(p)
  BY DEF Commit, Recorded, Seen
<1>3. /\ UNCHANGED <<now, platform, gone, failures>>
      /\ txn' = [txn EXCEPT ![p] = Idle]
      /\ turn' = [turn EXCEPT ![p] = NextTurn(@)]
  BY DEF Commit
<1>4. txn'[p] = Idle /\ \A q \in Processes \ {p} : txn'[q] = txn[q]
  BY <1>1, <1>3 DEF TypeOK
<1>5. TypeOK'
  <2>1. history' \subseteq Version
    BY <1>1, <1>2 DEF TypeOK, Transaction, Seen
  <2>2. turn' \in [Processes -> 0 .. 4]
    BY <1>1, <1>3, KindFacts DEF TypeOK
  <2>3. txn' \in [Processes -> {Idle} \cup Transaction]
    BY <1>1, <1>3 DEF TypeOK
  <2>4. ASSUME NEW g \in Guids
        PROVE  Max({polled[g]} \cup {e.at : e \in {e \in txn[p].seen : e.guid = g}}) \in Time
    <3>1. PICK T : T = {polled[g]} \cup {e.at : e \in {e \in txn[p].seen : e.guid = g}}
      OBVIOUS
    <3>2. T \subseteq Time /\ T # {}
      BY <1>1, <3>1 DEF TypeOK, Transaction, Listed
    <3>3. Max(T) \in T
      BY <3>2, GreatestNat, ParametersAssumption DEF Max, Time, ParametersAssumption
    <3> QED
      BY <3>1, <3>2, <3>3
  <2>5. polled' \in [Guids -> Time]
    BY <2>4 DEF Commit
  <2> QED
    BY <1>1, <1>3, <2>1, <2>2, <2>3, <2>5 DEF TypeOK, V3Org, Version
<1>6. RowsInv(p) /\ HistoryInv /\ history \subseteq Seen(p)
  BY <1>1 DEF IInv, TxnInv, Seen
<1>7. HistoryInv'
  <2>1. \A r \in Seen(p) : Known(r.guid) /\ HasService(r, Seen(p))
    BY <1>6 DEF RowsInv, HistoryInv, Seen, HasService
  <2> QED
    BY <1>2, <1>3, <1>6, <2>1 DEF RowsInv, HistoryInv, Known, HasService, OneRowPerKey,
         SameKey, Begins
<1>8. ASSUME NEW q \in Processes \ {p}, txn[q] # Idle
      PROVE  TxnInv(q)'
  <2>1. ListedInv(q) /\ InsertInv(q) /\ RowsInv(q) /\ KeysApart(p, q)
    BY <1>8 DEF IInv, TxnInv
  <2>2. Seen(q)' = Seen(p) \cup Seen(q) /\ txn'[q] = txn[q]
    BY <1>2, <1>4 DEF Seen
  <2>3. ListedInv(q)'
    BY <1>3, <2>1, <2>2 DEF ListedInv, Known
  <2>4. InsertInv(q)'
    BY <1>3, <2>1, <2>2 DEF InsertInv, Known, HasService
  <2>5. \A r \in txn[q].rows : Known(r.guid)' /\ HasService(r, Seen(p) \cup Seen(q))
    BY <1>3, <2>1 DEF RowsInv, Known, HasService
  <2>6. OneRowPerKey(Seen(p) \cup Seen(q))
    <3>1. OneRowPerKey(Seen(p)) /\ OneRowPerKey(Seen(q))
      BY <1>6, <2>1 DEF RowsInv
    <3>2. \A r \in txn[p].rows, s \in txn[q].rows : ~SameKey(r, s)
      BY <1>1, <1>8, <2>1 DEF KeysApart
    <3> QED
      BY <3>1, <3>2 DEF OneRowPerKey, SameKey, Seen
  <2>7. \A g \in DOMAIN platform : Begins(Seen(p) \cup Seen(q), g)
    <3>1. \A g \in DOMAIN platform : Begins(Seen(p), g) /\ Begins(Seen(q), g)
      BY <1>6, <2>1 DEF RowsInv
    <3> QED
      BY <3>1 DEF Begins
  <2>8. RowsInv(q)'
    BY <1>3, <2>2, <2>5, <2>6, <2>7 DEF RowsInv, HasService, OneRowPerKey, SameKey, Begins
  <2> QED
    BY <2>3, <2>4, <2>8 DEF TxnInv
<1>9. \A q \in Processes : TxnInv(q)'
  <2> TAKE q \in Processes
  <2>1. CASE txn'[q] = Idle
    BY <2>1 DEF TxnInv
  <2>2. CASE txn'[q] # Idle
    <3>1. q \in Processes \ {p} /\ txn[q] # Idle
      BY <1>4, <2>2
    <3> QED
      BY <1>8, <3>1
  <2> QED
    BY <2>1, <2>2
<1>10. ASSUME NEW q \in Processes, NEW o \in Processes, q # o PROVE KeysApart(q, o)'
  <2>1. CASE txn'[q] = Idle \/ txn'[o] = Idle
    BY <2>1 DEF KeysApart
  <2>2. CASE txn'[q] # Idle /\ txn'[o] # Idle
    <3>1. txn'[q] = txn[q] /\ txn'[o] = txn[o] /\ KeysApart(q, o)
      BY <1>4, <1>10, <2>2 DEF IInv
    <3> QED
      BY <3>1 DEF KeysApart, SameKey
  <2> QED
    BY <2>1, <2>2
<1> QED
  BY <1>5, <1>7, <1>9, <1>10 DEF IInv

------------------------------------------------------------------------------
(* The invariant holds.                                                    *)

LEMMA InitInvariant ==
  ASSUME ParametersAssumption, Init
  PROVE  IInv
<1>1. txn = [p \in Processes |-> Idle] /\ history = {} /\ platform = <<>>
  BY DEF Init
<1>2. TypeOK
  <2>1. platform \in [{} -> V3Org]
    BY <1>1
  <2>2. \E existing \in SUBSET Guids : platform \in [existing -> V3Org]
    BY <2>1
  <2>3. now \in Time /\ failures \in 0 .. MaxFailures /\ gone \subseteq Guids
    BY DEF Init, ParametersAssumption, Time
  <2>4. history \subseteq Version
    BY <1>1
  <2>5. turn \in [Processes -> 0 .. 4]
    BY DEF Init
  <2>6. txn \in [Processes -> {Idle} \cup Transaction]
    BY <1>1
  <2>7. polled \in [Guids -> Time]
    BY DEF Init, ParametersAssumption, Time
  <2> QED
    BY <2>2, <2>3, <2>4, <2>5, <2>6, <2>7, Zenon DEF TypeOK
<1>3. DOMAIN platform = {}
  BY <1>1
<1>4. HistoryInv
  BY <1>1, <1>3 DEF HistoryInv, OneRowPerKey
<1>5. \A p \in Processes : TxnInv(p)
  BY <1>1 DEF TxnInv
<1>6. \A p, q \in Processes : p # q => KeysApart(p, q)
  BY <1>1 DEF KeysApart
<1> QED
  BY <1>2, <1>4, <1>5, <1>6 DEF IInv

LEMMA StutterInvariant ==
  ASSUME IInv, UNCHANGED vars
  PROVE  IInv'
<1>1. TypeOK'
  BY DEF IInv, vars, TypeOK, V3Org, Version
<1>2. UNCHANGED <<platform, gone, history, txn>>
  BY DEF vars
<1> QED
  BY <1>1, <1>2, PlatformStep DEF Known

LEMMA NextInvariant ==
  ASSUME ParametersAssumption, GuidsAssumption, IInv, [Next]_vars
  PROVE  IInv'
<1>1. CASE Tick
  BY <1>1, TickStep
<1>2. ASSUME NEW v \in Values, NEW k \in Range(KindNames), NEW g \in Guids, Create(k, g, v)
      PROVE  IInv'
  BY <1>2, CreateStep
<1>3. ASSUME NEW v \in Values, NEW g \in Guids, Change(g, v) PROVE IInv'
  BY <1>3, ChangeStep
<1>4. ASSUME NEW g \in Guids, Remove(g) PROVE IInv'
  BY <1>4, RemoveStep
<1>5. ASSUME NEW p \in Processes, Step(p) PROVE IInv'
  <2>1. CASE \/ Initialise(p)
             \/ CollectServices(p) \/ CollectServicePlans(p) \/ CollectOrgs(p)
             \/ CollectSpaces(p)
    BY <2>1, CollectStep
  <2>2. CASE ListServices(p) \/ ListServicePlans(p) \/ ListOrgs(p) \/ ListSpaces(p)
    BY <2>2, ListPageStep, KindFacts DEF ListServices, ListServicePlans, ListOrgs, ListSpaces
  <2>3. CASE collectServices(p) \/ collectOrgs(p) \/ collectSpaces(p)
    BY <2>3, PlainStep DEF collectServices, collectOrgs, collectSpaces
  <2>4. CASE collectServicePlans(p)
    BY <2>4, collectServicePlansStep
  <2>5. CASE Insert(p)
    BY <2>5, InsertStep
  <2>6. CASE NextKind(p)
    BY <2>6, NextKindStep
  <2>7. CASE Commit(p)
    BY <2>7, CommitStep
  <2> QED
    BY <1>5, <2>1, <2>2, <2>3, <2>4, <2>5, <2>6, <2>7 DEF Step
<1>6. ASSUME NEW p \in Processes, Fail(p) \/ Crash(p) PROVE IInv'
  BY <1>6, FailStep
<1>7. CASE UNCHANGED vars
  BY <1>7, StutterInvariant
<1> QED
  BY <1>1, <1>2, <1>3, <1>4, <1>5, <1>6, <1>7 DEF Next

(* The invariant holds in every reachable state, whatever the processes,   *)
(* the entities, the pages and the bounds.                                 *)
THEOREM Invariance ==
  ASSUME ParametersAssumption, GuidsAssumption
  PROVE  Spec => []IInv
<1>1. Init => IInv
  BY InitInvariant
<1>2. IInv /\ [Next]_vars => IInv'
  BY NextInvariant
<1> QED
  BY <1>1, <1>2, PTL DEF Spec

(* The variables keep their types.                                         *)
THEOREM TypeCorrect ==
  ASSUME ParametersAssumption, GuidsAssumption
  PROVE  Spec => []TypeOK
<1>1. IInv => TypeOK
  BY DEF IInv
<1>2. Spec => []IInv
  BY Invariance
<1> QED
  BY <1>1, <1>2, PTL

(* Every committed version of a plan refers to a committed version of its  *)
(* service, whatever failed, and whoever else was collecting.              *)
THEOREM PlansKeepServices ==
  ASSUME ParametersAssumption, GuidsAssumption
  PROVE  Spec => []PlansHaveServices
<1>1. IInv => PlansHaveServices
  BY DEF IInv, HistoryInv, HasService, PlansHaveServices, Versions
<1>2. Spec => []IInv
  BY Invariance
<1> QED
  BY <1>1, <1>2, PTL

------------------------------------------------------------------------------
(* What the rows say of an entity.                                         *)

(* The first version is valid, and counts from the creation or before.     *)
LEMMA FirstVersion ==
  ASSUME ParametersAssumption, IInv, NEW g \in DOMAIN platform, Versions(g) # {}
  PROVE  \E r \in Valid(g) : r.from =< platform[g].created
<1>1. \A r \in Versions(g) : r.guid = g /\ r.from \in Nat
  BY DEF IInv, TypeOK, Versions, Version, Time, ParametersAssumption
<1>2. PICK born \in Versions(g) : born.from = platform[g].created
  BY DEF IInv, HistoryInv, Begins, Versions
<1>3. PICK times \in SUBSET Nat : times = {r.from : r \in Versions(g)}
  BY <1>1
<1>4. PICK n \in times : \A m \in times : n =< m
  <2>1. times # {}
    BY <1>2, <1>3
  <2> QED
    BY <2>1, LeastNat
<1>5. PICK first \in Versions(g) : first.from = n
  BY <1>3, <1>4
<1>6. \A r \in Versions(g) : first.from =< r.from
  BY <1>3, <1>4, <1>5
<1>7. Before(first) = {}
  BY <1>1, <1>6 DEF Before
<1>8. first \in Valid(g)
  BY <1>7 DEF Valid, not_redundant
<1> QED
  BY <1>2, <1>6, <1>8

(* Where a version is valid, one is in force, and one only.                *)
LEMMA OneInForce ==
  ASSUME ParametersAssumption, TypeOK, OneRowPerKey(history), NEW g, NEW t \in Nat,
         NEW v \in Valid(g), v.from =< t
  PROVE  \E r \in Valid(g) :
           {s \in Valid(g) : s.from =< t /\ \A u \in Valid(g) : u.from =< s.from \/ t < u.from} = {r}
<1>1. /\ \A r \in Valid(g) : r \in history /\ r.guid = g /\ r.from \in Time
      /\ \A r, s \in Valid(g) : r.from = s.from => r = s
  BY DEF TypeOK, Valid, Versions, Version, OneRowPerKey, SameKey
<1>2. \A r \in Valid(g) : r.from \in 0 .. MaxTime /\ r.from \in Nat /\ MaxTime \in Nat
  BY <1>1 DEF Time, ParametersAssumption
<1>3. PICK times \in SUBSET (0 .. MaxTime) : times = {r.from : r \in {s \in Valid(g) : s.from =< t}}
  BY <1>2
<1>4. v.from \in times
  BY <1>3
<1>5. PICK n \in times : \A m \in times : n >= m
  BY <1>2, <1>4, GreatestNat
<1>6. PICK r \in Valid(g) : r.from =< t /\ r.from = n
  BY <1>3, <1>5
<1>7. \A u \in Valid(g) : u.from =< t => u.from =< r.from
  BY <1>3, <1>5, <1>6
<1>8. \A u \in Valid(g) : u.from =< r.from \/ t < u.from
  BY <1>2, <1>7
<1>9. ASSUME NEW s \in Valid(g), s.from =< t,
             \A u \in Valid(g) : u.from =< s.from \/ t < u.from
      PROVE  s = r
  <2>1. s.from =< r.from /\ (r.from =< s.from \/ t < r.from)
    BY <1>7, <1>9
  <2>2. s.from = r.from
    BY <1>2, <1>6, <2>1
  <2> QED
    BY <1>1, <2>2
<1> QED
  BY <1>6, <1>8, <1>9

(* From its creation on, an entity with a version has one value at every   *)
(* time, whoever collected it first and however old the listing was.       *)
THEOREM KnownSinceCreation ==
  ASSUME ParametersAssumption, GuidsAssumption
  PROVE  Spec => []KnownFromCreation
<1>1. IInv => KnownFromCreation
  <2> SUFFICES ASSUME IInv, NEW g \in DOMAIN platform, Versions(g) # {},
                      NEW t \in platform[g].created .. MaxTime
               PROVE  Cardinality(ValueAt(g, t)) = 1
    BY DEF KnownFromCreation
  <2>1. TypeOK /\ OneRowPerKey(history)
    BY DEF IInv, HistoryInv
  <2>2. platform[g].created \in Nat /\ t \in Nat /\ platform[g].created =< t
    BY <2>1, Shapes DEF V3Org, Time
  <2>3. PICK v \in Valid(g) : v.from =< platform[g].created
    BY FirstVersion
  <2>4. v.from =< t
    <3>1. v.from \in Nat
      BY <2>1 DEF TypeOK, Valid, Versions, Version, Time
    <3> QED
      BY <2>2, <2>3, <3>1
  <2>5. PICK r \in Valid(g) :
          {s \in Valid(g) : s.from =< t /\ \A u \in Valid(g) : u.from =< s.from \/ t < u.from} = {r}
    BY <2>1, <2>2, <2>4, OneInForce
  <2>6. ValueAt(g, t) = {r.value}
    BY <2>5 DEF ValueAt
  <2> QED
    BY <2>6, FS_Singleton
<1>2. Spec => []IInv
  BY Invariance
<1> QED
  BY <1>1, <1>2, PTL
------------------------------------------------------------------------------
(* One process: the past is settled.                                       *)
(*                                                                         *)
(* A listing is later than the last one committed, an entity is on one of  *)
(* its pages only, and either it has changed since the last listing, or    *)
(* its row repeats the newest version: it is dropped as a conflict or as   *)
(* redundant.                                                              *)

OneProcess == \A p, q \in Processes : p = q

OfGuid(rows, g) == {r \in rows : r.guid = g}

Newest(rows, g) == {r \in OfGuid(rows, g) : \A s \in OfGuid(rows, g) : s.from =< r.from}

(* A row of g at time u with value v adds nothing to rows.                 *)
Repeats(rows, g, u, v) ==
  \A r \in Newest(rows, g) : r.from =< u /\ (r.from = u \/ r.value = v)

Rank(kind, g) == Cardinality({h \in OfKind(kind) \cap DOMAIN platform : h =< g})

(* What the platform says of g, and what is recorded of it.                *)
EntityInv(g) ==
  LET e == platform[g]
  IN /\ e.created =< e.updated
     /\ e.updated =< now
     /\ \A r \in OfGuid(history, g) : r.from =< e.updated
     /\ polled[g] =< e.updated \/ Repeats(history, g, e.updated, e.value)

(* The API lists the entities of a kind in the order of their creation.    *)
CreatedInOrder ==
  \A kind \in Range(KindNames) : \A g, h \in OfKind(kind) :
    Known(g) /\ h < g => Known(h)

(* What has been listed in this transaction.                               *)
SeenInv(e) ==
  /\ Known(e.guid)
  /\ e.created =< e.updated /\ e.updated =< e.at /\ e.at =< now
  /\ polled[e.guid] =< e.at
  /\ e.guid \in DOMAIN platform =>
       \/ e.at =< platform[e.guid].updated
       \/ platform[e.guid].updated = e.updated /\ platform[e.guid].value = e.value
  /\ \A r \in OfGuid(history, e.guid) : r.from =< e.updated
  /\ polled[e.guid] =< e.updated \/ Repeats(history, e.guid, e.updated, e.value)

OnePage(p) == \A e, f \in txn[p].seen : e.guid = f.guid => e = f

(* The row of a listed entity e.                                           *)
RowOf(r, e, rows) ==
  /\ r.guid = e.guid /\ r.value = e.value
  /\ r.from = e.updated \/ (r.from = e.created /\ OfGuid(rows, r.guid) = {})

(* The row to insert next, and those inserted.                             *)
Sources(p) ==
  /\ txn[p].listed \subseteq txn[p].seen
  /\ txn[p].insert # {} =>
       /\ txn[p].kinds # <<>>
       /\ \E e \in txn[p].seen \ txn[p].listed : \A r \in txn[p].insert :
            RowOf(r, e, history) /\ OfGuid(txn[p].rows, r.guid) = {}
  /\ \A r \in txn[p].rows : \E e \in txn[p].seen \ txn[p].listed :
       RowOf(r, e, history) /\ OfGuid(txn[p].rows, r.guid) = {r}

(* An entity that has been written is the newest version, or was skipped.  *)
Written(p) ==
  \A e \in txn[p].seen \ txn[p].listed :
    \/ \E r \in txn[p].insert : r.guid = e.guid
    \/ Repeats(Seen(p), e.guid, e.updated, e.value)

(* Each kind is listed once, page by page.                                 *)
PageByPage(p) ==
  LET kinds == txn[p].kinds
      page == txn[p].page
  IN /\ \A i, j \in 1 .. Len(kinds) : kinds[i] = kinds[j] => i = j
     /\ \A i \in 2 .. Len(kinds) : \A e \in txn[p].seen : e.guid \notin OfKind(kinds[i])
     /\ kinds # <<>> /\ page > 0 =>
          \A e \in txn[p].seen :
            e.guid \in OfKind(Head(kinds)) \cap DOMAIN platform =>
              Rank(Head(kinds), e.guid) =< (page - 1) * PageSize

ListingInv(p) ==
  txn[p] # Idle =>
    /\ \A e \in txn[p].seen : SeenInv(e)
    /\ OnePage(p)
    /\ Sources(p)
    /\ Written(p)
    /\ PageByPage(p)

SettledInv ==
  /\ \A g \in Guids : polled[g] =< now
  /\ \A g \in DOMAIN platform : EntityInv(g)
  /\ CreatedInOrder
  /\ \A p \in Processes : ListingInv(p)

(* The numbers of a state.                                                 *)
LEMMA Times ==
  ASSUME ParametersAssumption, TypeOK
  PROVE  /\ now \in Nat
         /\ \A g \in Guids : polled[g] \in Nat
         /\ \A g \in DOMAIN platform : platform[g].created \in Nat /\ platform[g].updated \in Nat
         /\ \A r \in history : r.guid \in Guids /\ r.from \in Nat
         /\ \A p \in Processes : txn[p] # Idle =>
              /\ txn[p].page \in Nat /\ txn[p].kinds \in Seq(Range(KindNames))
              /\ \A e \in txn[p].seen : /\ e.guid \in Guids /\ e.created \in Nat
                                        /\ e.updated \in Nat /\ e.at \in Nat
              /\ \A r \in txn[p].rows \cup txn[p].insert : r.guid \in Guids /\ r.from \in Nat
<1>1. Time \subseteq Nat
  BY DEF Time, ParametersAssumption
<1>2. \A r \in Version : r.guid \in Guids /\ r.from \in Nat
  BY <1>1 DEF Version
<1>3. \A e \in Listed : e.guid \in Guids /\ e.created \in Nat /\ e.updated \in Nat /\ e.at \in Nat
  BY <1>1 DEF Listed
<1>4. \A g \in DOMAIN platform : platform[g].created \in Nat /\ platform[g].updated \in Nat
  BY <1>1, Shapes DEF V3Org
<1>5. now \in Nat /\ (\A g \in Guids : polled[g] \in Nat) /\ history \subseteq Version
  BY <1>1 DEF TypeOK
<1>6. ASSUME NEW p \in Processes, txn[p] # Idle
      PROVE  /\ txn[p].page \in Nat /\ txn[p].kinds \in Seq(Range(KindNames))
             /\ txn[p].seen \subseteq Listed /\ txn[p].rows \cup txn[p].insert \subseteq Version
  BY <1>6, Shapes DEF Transaction
<1> QED
  BY <1>2, <1>3, <1>4, <1>5, <1>6

LEMMA OneKindEach ==
  ASSUME GuidsAssumption
  PROVE  \A kind, other \in Range(KindNames) :
           kind # other => OfKind(kind) \cap OfKind(other) = {}
BY KindFacts, KindsApart DEF GuidsAssumption

(* The fewer there are, the fewer come before g.                           *)
LEMMA FewerBefore ==
  ASSUME NEW S \in SUBSET Nat, NEW T \in SUBSET S, NEW g \in Nat
  PROVE  /\ Cardinality({h \in S : h =< g}) \in Nat
         /\ Cardinality({h \in T : h =< g}) \in Nat
         /\ Cardinality({h \in T : h =< g}) =< Cardinality({h \in S : h =< g})
<1>1. IsFiniteSet(0 .. g)
  BY FS_Interval
<1>2. \A h \in Nat : h =< g => h \in 0 .. g
  OBVIOUS
<1> DEFINE few == {h \in T : h =< g}
           all == {h \in S : h =< g}
<1>3. all \subseteq 0 .. g /\ few \subseteq all
  BY <1>2
<1> HIDE DEF few, all
<1>4. IsFiniteSet(all)
  BY <1>1, <1>3, FS_Subset
<1>5. IsFiniteSet(few) /\ Cardinality(few) =< Cardinality(all)
  BY <1>3, <1>4, FS_Subset
<1>6. Cardinality(few) \in Nat /\ Cardinality(all) \in Nat
  BY <1>4, <1>5, FS_CardinalityType
<1> QED
  BY <1>5, <1>6 DEF few, all

------------------------------------------------------------------------------
(* Steps of the platform.                                                  *)

(* Ranks do not grow, and what changes is of now.                          *)
LEMMA PlatformGoesOn ==
  ASSUME ParametersAssumption, IInv, TypeOK', SettledInv,
         UNCHANGED <<history, txn, polled>>, now =< now',
         \A g : Known(g) => Known(g)',
         CreatedInOrder',
         \A g \in DOMAIN platform' : EntityInv(g)',
         \A g \in DOMAIN platform' : Known(g) =>
           g \in DOMAIN platform /\ (platform'[g] = platform[g] \/ now =< platform'[g].updated),
         \A kind \in Range(KindNames), g \in DOMAIN platform', n \in Nat :
           Known(g) /\ g \in OfKind(kind) /\ Rank(kind, g) =< n => Rank(kind, g)' =< n
  PROVE  SettledInv'
<1>1. TypeOK
  BY DEF IInv
<1>2. now \in Nat /\ now' \in Nat
  BY <1>1, Times DEF TypeOK, Time, ParametersAssumption
<1>3. \A g \in Guids : polled'[g] =< now'
  BY <1>1, <1>2, Times DEF SettledInv
<1>4. ASSUME NEW p \in Processes, txn[p] # Idle
      PROVE  /\ \A e \in txn[p].seen : SeenInv(e)'
             /\ OnePage(p)' /\ Sources(p)' /\ Written(p)' /\ PageByPage(p)'
  <2>1. /\ \A e \in txn[p].seen : SeenInv(e)
        /\ OnePage(p) /\ Sources(p) /\ Written(p) /\ PageByPage(p)
        /\ txn'[p] = txn[p]
    BY <1>4 DEF SettledInv, ListingInv
  <2>2. ASSUME NEW e \in txn[p].seen PROVE SeenInv(e)'
    <3>1. SeenInv(e) /\ e.at \in Nat /\ e.guid \in Guids
      BY <1>1, <1>4, <2>1, Times
    <3>2. e.at =< now' /\ Known(e.guid)'
      BY <1>2, <3>1 DEF SeenInv
    <3>3. ASSUME e.guid \in DOMAIN platform'
          PROVE  \/ e.at =< platform'[e.guid].updated
                 \/ platform'[e.guid].updated = e.updated /\ platform'[e.guid].value = e.value
      <4>1. e.guid \in DOMAIN platform /\ Known(e.guid)
        BY <3>1, <3>3 DEF SeenInv
      <4>2. CASE platform'[e.guid] = platform[e.guid]
        BY <3>1, <4>1, <4>2 DEF SeenInv
      <4>3. CASE now =< platform'[e.guid].updated
        <5>1. platform'[e.guid].updated \in Nat
          <6>1. PICK existing : platform' \in [existing -> V3Org]
            BY DEF TypeOK, V3Org
          <6> QED
            BY <3>3, <6>1 DEF V3Org, Time, ParametersAssumption
        <5> QED
          BY <1>2, <3>1, <4>3, <5>1 DEF SeenInv
      <4> QED
        BY <3>3, <4>1, <4>2, <4>3
    <3> QED
      BY <3>1, <3>2, <3>3 DEF SeenInv, OfGuid, Repeats, Newest
  <2>3. OnePage(p)'
    BY <2>1 DEF OnePage
  <2>4. Sources(p)'
    BY <2>1 DEF Sources, RowOf, OfGuid
  <2>5. Written(p)'
    BY <2>1 DEF Written, Repeats, Newest, OfGuid, Seen
  <2>6. PageByPage(p)'
    <3>1. /\ txn[p].page \in Nat /\ txn[p].kinds \in Seq(Range(KindNames)) /\ PageSize \in Nat
      BY <1>1, <1>4, Times DEF ParametersAssumption
    <3>2. ASSUME txn[p].kinds # <<>>, txn[p].page > 0, NEW e \in txn[p].seen,
                 e.guid \in OfKind(Head(txn[p].kinds)), e.guid \in DOMAIN platform'
          PROVE  Rank(Head(txn[p].kinds), e.guid)' =< (txn[p].page - 1) * PageSize
      <4>1. Known(e.guid)
        BY <2>1 DEF SeenInv
      <4>2. e.guid \in DOMAIN platform
        BY <3>2, <4>1
      <4>3. Rank(Head(txn[p].kinds), e.guid) =< (txn[p].page - 1) * PageSize
        BY <2>1, <3>2, <4>2 DEF PageByPage
      <4>4. (txn[p].page - 1) * PageSize \in Nat
        BY <3>1, <3>2
      <4>5. Head(txn[p].kinds) \in Range(KindNames)
        BY <3>1, <3>2
      <4> QED
        BY <3>2, <4>1, <4>3, <4>4, <4>5
    <3> QED
      BY <2>1, <3>2 DEF PageByPage
  <2> QED
    BY <2>1, <2>2, <2>3, <2>4, <2>5, <2>6
<1>5. \A p \in Processes : ListingInv(p)'
  BY <1>4 DEF ListingInv
<1> QED
  BY <1>3, <1>5 DEF SettledInv

LEMMA TickSettled ==
  ASSUME ParametersAssumption, IInv, TypeOK', SettledInv, Tick
  PROVE  SettledInv'
<1>1. TypeOK /\ now' = now + 1 /\ UNCHANGED <<platform, gone, history, txn, polled>>
  BY DEF IInv, Tick
<1>2. now \in Nat /\ now' \in Nat /\ now =< now'
  BY <1>1, Times
<1>3. \A g \in DOMAIN platform' : EntityInv(g)'
  <2> TAKE g \in DOMAIN platform'
  <2>1. EntityInv(g) /\ platform[g].updated \in Nat
    BY <1>1, Times DEF SettledInv
  <2> QED
    BY <1>1, <1>2, <2>1 DEF EntityInv, OfGuid, Repeats, Newest
<1>4. \A g : Known(g)' = Known(g)
  BY <1>1 DEF Known
<1>5. CreatedInOrder'
  BY <1>4 DEF SettledInv, CreatedInOrder
<1>6. \A kind, g : Rank(kind, g)' = Rank(kind, g)
  BY <1>1 DEF Rank
<1>7. \A g : Known(g) => Known(g)'
  BY <1>4
<1>8. \A g \in DOMAIN platform' : Known(g) =>
        g \in DOMAIN platform /\ (platform'[g] = platform[g] \/ now =< platform'[g].updated)
  BY <1>1
<1>9. \A kind \in Range(KindNames), g \in DOMAIN platform', n \in Nat :
        Known(g) /\ g \in OfKind(kind) /\ Rank(kind, g) =< n => Rank(kind, g)' =< n
  BY <1>6
<1> QED
  BY <1>1, <1>2, <1>3, <1>5, <1>7, <1>8, <1>9, PlatformGoesOn

LEMMA CreateSettled ==
  ASSUME ParametersAssumption, GuidsAssumption, IInv, TypeOK', SettledInv,
         NEW v \in Values, NEW k \in Range(KindNames), NEW g \in Guids, Create(k, g, v)
  PROVE  SettledInv'
<1>1. TypeOK /\ UNCHANGED <<now, gone, history, txn, polled>>
  BY DEF IInv, Create
<1>2. PICK new : new = [created |-> now, updated |-> now, value |-> v]
  OBVIOUS
<1>3. platform' = [h \in DOMAIN platform \cup {g} |-> IF h = g THEN new ELSE platform[h]]
  BY <1>2 DEF Create
<1>4. /\ DOMAIN platform' = DOMAIN platform \cup {g} /\ platform'[g] = new
      /\ \A h \in DOMAIN platform : h # g => platform'[h] = platform[h]
  BY <1>3
<1>5. g \in OfKind(k) /\ ~Known(g) /\ \A h \in OfKind(k) : h < g => Known(h)
  BY DEF Create, Known
<1>6. \A h : Known(h)' <=> Known(h) \/ h = g
  BY <1>1, <1>4 DEF Known
<1>7. now \in Nat /\ now =< now'
  BY <1>1, Times
<1>8. OfGuid(history, g) = {}
  BY <1>5 DEF IInv, HistoryInv, OfGuid
<1>9. \A h \in DOMAIN platform' : EntityInv(h)'
  <2> TAKE h \in DOMAIN platform'
  <2>1. CASE h = g
    BY <1>1, <1>2, <1>4, <1>7, <1>8, <2>1 DEF EntityInv, Repeats, Newest, OfGuid
  <2>2. CASE h # g
    BY <1>1, <1>4, <2>2 DEF SettledInv, EntityInv, Repeats, Newest, OfGuid
  <2> QED
    BY <2>1, <2>2
<1>10. CreatedInOrder'
  <2> SUFFICES ASSUME NEW kind \in Range(KindNames), NEW h \in OfKind(kind),
                      NEW l \in OfKind(kind), Known(h)', l < h
               PROVE  Known(l)'
    BY DEF CreatedInOrder
  <2>1. CASE h = g
    BY <1>5, <1>6, <2>1, OneKindEach
  <2>2. CASE h # g
    BY <1>6, <2>2 DEF SettledInv, CreatedInOrder
  <2> QED
    BY <2>1, <2>2
<1>11. ASSUME NEW kind \in Range(KindNames), NEW h \in DOMAIN platform', NEW n \in Nat,
              Known(h), h \in OfKind(kind), Rank(kind, h) =< n
       PROVE  Rank(kind, h)' =< n
  <2>1. ASSUME g \in OfKind(kind) PROVE ~(g =< h)
    <3>1. g # h /\ (g < h => Known(g))
      BY <1>5, <1>11, <2>1 DEF SettledInv, CreatedInOrder
    <3>2. g \in Nat /\ h \in Nat
      BY <1>1, <1>4, Shapes DEF GuidsAssumption
    <3> QED
      BY <1>5, <3>1, <3>2
  <2>2. {l \in OfKind(kind) \cap DOMAIN platform' : l =< h}
          = {l \in OfKind(kind) \cap DOMAIN platform : l =< h}
    BY <1>4, <2>1
  <2> QED
    BY <1>11, <2>2 DEF Rank
<1>12. \A h : Known(h) => Known(h)'
  BY <1>6
<1>13. \A h \in DOMAIN platform' : Known(h) =>
         h \in DOMAIN platform /\ (platform'[h] = platform[h] \/ now =< platform'[h].updated)
  BY <1>4, <1>5
<1> QED
  BY <1>1, <1>7, <1>9, <1>10, <1>11, <1>12, <1>13, PlatformGoesOn

LEMMA ChangeSettled ==
  ASSUME ParametersAssumption, IInv, TypeOK', SettledInv,
         NEW v \in Values, NEW g \in Guids, Change(g, v)
  PROVE  SettledInv'
<1>1. TypeOK /\ UNCHANGED <<now, gone, history, txn, polled>> /\ g \in DOMAIN platform
  BY DEF IInv, Change
<1>2. PICK new : new = [platform[g] EXCEPT !.updated = now, !.value = v]
  OBVIOUS
<1>3. platform' = [platform EXCEPT ![g] = new]
  BY <1>2 DEF Change
<1>4. new.created = platform[g].created /\ new.updated = now
  BY <1>1, <1>2, Shapes DEF V3Org
<1>5. DOMAIN platform' = DOMAIN platform /\ \A h \in DOMAIN platform :
        platform'[h] = IF h = g THEN new ELSE platform[h]
  BY <1>1, <1>3, Shapes
<1>6. now \in Nat /\ now =< now'
  BY <1>1, Times
<1>7. \A h \in DOMAIN platform' : EntityInv(h)'
  <2> TAKE h \in DOMAIN platform'
  <2>1. EntityInv(h) /\ h \in Guids /\ platform[h].created \in Nat /\ platform[h].updated \in Nat
        /\ polled[h] =< now /\ \A r \in history : r.from \in Nat
    BY <1>1, <1>5, Shapes, Times DEF SettledInv
  <2>2. CASE h = g
    <3>1. platform'[h].created = platform[h].created /\ platform'[h].updated = now
      BY <1>4, <1>5, <2>2
    <3>2. \A r \in OfGuid(history, h) : r.from =< now
      BY <1>6, <2>1 DEF EntityInv, OfGuid
    <3> QED
      BY <1>1, <1>6, <2>1, <3>1, <3>2 DEF EntityInv, OfGuid
  <2>3. CASE h # g
    BY <1>1, <1>5, <2>1, <2>3 DEF EntityInv, Repeats, Newest, OfGuid
  <2> QED
    BY <2>2, <2>3
<1>8. \A h : Known(h)' = Known(h)
  BY <1>1, <1>5 DEF Known
<1>9. CreatedInOrder'
  BY <1>8 DEF SettledInv, CreatedInOrder
<1>10. \A kind, h : Rank(kind, h)' = Rank(kind, h)
  BY <1>5 DEF Rank
<1>11. \A h : Known(h) => Known(h)'
  BY <1>8
<1>12. \A h \in DOMAIN platform' : Known(h) =>
         h \in DOMAIN platform /\ (platform'[h] = platform[h] \/ now =< platform'[h].updated)
  BY <1>4, <1>5, <1>6
<1>13. \A kind \in Range(KindNames), h \in DOMAIN platform', n \in Nat :
         Known(h) /\ h \in OfKind(kind) /\ Rank(kind, h) =< n => Rank(kind, h)' =< n
  BY <1>10
<1> QED
  BY <1>1, <1>6, <1>7, <1>9, <1>11, <1>12, <1>13, PlatformGoesOn

LEMMA RemoveSettled ==
  ASSUME ParametersAssumption, GuidsAssumption, IInv, TypeOK', SettledInv,
         NEW g \in Guids, Remove(g)
  PROVE  SettledInv'
<1>1. TypeOK /\ UNCHANGED <<now, history, txn, polled>> /\ gone' = gone \cup {g}
      /\ g \in DOMAIN platform
  BY DEF IInv, Remove
<1>2. platform' = [h \in DOMAIN platform \ {g} |-> platform[h]]
  BY DEF Remove, Restrict
<1>3. /\ DOMAIN platform' = DOMAIN platform \ {g}
      /\ \A h \in DOMAIN platform' : platform'[h] = platform[h]
  BY <1>2
<1>4. now \in Nat /\ now =< now'
  BY <1>1, Times
<1>5. \A h \in DOMAIN platform' : EntityInv(h)'
  BY <1>1, <1>3 DEF SettledInv, EntityInv, Repeats, Newest, OfGuid
<1>6. \A h : Known(h)' <=> Known(h)
  BY <1>1, <1>3 DEF Known
<1>7. CreatedInOrder'
  BY <1>6 DEF SettledInv, CreatedInOrder
<1>8. ASSUME NEW kind \in Range(KindNames), NEW h \in DOMAIN platform', NEW n \in Nat,
             Rank(kind, h) =< n
      PROVE  Rank(kind, h)' =< n
  <2>1. PICK S, T : S = OfKind(kind) \cap DOMAIN platform /\ T = OfKind(kind) \cap DOMAIN platform'
    OBVIOUS
  <2>2. S \in SUBSET Nat /\ T \in SUBSET S /\ h \in Nat
    BY <1>1, <1>3, <2>1, Shapes DEF GuidsAssumption
  <2>3. Cardinality({l \in T : l =< h}) =< Cardinality({l \in S : l =< h})
        /\ Cardinality({l \in T : l =< h}) \in Nat /\ Cardinality({l \in S : l =< h}) \in Nat
    BY <2>2, FewerBefore
  <2>4. Rank(kind, h) = Cardinality({l \in S : l =< h})
        /\ Rank(kind, h)' = Cardinality({l \in T : l =< h})
    BY <2>1 DEF Rank
  <2> QED
    BY <1>8, <2>3, <2>4
<1>9. \A h : Known(h) => Known(h)'
  BY <1>6
<1>10. \A h \in DOMAIN platform' : Known(h) =>
         h \in DOMAIN platform /\ (platform'[h] = platform[h] \/ now =< platform'[h].updated)
  BY <1>3
<1> QED
  BY <1>1, <1>4, <1>5, <1>7, <1>8, <1>9, <1>10, PlatformGoesOn

------------------------------------------------------------------------------
(* Steps of the process.                                                   *)

LEMMA OwnSettled ==
  ASSUME OneProcess, SettledInv, NEW p \in Processes,
         UNCHANGED <<now, platform, gone, history, polled>>, ListingInv(p)'
  PROVE  SettledInv'
<1>1. \A g \in Guids : polled'[g] =< now'
  BY DEF SettledInv
<1>2. \A g \in DOMAIN platform' : EntityInv(g)'
  BY DEF SettledInv, EntityInv, Repeats, Newest, OfGuid
<1>3. CreatedInOrder'
  BY DEF SettledInv, CreatedInOrder, Known
<1>4. \A q \in Processes : ListingInv(q)'
  <2> TAKE q \in Processes
  <2>1. q = p
    BY DEF OneProcess
  <2> QED
    BY <2>1
<1> QED
  BY <1>1, <1>2, <1>3, <1>4 DEF SettledInv

LEMMA SeenStays ==
  ASSUME UNCHANGED <<now, platform, gone, history, polled>>, NEW e, SeenInv(e)
  PROVE  SeenInv(e)'
BY DEF SeenInv, Known, Repeats, Newest, OfGuid

LEMMA EndSettled ==
  ASSUME OneProcess, IInv, SettledInv, NEW p \in Processes, Fail(p) \/ Crash(p)
  PROVE  SettledInv'
<1>1. txn' = [txn EXCEPT ![p] = Idle] /\ UNCHANGED <<now, platform, gone, history, polled>>
  BY DEF Fail, Crash
<1>2. txn'[p] = Idle
  BY <1>1 DEF IInv, TypeOK
<1>3. ListingInv(p)'
  BY <1>2 DEF ListingInv
<1> QED
  BY <1>1, <1>3, OwnSettled

LEMMA BeginSettled ==
  ASSUME OneProcess, IInv, SettledInv, NEW p \in Processes, NEW kinds, Begin(p, kinds),
         \A i, j \in 1 .. Len(kinds) : kinds[i] = kinds[j] => i = j
  PROVE  SettledInv'
<1>1. PICK t : t = [kinds |-> kinds, page |-> 1, listed |-> {}, insert |-> {},
                    rows |-> {}, seen |-> {}]
  OBVIOUS
<1>2. txn' = [txn EXCEPT ![p] = t] /\ UNCHANGED <<now, platform, gone, history, polled>>
  BY <1>1 DEF Begin
<1>3. txn'[p] = t
  BY <1>2 DEF IInv, TypeOK
<1>4. t.kinds = kinds /\ t.listed = {} /\ t.insert = {} /\ t.rows = {} /\ t.seen = {}
  BY <1>1
<1>5. OnePage(p)' /\ Sources(p)' /\ Written(p)' /\ PageByPage(p)'
  BY <1>3, <1>4 DEF OnePage, Sources, Written, PageByPage
<1>6. ListingInv(p)'
  BY <1>3, <1>4, <1>5 DEF ListingInv
<1> QED
  BY <1>2, <1>6, OwnSettled

LEMMA CollectSettled ==
  ASSUME OneProcess, IInv, SettledInv, NEW p \in Processes,
         \/ Initialise(p)
         \/ CollectServices(p) \/ CollectServicePlans(p) \/ CollectOrgs(p) \/ CollectSpaces(p)
  PROVE  SettledInv'
<1>1. \A i, j \in 1 .. Len(KindNames) : KindNames[i] = KindNames[j] => i = j
  <2>1. /\ KindNames[1] = "services" /\ KindNames[2] = "service_plans"
        /\ KindNames[3] = "orgs" /\ KindNames[4] = "spaces" /\ Len(KindNames) = 4
    BY DEF KindNames
  <2>2. \A i \in 1 .. 4 : i = 1 \/ i = 2 \/ i = 3 \/ i = 4
    OBVIOUS
  <2> QED
    BY <2>1, <2>2
<1>2. \A k : \A i, j \in 1 .. Len(<<KindNames[k]>>) :
        <<KindNames[k]>>[i] = <<KindNames[k]>>[j] => i = j
  <2> TAKE k
  <2>1. Len(<<KindNames[k]>>) = 1
    OBVIOUS
  <2> QED
    BY <2>1
<1>3. PICK kinds : Begin(p, kinds) /\ \A i, j \in 1 .. Len(kinds) : kinds[i] = kinds[j] => i = j
  BY <1>1, <1>2, Zenon DEF Initialise, CollectServices, CollectServicePlans, CollectOrgs,
       CollectSpaces, Collect
<1> QED
  BY <1>3, BeginSettled

(* A page has the entities of the next ranks: none of them has been listed *)
(* before, though the platform changed between the pages.                  *)
LEMMA ListPageSettled ==
  ASSUME ParametersAssumption, GuidsAssumption, OneProcess, IInv, SettledInv,
         NEW p \in Processes, NEW kind \in Range(KindNames), ListPage(p, kind)
  PROVE  SettledInv'
<1>1. /\ TypeOK /\ txn[p] # Idle /\ txn[p] \in Transaction
      /\ UNCHANGED <<now, platform, gone, history, polled>>
  BY Shapes DEF IInv, ListPage, Collecting
<1>2. PICK n : n = txn[p].page
  OBVIOUS
<1>3. n \in Nat /\ n > 0 /\ PageSize \in Nat /\ now \in Nat /\ txn[p].kinds \in Seq(Range(KindNames))
  BY <1>1, <1>2, Times DEF ListPage, ParametersAssumption
<1>4. PICK found : found = {[guid |-> g, created |-> platform[g].created,
                             updated |-> platform[g].updated,
                             value |-> platform[g].value, at |-> now]
                              : g \in Page(kind, n)}
  OBVIOUS
<1>5. PICK t : t = [txn[p] EXCEPT !.page = NextPage(kind, n),
                                  !.listed = @ \cup found, !.seen = @ \cup found]
  OBVIOUS
<1>6. txn' = [txn EXCEPT ![p] = t]
  BY <1>1, <1>2, <1>4, <1>5 DEF ListPage, TypeOK
<1>7. txn'[p] = t
  BY <1>1, <1>6 DEF TypeOK
<1>8. /\ t.kinds = txn[p].kinds /\ t.rows = txn[p].rows /\ t.insert = txn[p].insert
      /\ t.listed = txn[p].listed \cup found /\ t.seen = txn[p].seen \cup found
      /\ t.page = NextPage(kind, n)
  BY <1>1, <1>5 DEF Transaction
<1>9. txn[p].kinds # <<>> /\ Head(txn[p].kinds) = kind
  BY DEF ListPage, Collecting
<1>10. /\ \A e \in txn[p].seen : SeenInv(e)
       /\ OnePage(p) /\ Sources(p) /\ Written(p) /\ PageByPage(p)
  BY <1>1 DEF SettledInv, ListingInv
<1>11. PICK before \in Nat : before = (n - 1) * PageSize /\ before =< n * PageSize
  <2>1. PICK m \in Nat : n = m + 1
    BY <1>3
  <2>2. (n - 1) * PageSize = m * PageSize /\ n * PageSize = m * PageSize + PageSize
    BY <1>3, <2>1
  <2>3. m * PageSize \in Nat
    BY <1>3, <2>1
  <2> QED
    BY <1>3, <2>2, <2>3
<1>12. PICK after \in Nat : after = n * PageSize
  BY <1>3
<1>13. \A g \in Page(kind, n) :
         /\ g \in OfKind(kind) /\ g \in DOMAIN platform /\ g \in Guids
         /\ Rank(kind, g) \in Nat /\ before < Rank(kind, g) /\ Rank(kind, g) =< after
  <2> TAKE g \in Page(kind, n)
  <2>1. PICK all : all = OfKind(kind) \cap DOMAIN platform
    OBVIOUS
  <2>2. g \in all /\ g \in Guids /\ all \in SUBSET Nat /\ g \in Nat
    BY <1>1, <2>1, Shapes DEF Page, GuidsAssumption
  <2>3. Rank(kind, g) \in Nat
    <3>1. Cardinality({h \in all : h =< g}) \in Nat
      BY <2>2, FewerBefore
    <3> QED
      BY <2>1, <3>1 DEF Rank
  <2>4. before < Rank(kind, g) /\ Rank(kind, g) =< after
    BY <1>11, <1>12 DEF Page, Rank
  <2> QED
    BY <2>1, <2>2, <2>3, <2>4
<1>14. \A e \in found : /\ e.guid \in Page(kind, n) /\ e.created = platform[e.guid].created
                        /\ e.updated = platform[e.guid].updated
                        /\ e.value = platform[e.guid].value /\ e.at = now
  BY <1>4
<1>15. \A e, f \in found : e.guid = f.guid => e = f
  BY <1>4
<1>16. ASSUME NEW e \in found PROVE SeenInv(e)
  <2>1. e.guid \in DOMAIN platform /\ e.guid \in Guids
    BY <1>13, <1>14
  <2>2. EntityInv(e.guid) /\ polled[e.guid] =< now
    BY <2>1 DEF SettledInv
  <2> QED
    BY <1>3, <1>14, <2>1, <2>2 DEF SeenInv, EntityInv, Known
<1>17. \A e \in txn[p].seen, f \in found : e.guid # f.guid
  <2> SUFFICES ASSUME NEW e \in txn[p].seen, NEW f \in found, e.guid = f.guid PROVE FALSE
    OBVIOUS
  <2>1. Rank(kind, f.guid) \in Nat /\ before < Rank(kind, f.guid)
        /\ f.guid \in OfKind(kind) \cap DOMAIN platform
    BY <1>13, <1>14
  <2>2. Rank(kind, f.guid) =< before
    BY <1>2, <1>3, <1>9, <1>10, <1>11, <2>1 DEF PageByPage
  <2> QED
    BY <2>1, <2>2
<1>18. t.seen \ t.listed = txn[p].seen \ txn[p].listed
  BY <1>8, <1>17
<1>19. OnePage(p)'
  BY <1>7, <1>8, <1>10, <1>15, <1>17 DEF OnePage
<1>20. Sources(p)'
  <2>1. t.listed \subseteq t.seen
    BY <1>8, <1>10 DEF Sources
  <2> QED
    BY <1>1, <1>7, <1>8, <1>10, <1>18, <2>1 DEF Sources, RowOf, OfGuid
<1>21. Written(p)'
  BY <1>1, <1>7, <1>8, <1>10, <1>18 DEF Written, Repeats, Newest, OfGuid, Seen
<1>22. PageByPage(p)'
  <2>1. \A i \in 2 .. Len(t.kinds) : \A e \in t.seen : e.guid \notin OfKind(t.kinds[i])
    <3> TAKE i \in 2 .. Len(t.kinds)
    <3> TAKE e \in t.seen
    <3>1. CASE e \in txn[p].seen
      BY <1>8, <1>10, <3>1 DEF PageByPage
    <3>2. CASE e \in found
      <4>1. t.kinds[1] = kind /\ 1 \in 1 .. Len(t.kinds) /\ i \in 1 .. Len(t.kinds) /\ i # 1
        BY <1>3, <1>8, <1>9
      <4>2. t.kinds[i] # kind /\ t.kinds[i] \in Range(KindNames)
        BY <1>3, <1>8, <1>10, <4>1 DEF PageByPage
      <4>3. e.guid \in OfKind(kind)
        BY <1>13, <1>14, <3>2
      <4> QED
        BY <4>2, <4>3, OneKindEach
    <3> QED
      BY <1>8, <3>1, <3>2
  <2>2. ASSUME t.page > 0, NEW e \in t.seen, e.guid \in OfKind(kind) \cap DOMAIN platform
        PROVE  Rank(kind, e.guid) =< (t.page - 1) * PageSize
    <3>1. t.page = n + 1
      BY <1>8, <2>2 DEF NextPage
    <3>2. (t.page - 1) * PageSize = after
      BY <1>3, <1>12, <3>1
    <3>3. CASE e \in found
      BY <1>13, <1>14, <3>2, <3>3
    <3>4. CASE e \in txn[p].seen
      <4>1. Rank(kind, e.guid) =< before
        BY <1>2, <1>3, <1>9, <1>10, <1>11, <2>2, <3>4 DEF PageByPage
      <4>2. Rank(kind, e.guid) \in Nat
        <5>1. PICK all : all = OfKind(kind) \cap DOMAIN platform
          OBVIOUS
        <5>2. all \in SUBSET Nat /\ e.guid \in Nat
          BY <1>1, <2>2, <5>1, Shapes DEF GuidsAssumption
        <5>3. Cardinality({h \in all : h =< e.guid}) \in Nat
          BY <5>2, FewerBefore
        <5> QED
          BY <5>1, <5>3 DEF Rank
      <4> QED
        BY <1>11, <1>12, <3>2, <4>1, <4>2
    <3> QED
      BY <1>8, <2>2, <3>3, <3>4
  <2>3. \A g : Rank(kind, g)' = Rank(kind, g)
    BY <1>1 DEF Rank
  <2>4. \A i, j \in 1 .. Len(t.kinds) : t.kinds[i] = t.kinds[j] => i = j
    BY <1>8, <1>10 DEF PageByPage
  <2>5. Head(t.kinds) = kind
    BY <1>8, <1>9
  <2> QED
    BY <1>1, <1>7, <2>1, <2>2, <2>3, <2>4, <2>5 DEF PageByPage
<1>23. \A e \in t.seen : SeenInv(e)'
  BY <1>1, <1>8, <1>10, <1>16, SeenStays
<1>24. ListingInv(p)'
  BY <1>7, <1>19, <1>20, <1>21, <1>22, <1>23 DEF ListingInv
<1> QED
  BY <1>1, <1>24, OwnSettled

(* What a step leaves of what is known of the listing.                     *)
LEMMA SameListing ==
  ASSUME OneProcess, SettledInv, NEW p \in Processes, txn[p] # Idle,
         UNCHANGED <<now, platform, gone, history, polled>>,
         txn'[p].seen = txn[p].seen, Sources(p)', Written(p)', PageByPage(p)'
  PROVE  SettledInv'
<1>1. (\A e \in txn[p].seen : SeenInv(e)) /\ OnePage(p)
  BY DEF SettledInv, ListingInv
<1>2. \A e \in txn'[p].seen : SeenInv(e)'
  BY <1>1, SeenStays
<1>3. OnePage(p)'
  BY <1>1 DEF OnePage
<1>4. ListingInv(p)'
  BY <1>2, <1>3 DEF ListingInv
<1> QED
  BY <1>4, OwnSettled

LEMMA SamePages ==
  ASSUME NEW p \in Processes, PageByPage(p), UNCHANGED platform,
         txn'[p].kinds = txn[p].kinds, txn'[p].page = txn[p].page, txn'[p].seen = txn[p].seen
  PROVE  PageByPage(p)'
BY DEF PageByPage, Rank

LEMMA PrepareSettled ==
  ASSUME ParametersAssumption, OneProcess, IInv, SettledInv, NEW p \in Processes, txn[p] # Idle,
         NEW kind, NEW e \in txn[p].listed, NEW rows, Due(p, kind, e), Prepare(p, e, rows),
         \A r \in rows : r.guid = e.guid /\ r.value = e.value /\ r.from = ValidFrom(p, e),
         rows = {} => OfGuid(Seen(p), e.guid) = {}
  PROVE  SettledInv'
<1>1. /\ TypeOK /\ txn[p] \in Transaction
      /\ UNCHANGED <<now, platform, gone, history, polled>>
  BY Shapes DEF IInv, Prepare
<1>2. PICK t : t = [txn[p] EXCEPT !.listed = @ \ {e}, !.insert = rows]
  OBVIOUS
<1>3. txn'[p] = t
  BY <1>1, <1>2 DEF Prepare, TypeOK
<1>4. /\ t.kinds = txn[p].kinds /\ t.rows = txn[p].rows /\ t.insert = rows
      /\ t.listed = txn[p].listed \ {e} /\ t.seen = txn[p].seen /\ t.page = txn[p].page
  BY <1>1, <1>2 DEF Transaction
<1>5. OnePage(p) /\ Sources(p) /\ Written(p) /\ PageByPage(p)
  BY DEF SettledInv, ListingInv
<1>6. e \in txn[p].seen /\ txn[p].insert = {} /\ txn[p].kinds # <<>>
  BY <1>5 DEF Sources, Due, Collecting
<1>7. t.seen \ t.listed = (txn[p].seen \ txn[p].listed) \cup {e}
  BY <1>4, <1>6
<1>8. OfGuid(txn[p].rows, e.guid) = {}
  <2> SUFFICES ASSUME NEW r \in txn[p].rows, r.guid = e.guid PROVE FALSE
    BY DEF OfGuid
  <2>1. PICK f \in txn[p].seen \ txn[p].listed : r.guid = f.guid
    BY <1>5 DEF Sources, RowOf
  <2>2. f = e
    BY <1>5, <1>6, <2>1 DEF OnePage
  <2> QED
    BY <2>1, <2>2
<1>9. \A r \in rows : RowOf(r, e, history) /\ OfGuid(txn[p].rows, r.guid) = {}
  <2> TAKE r \in rows
  <2>1. OfGuid(history, e.guid) = Visible(p, e.guid)
    BY <1>8 DEF OfGuid, Visible
  <2> QED
    BY <1>8, <2>1 DEF RowOf, ValidFrom
<1>10. Sources(p)'
  <2>1. t.listed \subseteq t.seen
    BY <1>4, <1>5 DEF Sources
  <2>2. \A r \in txn[p].rows : \E f \in t.seen \ t.listed :
          RowOf(r, f, history) /\ OfGuid(txn[p].rows, r.guid) = {r}
    BY <1>5, <1>7 DEF Sources
  <2>3. e \in t.seen \ t.listed
    BY <1>7
  <2> QED
    BY <1>1, <1>3, <1>4, <1>6, <1>9, <2>1, <2>2, <2>3 DEF Sources, RowOf, OfGuid
<1>11. Written(p)'
  <2>1. Seen(p)' = Seen(p)
    BY <1>1, <1>3, <1>4 DEF Seen
  <2> SUFFICES ASSUME NEW f \in t.seen \ t.listed
               PROVE  \/ \E r \in rows : r.guid = f.guid
                      \/ Repeats(Seen(p), f.guid, f.updated, f.value)
    BY <1>3, <1>4, <2>1 DEF Written, Repeats, Newest, OfGuid
  <2>2. CASE f = e
    BY <2>2 DEF Repeats, Newest
  <2>3. CASE f # e
    BY <1>5, <1>6, <1>7, <2>3 DEF Written
  <2> QED
    BY <2>2, <2>3
<1>12. PageByPage(p)'
  BY <1>1, <1>3, <1>4, <1>5, SamePages
<1> QED
  BY <1>1, <1>3, <1>4, <1>10, <1>11, <1>12, SameListing

LEMMA PlainSettled ==
  ASSUME ParametersAssumption, OneProcess, IInv, SettledInv, NEW p \in Processes, txn[p] # Idle,
         NEW kind, Plain(p, kind)
  PROVE  SettledInv'
<1>1. PICK e \in txn[p].listed : Due(p, kind, e) /\ Prepare(p, e, {VersionOf(p, e, None)})
  BY DEF Plain
<1>2. PICK rows : rows = {VersionOf(p, e, None)}
  OBVIOUS
<1>3. \A r \in rows : r.guid = e.guid /\ r.value = e.value /\ r.from = ValidFrom(p, e)
  BY <1>2 DEF VersionOf
<1>4. rows # {} /\ Prepare(p, e, rows)
  BY <1>1, <1>2
<1> QED
  BY <1>1, <1>3, <1>4, PrepareSettled

(* A plan that is skipped has no version: every version has its service.   *)
LEMMA collectServicePlansSettled ==
  ASSUME ParametersAssumption, GuidsAssumption, OneProcess, IInv, SettledInv,
         NEW p \in Processes, collectServicePlans(p)
  PROVE  SettledInv'
<1>1. txn[p] # Idle
  BY DEF collectServicePlans
<1>2. PICK e \in txn[p].listed :
        /\ Due(p, "service_plans", e)
        /\ Prepare(p, e, {VersionOf(p, e, from) : from \in ServiceFrom(p, e)})
  BY DEF collectServicePlans
<1>3. PICK rows : rows = {VersionOf(p, e, from) : from \in ServiceFrom(p, e)}
  OBVIOUS
<1>4. TypeOK /\ ListedInv(p) /\ RowsInv(p) /\ HistoryInv /\ txn[p] \in Transaction
  BY <1>1, Shapes DEF IInv, TxnInv
<1>5. \A r \in rows : r.guid = e.guid /\ r.value = e.value /\ r.from = ValidFrom(p, e)
  BY <1>3 DEF VersionOf
<1>6. ASSUME rows = {} PROVE OfGuid(Seen(p), e.guid) = {}
  <2>1. ServiceFrom(p, e) = {}
    BY <1>3, <1>6
  <2>2. Visible(p, ServiceOf[e.guid]) = {}
    <3> SUFFICES ASSUME Visible(p, ServiceOf[e.guid]) # {} PROVE FALSE
      OBVIOUS
    <3>1. PICK visible : visible = Visible(p, ServiceOf[e.guid])
      OBVIOUS
    <3>2. \A r \in visible : r.from \in 0 .. MaxTime
      <4>1. history \cup txn[p].rows \subseteq Version
        BY <1>4 DEF TypeOK, Transaction
      <4> QED
        BY <3>1, <4>1 DEF Visible, Version, Time
    <3>3. PICK times \in SUBSET (0 .. MaxTime) : times = {r.from : r \in visible}
      BY <3>2
    <3>4. times # {}
      BY <3>1, <3>3
    <3>5. PICK m \in times : \A k \in times : m >= k
      BY <3>3, <3>4, GreatestNat DEF ParametersAssumption
    <3>6. PICK r \in visible : r.from = m
      BY <3>3
    <3>7. \A q \in visible : q.from =< r.from
      BY <3>3, <3>5, <3>6
    <3>8. r.from \in ServiceFrom(p, e)
      BY <3>1, <3>7 DEF ServiceFrom
    <3> QED
      BY <2>1, <3>8
  <2>3. e.guid \in Plans
    BY <1>2, <1>4, KindsApart DEF Due, Collecting, ListedInv
  <2>4. \A r \in Seen(p) : HasService(r, Seen(p))
    BY <1>4 DEF RowsInv, HistoryInv, HasService, Seen
  <2> QED
    BY <2>2, <2>3, <2>4 DEF HasService, OfGuid, Visible, Seen
<1>7. Prepare(p, e, rows)
  BY <1>2, <1>3
<1> QED
  BY <1>1, <1>2, <1>5, <1>6, <1>7, PrepareSettled

(* The row of a listed entity, once inserted or dropped as a conflict, is  *)
(* the newest version.                                                     *)
LEMMA InsertSettled ==
  ASSUME ParametersAssumption, OneProcess, IInv, SettledInv, NEW p \in Processes, Insert(p)
  PROVE  SettledInv'
<1>1. /\ TypeOK /\ txn[p] # Idle /\ txn[p] \in Transaction
      /\ UNCHANGED <<now, platform, gone, history, polled>>
  BY Shapes DEF IInv, Insert
<1>2. PICK r \in txn[p].insert :
        txn' = [txn EXCEPT ![p].insert = {}, ![p].rows = OnConflict(p, r)]
  BY DEF Insert
<1>3. PICK t : t = [txn[p] EXCEPT !.insert = {}, !.rows = OnConflict(p, r)]
  OBVIOUS
<1>4. txn'[p] = t
  BY <1>1, <1>2, <1>3 DEF TypeOK
<1>5. /\ t.kinds = txn[p].kinds /\ t.rows = OnConflict(p, r) /\ t.insert = {}
      /\ t.listed = txn[p].listed /\ t.seen = txn[p].seen /\ t.page = txn[p].page
  BY <1>1, <1>3 DEF Transaction
<1>6. /\ \A e \in txn[p].seen : SeenInv(e)
      /\ OnePage(p) /\ Sources(p) /\ Written(p) /\ PageByPage(p)
  BY <1>1 DEF SettledInv, ListingInv
<1>7. PICK e \in txn[p].seen \ txn[p].listed : \A q \in txn[p].insert :
        RowOf(q, e, history) /\ OfGuid(txn[p].rows, q.guid) = {}
  BY <1>2, <1>6 DEF Sources
<1>8. /\ r.guid = e.guid /\ r.value = e.value /\ SeenInv(e)
      /\ r.from = e.updated \/ (r.from = e.created /\ OfGuid(history, e.guid) = {})
      /\ OfGuid(txn[p].rows, e.guid) = {}
  BY <1>6, <1>7 DEF RowOf
<1>9. t.rows = txn[p].rows \/ t.rows = txn[p].rows \cup {r}
  BY <1>5 DEF OnConflict
<1>10. \A g : g # e.guid => OfGuid(t.rows, g) = OfGuid(txn[p].rows, g)
  BY <1>8, <1>9 DEF OfGuid
<1>11. Sources(p)'
  <2>1. ASSUME NEW s \in t.rows
        PROVE  \E f \in txn[p].seen \ txn[p].listed :
                 RowOf(s, f, history) /\ OfGuid(t.rows, s.guid) = {s}
    <3>1. CASE s \in txn[p].rows
      <4>1. PICK f \in txn[p].seen \ txn[p].listed :
              RowOf(s, f, history) /\ OfGuid(txn[p].rows, s.guid) = {s}
        BY <1>6, <3>1 DEF Sources
      <4>2. s.guid # e.guid
        BY <1>8, <3>1 DEF OfGuid
      <4> QED
        BY <1>10, <4>1, <4>2
    <3>2. CASE s \notin txn[p].rows
      <4>1. s = r /\ t.rows = txn[p].rows \cup {r}
        BY <1>9, <2>1, <3>2
      <4>2. OfGuid(t.rows, s.guid) = {s}
        BY <1>8, <4>1 DEF OfGuid
      <4> QED
        BY <1>2, <1>7, <4>1, <4>2
    <3> QED
      BY <3>1, <3>2
  <2>2. txn[p].listed \subseteq txn[p].seen
    BY <1>6 DEF Sources
  <2> QED
    BY <1>1, <1>4, <1>5, <2>1, <2>2 DEF Sources, RowOf, OfGuid
<1>12. Written(p)'
  <2>1. Seen(p)' = history \cup t.rows
    BY <1>1, <1>4 DEF Seen
  <2> SUFFICES ASSUME NEW f \in txn[p].seen \ txn[p].listed
               PROVE  Repeats(history \cup t.rows, f.guid, f.updated, f.value)
    BY <1>4, <1>5, <2>1 DEF Written, Repeats, Newest, OfGuid
  <2>2. CASE f.guid # e.guid
    <3>1. Repeats(Seen(p), f.guid, f.updated, f.value)
      BY <1>6, <1>7, <2>2 DEF Written, RowOf
    <3>2. OfGuid(history \cup t.rows, f.guid) = OfGuid(Seen(p), f.guid)
      BY <1>9, <1>8, <2>2 DEF OfGuid, Seen
    <3> QED
      BY <3>1, <3>2 DEF Repeats, Newest
  <2>3. CASE f.guid = e.guid
    <3>1. f = e
      BY <1>6, <2>3 DEF OnePage
    <3>2. /\ e.created \in Nat /\ e.updated \in Nat /\ e.created =< e.updated
          /\ \A q \in history : q.from \in Nat
          /\ \A q \in OfGuid(history, e.guid) : q.from =< e.updated
      BY <1>1, <1>2, <1>8, Times DEF SeenInv
    <3>3. CASE t.rows = txn[p].rows \cup {r} /\ t.rows # txn[p].rows
      <4>1. OfGuid(history \cup t.rows, e.guid) = OfGuid(history, e.guid) \cup {r}
        BY <1>8, <3>3 DEF OfGuid
      <4>2. ASSUME NEW q \in Newest(history \cup t.rows, e.guid)
            PROVE  q.from =< e.updated /\ (q.from = e.updated \/ q.value = e.value)
        <5>1. q \in OfGuid(history, e.guid) \cup {r} /\ r.from =< q.from
          BY <4>1, <4>2 DEF Newest
        <5>2. CASE q = r
          BY <1>8, <3>2, <5>2
        <5>3. CASE q \in OfGuid(history, e.guid)
          <6>1. r.from = e.updated /\ q.from =< e.updated /\ q.from \in Nat
            BY <1>8, <3>2, <5>3 DEF OfGuid
          <6> QED
            BY <3>2, <5>1, <6>1
        <5> QED
          BY <5>1, <5>2, <5>3
      <4> QED
        BY <3>1, <4>2 DEF Repeats
    <3>4. CASE t.rows = txn[p].rows
      <4>1. PICK s \in OfGuid(history, e.guid) : s.from = r.from
        <5>1. \E s \in Visible(p, r.guid) : s.from = r.from
          <6>1. r \in OfGuid(txn[p].rows, e.guid) \/ \E s \in Visible(p, r.guid) : s.from = r.from
            BY <1>5, <1>8, <3>4 DEF OnConflict, OfGuid
          <6> QED
            BY <1>8, <6>1
        <5> QED
          BY <1>8, <5>1 DEF Visible, OfGuid
      <4>2. s.from = e.updated
        BY <1>8, <4>1
      <4>3. OfGuid(history \cup t.rows, e.guid) = OfGuid(history, e.guid)
        BY <1>8, <3>4 DEF OfGuid
      <4>4. ASSUME NEW q \in Newest(history \cup t.rows, e.guid)
            PROVE  q.from = e.updated
        <5>1. q \in OfGuid(history, e.guid) /\ s.from =< q.from
          BY <4>1, <4>3, <4>4 DEF Newest
        <5>2. q.from =< e.updated /\ q.from \in Nat
          BY <3>2, <5>1 DEF OfGuid
        <5> QED
          BY <3>2, <4>2, <5>1, <5>2
      <4> QED
        BY <3>1, <3>2, <4>4 DEF Repeats
    <3> QED
      BY <1>9, <3>3, <3>4
  <2> QED
    BY <2>2, <2>3
<1>13. PageByPage(p)'
  BY <1>1, <1>4, <1>5, <1>6, SamePages
<1> QED
  BY <1>1, <1>4, <1>5, <1>11, <1>12, <1>13, SameListing

LEMMA NextKindSettled ==
  ASSUME ParametersAssumption, OneProcess, IInv, SettledInv, NEW p \in Processes, NextKind(p)
  PROVE  SettledInv'
<1>1. /\ TypeOK /\ txn[p] # Idle /\ txn[p] \in Transaction
      /\ UNCHANGED <<now, platform, gone, history, polled>>
      /\ txn[p].kinds # <<>> /\ txn[p].listed = {} /\ txn[p].insert = {}
  BY Shapes DEF IInv, NextKind
<1>2. PICK t : t = [txn[p] EXCEPT !.kinds = Tail(@), !.page = 1]
  OBVIOUS
<1>3. txn'[p] = t
  BY <1>1, <1>2 DEF NextKind, TypeOK
<1>4. /\ t.kinds = Tail(txn[p].kinds) /\ t.rows = txn[p].rows /\ t.insert = txn[p].insert
      /\ t.listed = txn[p].listed /\ t.seen = txn[p].seen /\ t.page = 1
  BY <1>1, <1>2 DEF Transaction
<1>5. Sources(p) /\ Written(p) /\ PageByPage(p)
  BY <1>1 DEF SettledInv, ListingInv
<1>6. Sources(p)'
  BY <1>1, <1>3, <1>4, <1>5 DEF Sources, RowOf, OfGuid
<1>7. Written(p)'
  BY <1>1, <1>3, <1>4, <1>5 DEF Written, Repeats, Newest, OfGuid, Seen
<1>8. PageByPage(p)'
  <2>1. /\ txn[p].kinds \in Seq(Range(KindNames)) /\ PageSize \in Nat
    BY <1>1, Times DEF ParametersAssumption
  <2>2. PICK kinds \in Seq(Range(KindNames)) : kinds = txn[p].kinds /\ kinds # <<>>
    BY <1>1, <2>1
  <2>3. /\ Len(t.kinds) = Len(kinds) - 1
        /\ \A i \in 1 .. Len(t.kinds) : t.kinds[i] = kinds[i + 1]
        /\ Len(kinds) \in Nat
    BY <1>4, <2>2
  <2>4. \A i, j \in 1 .. Len(t.kinds) : t.kinds[i] = t.kinds[j] => i = j
    <3> TAKE i, j \in 1 .. Len(t.kinds)
    <3>1. i + 1 \in 1 .. Len(kinds) /\ j + 1 \in 1 .. Len(kinds)
      BY <2>3
    <3>2. kinds[i + 1] = kinds[j + 1] => i + 1 = j + 1
      BY <1>5, <2>2, <3>1 DEF PageByPage
    <3> QED
      BY <2>3, <3>2
  <2>5. \A i \in 1 .. Len(t.kinds) : \A e \in t.seen : e.guid \notin OfKind(t.kinds[i])
    <3> TAKE i \in 1 .. Len(t.kinds)
    <3>1. i + 1 \in 2 .. Len(kinds) /\ t.kinds[i] = kinds[i + 1]
      BY <2>3
    <3> QED
      BY <1>4, <1>5, <2>2, <3>1 DEF PageByPage
  <2>6. \A i \in 2 .. Len(t.kinds) : \A e \in t.seen : e.guid \notin OfKind(t.kinds[i])
    BY <2>3, <2>5
  <2>7. ASSUME t.kinds # <<>>, NEW e \in t.seen PROVE e.guid \notin OfKind(Head(t.kinds))
    <3>1. 1 \in 1 .. Len(t.kinds) /\ Head(t.kinds) = t.kinds[1]
      BY <1>4, <2>2, <2>7
    <3> QED
      BY <2>5, <3>1
  <2> QED
    BY <1>1, <1>3, <2>4, <2>6, <2>7 DEF PageByPage
<1> QED
  BY <1>1, <1>3, <1>4, <1>6, <1>7, <1>8, SameListing

------------------------------------------------------------------------------
(* The commit.                                                             *)

(* All that was listed has been written.                                   *)
LEMMA AllWritten ==
  ASSUME ParametersAssumption, IInv, SettledInv, NEW p \in Processes, Commit(p)
  PROVE  /\ history' = Seen(p)
         /\ \A e \in txn[p].seen : Repeats(Seen(p), e.guid, e.updated, e.value)
<1>1. txn[p] # Idle /\ txn[p].kinds = <<>>
  BY DEF Commit
<1>2. ListedInv(p) /\ Sources(p) /\ Written(p)
  BY <1>1 DEF IInv, TxnInv, SettledInv, ListingInv
<1>3. txn[p].listed = {} /\ txn[p].insert = {}
  BY <1>1, <1>2 DEF ListedInv, Sources
<1> QED
  BY <1>2, <1>3 DEF Written, Commit, Recorded, Seen

(* The time of the listing, of an entity that was listed.                  *)
LEMMA Polled ==
  ASSUME ParametersAssumption, IInv, SettledInv, NEW p \in Processes, Commit(p), NEW g \in Guids
  PROVE  /\ \A e \in txn[p].seen : e.guid = g => polled'[g] = e.at
         /\ (\A e \in txn[p].seen : e.guid # g) => polled'[g] = polled[g]
<1>1. TypeOK /\ txn[p] # Idle
  BY DEF IInv, Commit
<1>2. polled[g] \in Nat /\ \A e \in txn[p].seen : e.at \in Nat
  BY <1>1, Times
<1>3. OnePage(p) /\ \A e \in txn[p].seen : SeenInv(e)
  BY <1>1 DEF SettledInv, ListingInv
<1>4. PICK times : times = {polled[g]} \cup {e.at : e \in {e \in txn[p].seen : e.guid = g}}
  OBVIOUS
<1>5. polled'[g] = Max(times)
  BY <1>4 DEF Commit
<1>6. ASSUME NEW n \in Nat, n \in times, times \subseteq Nat, \A m \in times : m =< n
      PROVE  Max(times) = n
  <2>1. \A k \in times : (\A m \in times : k >= m) <=> k = n
    BY <1>6
  <2>2. PICK P : P = {k \in times : \A m \in times : k >= m}
    OBVIOUS
  <2>3. \E k \in times : \A m \in times : k >= m
    BY <1>6, <2>1
  <2>4. Max(times) \in times /\ \A m \in times : Max(times) >= m
    BY <2>3 DEF Max
  <2> QED
    BY <2>1, <2>4
<1>7. ASSUME NEW e \in txn[p].seen, e.guid = g PROVE polled'[g] = e.at
  <2>1. \A f \in txn[p].seen : f.guid = g => f = e
    BY <1>3, <1>7 DEF OnePage
  <2>2. times = {polled[g], e.at}
    BY <1>4, <1>7, <2>1
  <2>3. polled[g] =< e.at
    BY <1>3, <1>7 DEF SeenInv
  <2>4. e.at \in Nat /\ e.at \in times /\ times \subseteq Nat /\ \A m \in times : m =< e.at
    BY <1>2, <2>2, <2>3
  <2>5. Max(times) = e.at
    BY <1>6, <2>4
  <2> QED
    BY <1>5, <2>5
<1>8. ASSUME \A e \in txn[p].seen : e.guid # g PROVE polled'[g] = polled[g]
  <2>1. times = {polled[g]}
    BY <1>4, <1>8
  <2> QED
    BY <1>2, <1>5, <1>6, <2>1
<1> QED
  BY <1>7, <1>8

LEMMA CommitSettled ==
  ASSUME ParametersAssumption, OneProcess, IInv, TypeOK', SettledInv,
         NEW p \in Processes, Commit(p)
  PROVE  SettledInv'
<1>1. /\ TypeOK /\ txn[p] # Idle
      /\ UNCHANGED <<now, platform, gone>> /\ txn' = [txn EXCEPT ![p] = Idle]
  BY DEF IInv, Commit
<1>2. history' = Seen(p) /\ \A e \in txn[p].seen : Repeats(Seen(p), e.guid, e.updated, e.value)
  BY AllWritten
<1>3. (\A e \in txn[p].seen : SeenInv(e)) /\ Sources(p)
  BY <1>1 DEF SettledInv, ListingInv
<1>4. \A g \in Guids : polled'[g] =< now'
  <2> TAKE g \in Guids
  <2>1. CASE \E e \in txn[p].seen : e.guid = g
    <3>1. PICK e \in txn[p].seen : e.guid = g
      BY <2>1
    <3> QED
      BY <1>1, <1>3, <3>1, Polled DEF SeenInv
  <2>2. CASE \A e \in txn[p].seen : e.guid # g
    BY <1>1, <2>2, Polled DEF SettledInv
  <2> QED
    BY <2>1, <2>2
<1>5. \A g \in DOMAIN platform' : EntityInv(g)'
  <2> TAKE g \in DOMAIN platform'
  <2>1. g \in DOMAIN platform /\ g \in Guids /\ EntityInv(g)
    BY <1>1, Shapes DEF SettledInv
  <2>2. platform[g].created \in Nat /\ platform[g].updated \in Nat /\ now \in Nat
    BY <1>1, <2>1, Times
  <2>3. ASSUME NEW e \in txn[p].seen, e.guid = g
        PROVE  /\ e.created \in Nat /\ e.updated \in Nat /\ e.at \in Nat
               /\ e.created =< e.updated /\ e.updated =< platform[g].updated
               /\ \/ e.at =< platform[g].updated
                  \/ platform[g].updated = e.updated /\ platform[g].value = e.value
    <3>1. e.created \in Nat /\ e.updated \in Nat /\ e.at \in Nat
      BY <1>1, Times
    <3> QED
      BY <1>3, <2>1, <2>2, <2>3, <3>1 DEF SeenInv
  <2>4. \A r \in OfGuid(history', g) : r.from =< platform[g].updated
    <3> SUFFICES ASSUME NEW r \in Seen(p), r.guid = g PROVE r.from =< platform[g].updated
      BY <1>2 DEF OfGuid
    <3>1. CASE r \in history
      BY <2>1, <3>1 DEF EntityInv, OfGuid
    <3>2. CASE r \in txn[p].rows
      <4>1. PICK e \in txn[p].seen : RowOf(r, e, history)
        BY <1>3, <3>2 DEF Sources
      <4>2. e.guid = g /\ (r.from = e.updated \/ r.from = e.created)
        BY <4>1 DEF RowOf
      <4> QED
        BY <2>2, <2>3, <4>2
    <3> QED
      BY <3>1, <3>2 DEF Seen
  <2>5. \/ polled'[g] =< platform[g].updated
        \/ Repeats(history', g, platform[g].updated, platform[g].value)
    <3>1. CASE \E e \in txn[p].seen : e.guid = g
      <4>1. PICK e \in txn[p].seen : e.guid = g
        BY <3>1
      <4>2. polled'[g] = e.at
        BY <2>1, <4>1, Polled
      <4> QED
        BY <1>2, <2>3, <4>1, <4>2
    <3>2. CASE \A e \in txn[p].seen : e.guid # g
      <4>1. polled'[g] = polled[g]
        BY <2>1, <3>2, Polled
      <4>2. \A r \in txn[p].rows : r.guid # g
        BY <1>3, <3>2 DEF Sources, RowOf
      <4>3. OfGuid(history', g) = OfGuid(history, g)
        BY <1>2, <4>2 DEF OfGuid, Seen
      <4> QED
        BY <2>1, <4>1, <4>3 DEF EntityInv, Repeats, Newest
    <3> QED
      BY <3>1, <3>2
  <2> QED
    BY <1>1, <2>1, <2>4, <2>5 DEF EntityInv, Repeats, Newest, OfGuid
<1>6. CreatedInOrder'
  BY <1>1 DEF SettledInv, CreatedInOrder, Known
<1>7. \A q \in Processes : ListingInv(q)'
  <2> TAKE q \in Processes
  <2>1. q = p
    BY DEF OneProcess
  <2>2. txn'[q] = Idle
    BY <1>1, <2>1 DEF TypeOK
  <2> QED
    BY <2>2 DEF ListingInv
<1> QED
  BY <1>4, <1>5, <1>6, <1>7 DEF SettledInv

(* A new version, later than the others, changes nothing before it, and    *)
(* nothing at all if it repeats the newest.                                *)
LEMMA AddNewest ==
  ASSUME ParametersAssumption, TypeOK, NEW g, NEW t \in Nat, NEW r, r.guid = g, r.from \in Nat,
         Versions(g)' = Versions(g) \cup {r}, Versions(g) # {},
         \A s \in Versions(g) : s.from < r.from,
         t < r.from \/ \A q \in Newest(history, g) : q.value = r.value
  PROVE  ValueAt(g, t)' = ValueAt(g, t)
<1>1. \A s \in Versions(g) : s.guid = g /\ s.from \in Nat
  BY Times DEF Versions
<1>2. \A s \in Versions(g) : Before(s)' = Before(s)
  <2> TAKE s \in Versions(g)
  <2>1. s.guid = g
    BY <1>1
  <2> QED
    BY <1>1, <2>1 DEF Before
<1>3. \A s \in Versions(g) : not_redundant(s)' <=> not_redundant(s)
  BY <1>2 DEF not_redundant
<1>4. Valid(g)' = Valid(g) \/ Valid(g)' = Valid(g) \cup {r}
  BY <1>3 DEF Valid
<1>5. CASE t < r.from
  <2>1. \A s \in Valid(g) : s.from \in Nat
    BY <1>1 DEF Valid
  <2>2. {s \in Valid(g)' : s.from =< t /\ \A u \in Valid(g)' : u.from =< s.from \/ t < u.from}
          = {s \in Valid(g) : s.from =< t /\ \A u \in Valid(g) : u.from =< s.from \/ t < u.from}
    BY <1>4, <1>5, <2>1
  <2> QED
    BY <2>2 DEF ValueAt
<1>6. CASE \A q \in Newest(history, g) : q.value = r.value
  <2>1. PICK q \in Newest(history, g) : TRUE
    <3>1. \A s \in Versions(g) : s.from \in 0 .. MaxTime
      BY DEF TypeOK, Versions, Version, Time
    <3>2. PICK times \in SUBSET (0 .. MaxTime) : times = {s.from : s \in Versions(g)}
      BY <3>1
    <3>3. times # {}
      BY <3>2
    <3>4. PICK n \in times : \A m \in times : n >= m
      BY <3>2, <3>3, GreatestNat DEF ParametersAssumption
    <3>5. PICK s \in Versions(g) : s.from = n
      BY <3>2
    <3>6. \A u \in Versions(g) : u.from =< s.from
      BY <3>2, <3>4, <3>5
    <3>7. s \in Newest(history, g)
      BY <3>6 DEF Newest, OfGuid, Versions
    <3> QED
      BY <3>7
  <2>2. q \in Versions(g) /\ \A s \in Versions(g) : s.from =< q.from
    BY <2>1 DEF Newest, OfGuid, Versions
  <2>3. q \in Before(r)'
    BY <1>1, <2>2 DEF Before
  <2>4. ~not_redundant(r)'
    BY <1>6, <2>3 DEF not_redundant
  <2>5. r \notin Versions(g)
    BY <1>1
  <2>6. Valid(g)' = Valid(g)
    BY <1>3, <2>4 DEF Valid
  <2> QED
    BY <2>6 DEF ValueAt
<1> QED
  BY <1>5, <1>6

LEMMA CommitKeepsPast ==
  ASSUME ParametersAssumption, IInv, TypeOK', SettledInv, NEW p \in Processes, Commit(p)
  PROVE  Settled
<1> SUFFICES ASSUME NEW g \in Guids, NEW t \in Time, t < polled[g], Versions(g) # {}
             PROVE  ValueAt(g, t)' = ValueAt(g, t)
  BY DEF Settled
<1>1. TypeOK /\ txn[p] # Idle /\ t \in Nat /\ polled[g] \in Nat
  BY Times DEF IInv, Commit, Time, ParametersAssumption
<1>2. history' = Seen(p)
  BY AllWritten
<1>3. (\A e \in txn[p].seen : SeenInv(e)) /\ Sources(p) /\ OneRowPerKey(Seen(p))
  BY <1>1 DEF SettledInv, ListingInv, IInv, TxnInv, RowsInv
<1>4. CASE Versions(g)' = Versions(g)
  <2>1. \A s \in Versions(g) : s.guid = g
    BY DEF Versions
  <2>2. \A s \in Versions(g) : not_redundant(s)' <=> not_redundant(s)
    BY <1>4, <2>1 DEF not_redundant, Before
  <2>3. Valid(g)' = Valid(g)
    BY <1>4, <2>2 DEF Valid
  <2> QED
    BY <2>3 DEF ValueAt
<1>5. CASE Versions(g)' # Versions(g)
  <2>1. PICK r \in txn[p].rows : r.guid = g /\ r \notin history
    BY <1>2, <1>5 DEF Versions, Seen
  <2>2. PICK e \in txn[p].seen : RowOf(r, e, history) /\ OfGuid(txn[p].rows, g) = {r}
    BY <1>3, <2>1 DEF Sources
  <2>3. Versions(g)' = Versions(g) \cup {r}
    BY <1>2, <2>2 DEF Versions, Seen, OfGuid
  <2>4. e.guid = g /\ r.value = e.value /\ r.from = e.updated /\ SeenInv(e)
    BY <1>3, <2>1, <2>2 DEF RowOf, OfGuid, Versions
  <2>5. r.from \in Nat /\ \A s \in Versions(g) : s.from \in Nat
    BY <1>1, <2>1, Times DEF Versions
  <2>6. \A s \in Versions(g) : s.from < r.from
    <3> TAKE s \in Versions(g)
    <3>1. s.from =< r.from
      BY <2>4 DEF SeenInv, OfGuid, Versions
    <3>2. s.from # r.from
      BY <1>3, <2>1 DEF OneRowPerKey, SameKey, Seen, Versions
    <3> QED
      BY <2>5, <3>1, <3>2
  <2>7. t < r.from \/ \A q \in Newest(history, g) : q.value = r.value
    <3>1. CASE polled[g] =< e.updated
      BY <1>1, <2>4, <2>5, <3>1
    <3>2. CASE Repeats(history, g, e.updated, e.value)
      <4>1. \A q \in Newest(history, g) : q \in Versions(g)
        BY DEF Newest, OfGuid, Versions
      <4> QED
        BY <2>4, <2>5, <2>6, <3>2, <4>1 DEF Repeats
    <3> QED
      BY <2>4, <3>1, <3>2 DEF SeenInv
  <2> QED
    BY <1>1, <2>1, <2>3, <2>5, <2>6, <2>7, AddNewest
<1> QED
  BY <1>4, <1>5

------------------------------------------------------------------------------
(* The past is settled.                                                    *)

LEMMA InitSettled ==
  ASSUME ParametersAssumption, Init
  PROVE  SettledInv
<1>1. /\ now = 0 /\ platform = <<>> /\ gone = {} /\ txn = [p \in Processes |-> Idle]
      /\ polled = [g \in Guids |-> 0]
  BY DEF Init
<1>2. DOMAIN platform = {}
  BY <1>1
<1>3. \A g : ~Known(g)
  BY <1>1, <1>2 DEF Known
<1>4. CreatedInOrder
  BY <1>3 DEF CreatedInOrder
<1>5. \A p \in Processes : ListingInv(p)
  BY <1>1 DEF ListingInv
<1> QED
  BY <1>1, <1>2, <1>4, <1>5 DEF SettledInv

LEMMA StutterSettled ==
  ASSUME SettledInv, UNCHANGED vars
  PROVE  SettledInv'
<1>1. UNCHANGED <<now, platform, gone, history, polled, txn>>
  BY DEF vars
<1>2. ASSUME NEW p \in Processes PROVE ListingInv(p)'
  <2>1. ListingInv(p) /\ UNCHANGED txn[p]
    BY <1>1 DEF SettledInv
  <2>2. CASE txn[p] = Idle
    BY <2>1, <2>2 DEF ListingInv
  <2>3. CASE txn[p] # Idle
    <3>1. \A e \in txn[p].seen : SeenInv(e)'
      BY <1>1, <2>1, <2>3, SeenStays DEF ListingInv
    <3>2. OnePage(p)'
      BY <2>1, <2>3 DEF ListingInv, OnePage
    <3>3. Sources(p)'
      BY <1>1, <2>1, <2>3 DEF ListingInv, Sources, RowOf, OfGuid
    <3>4. Written(p)'
      BY <1>1, <2>1, <2>3 DEF ListingInv, Written, Repeats, Newest, OfGuid, Seen
    <3>5. PageByPage(p)'
      BY <1>1, <2>1, <2>3 DEF ListingInv, PageByPage, Rank
    <3> QED
      BY <2>1, <3>1, <3>2, <3>3, <3>4, <3>5 DEF ListingInv
  <2> QED
    BY <2>2, <2>3
<1>3. \A g \in DOMAIN platform' : EntityInv(g)'
  BY <1>1 DEF SettledInv, EntityInv, Repeats, Newest, OfGuid
<1>4. CreatedInOrder'
  BY <1>1 DEF SettledInv, CreatedInOrder, Known
<1> QED
  BY <1>1, <1>2, <1>3, <1>4 DEF SettledInv

LEMMA NextSettled ==
  ASSUME ParametersAssumption, GuidsAssumption, OneProcess, IInv, TypeOK', SettledInv,
         [Next]_vars
  PROVE  SettledInv' /\ [Settled]_vars
<1>1. CASE Tick
  BY <1>1, TickSettled DEF Tick, Settled
<1>2. ASSUME NEW v \in Values, NEW k \in Range(KindNames), NEW g \in Guids, Create(k, g, v)
      PROVE  SettledInv' /\ Settled
  BY <1>2, CreateSettled DEF Create, Settled
<1>3. ASSUME NEW v \in Values, NEW g \in Guids, Change(g, v)
      PROVE  SettledInv' /\ Settled
  BY <1>3, ChangeSettled DEF Change, Settled
<1>4. ASSUME NEW g \in Guids, Remove(g)
      PROVE  SettledInv' /\ Settled
  BY <1>4, RemoveSettled DEF Remove, Settled
<1>5. ASSUME NEW p \in Processes, Step(p)
      PROVE  SettledInv' /\ Settled
  <2>1. CASE \/ Initialise(p)
             \/ CollectServices(p) \/ CollectServicePlans(p) \/ CollectOrgs(p)
             \/ CollectSpaces(p)
    <3>1. UNCHANGED history
      BY <2>1, Zenon DEF Initialise, CollectServices, CollectServicePlans, CollectOrgs,
         CollectSpaces, Collect, Begin
    <3> QED
      BY <2>1, <3>1, CollectSettled DEF Settled
  <2>2. CASE ListServices(p) \/ ListServicePlans(p) \/ ListOrgs(p) \/ ListSpaces(p)
    <3>1. PICK kind \in Range(KindNames) : ListPage(p, kind)
      BY <2>2, KindFacts DEF ListServices, ListServicePlans, ListOrgs, ListSpaces
    <3> QED
      BY <3>1, ListPageSettled DEF ListPage, Settled
  <2>3. CASE collectServices(p) \/ collectOrgs(p) \/ collectSpaces(p)
    <3>1. PICK kind : txn[p] # Idle /\ Plain(p, kind)
      BY <2>3 DEF collectServices, collectOrgs, collectSpaces
    <3> QED
      BY <3>1, PlainSettled DEF Plain, Prepare, Settled
  <2>4. CASE collectServicePlans(p)
    BY <2>4, collectServicePlansSettled DEF collectServicePlans, Prepare, Settled
  <2>5. CASE Insert(p)
    BY <2>5, InsertSettled DEF Insert, Settled
  <2>6. CASE NextKind(p)
    BY <2>6, NextKindSettled DEF NextKind, Settled
  <2>7. CASE Commit(p)
    BY <2>7, CommitSettled, CommitKeepsPast
  <2> QED
    BY <1>5, <2>1, <2>2, <2>3, <2>4, <2>5, <2>6, <2>7 DEF Step
<1>6. ASSUME NEW p \in Processes, Fail(p) \/ Crash(p)
      PROVE  SettledInv' /\ Settled
  BY <1>6, EndSettled DEF Fail, Crash, Settled
<1>7. CASE UNCHANGED vars
  BY <1>7, StutterSettled
<1> QED
  BY <1>1, <1>2, <1>3, <1>4, <1>5, <1>6, <1>7 DEF Next

(* With one collector process, what the rows say of an entity before its   *)
(* last committed listing never changes: a bill for the past keeps its     *)
(* names and plans, whatever is listed, fails or is rolled back later.     *)
THEOREM PastStaysSettled ==
  ASSUME ParametersAssumption, GuidsAssumption, OneProcess
  PROVE  Spec => PastIsSettled
<1>1. Init => SettledInv
  BY InitSettled
<1>2. IInv => TypeOK
  BY DEF IInv
<1>3. IInv /\ TypeOK' /\ SettledInv /\ [Next]_vars => SettledInv' /\ [Settled]_vars
  BY NextSettled
<1>4. Spec => []IInv
  BY Invariance
<1> QED
  BY <1>1, <1>2, <1>3, <1>4, PTL DEF Spec, PastIsSettled
==============================================================================
