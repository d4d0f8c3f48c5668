---------------------------- MODULE PricingProofs ----------------------------
(***************************************************************************)
(* Proofs about Pricing for every number of processes, all configuration   *)
(* files that share a VAT rate, and all usage.                             *)
(*                                                                         *)
(* The committed tables are always those of one file, plus dummy rows      *)
(* (OneFile).  That rests on the VAT rates: an Init that has got past      *)
(* replacing them has deleted all there are and keeps every other Init     *)
(* out until it commits (HeldRates, OneInit), so what it finds to delete   *)
(* in the other tables is all that an Init ever wrote there (Doomed).      *)
(***************************************************************************)
EXTENDS Deployment, FiniteSetTheorems, WellFoundedInduction, TLAPS

PCs == {"down", "starting", "rates", "deleting", "deleted", "inserted", "up",
        "events", "generated", "check", "checked"}

DummyPlans == {[guid |-> u.guid, from |-> Epoch, by |-> Dummy] : u \in Usage}
DummyParts == {[guid |-> u.guid, from |-> Epoch, part |-> StandardPart,
                by |-> Dummy] : u \in Usage}

AllPlans == DummyPlans \cup UNION {PlanRows(c) : c \in Configs}

VatOf(c) == RateRows(VatRatesOf[c], c)
CurrencyOf(c) == RateRows(CurrencyRatesOf[c], c)

(* A file that has passed the checks of the rates.                         *)
Rated(c) == RatesMissing(PartRows(c), VatOf(c), CurrencyOf(c)) = {}

(* The committed tables are those of file c and dummy rows.                *)
TablesOf(c) ==
  /\ vatRates = VatOf(c)
  /\ currencyRates = CurrencyOf(c)
  /\ PlanRows(c) \subseteq plans /\ plans \subseteq PlanRows(c) \cup DummyPlans
  /\ parts \subseteq PartRows(c) \cup DummyParts
  /\ Rated(c)

OneFile == \E c \in Configs : TablesOf(c)

ProcessState ==
  /\ pc \in [Processes -> PCs]
  /\ config \in [Processes -> Configs \cup {NoConfig}]
  /\ doomedRates \in [Processes -> {{}} \cup {VatOf(c) : c \in Configs}]
  /\ doomedPlans \in [Processes -> SUBSET AllPlans]
  /\ newPlans \in [Processes -> SUBSET DummyPlans]
  /\ newParts \in [Processes -> SUBSET DummyParts]

OneInit == \A p, q \in Processes : p # q /\ HoldsRates(p) => ~HoldsRates(q)

HeldRates == \A p \in Processes : HoldsRates(p) => doomedRates[p] = vatRates

Doomed ==
  \A p \in Processes : pc[p] \in {"deleting", "deleted", "inserted"} =>
    plans \ DummyPlans \subseteq doomedPlans[p]

(* Plans to which an open transaction has added a component stay.          *)
OpenParts ==
  /\ \A p \in Processes : pc[p] # "check" => newParts[p] = {}
  /\ \A p \in Processes, y \in DummyParts : y \in newParts[p] =>
       /\ \E x \in plans \cup newPlans[p] : SameKey(x, y)
       /\ \A q \in Processes : pc[q] \in {"deleted", "inserted"} =>
            \A x \in doomedPlans[q] : ~SameKey(x, y)

IInv == /\ TypeOK
        /\ ProcessState
        /\ OneFile
        /\ OneInit
        /\ HeldRates
        /\ Doomed
        /\ OpenParts
        /\ NoOrphanParts

------------------------------------------------------------------------------
(* What rows look like.                                                    *)

LEMMA PlanRowFacts ==
  ASSUME NEW c \in Configs, NEW x \in PlanRows(c)
  PROVE  x.from \in Instants /\ x.by = c /\ x \notin DummyPlans
<1>1. PICK f \in PlansOf[c] : x = [guid |-> f.guid, from |-> f.from, by |-> c]
  BY DEF PlanRows
<1> QED
  BY <1>1, ConfigAssumption, TimeAssumption DEF DummyPlans

(* A component of a file is one of a plan of the file.                     *)
LEMMA PartRowFacts ==
  ASSUME NEW c \in Configs, NEW y \in PartRows(c)
  PROVE  /\ y.from \in Instants /\ y.by = c
         /\ \E x \in PlanRows(c) : SameKey(x, y)
<1>1. PICK f \in PlansOf[c] : \E z \in f.parts :
        y = [guid |-> f.guid, from |-> f.from, part |-> z, by |-> c]
  BY DEF PartRows
<1>2. [guid |-> f.guid, from |-> f.from, by |-> c] \in PlanRows(c)
  BY DEF PlanRows
<1>3. SameKey([guid |-> f.guid, from |-> f.from, by |-> c], y)
  BY <1>1 DEF SameKey
<1>4. y.from \in Instants /\ y.by = c
  BY <1>1, TimeAssumption
<1> QED
  BY <1>2, <1>3, <1>4

LEMMA RateRowFacts ==
  ASSUME NEW c \in Configs, NEW r \in VatOf(c) \cup CurrencyOf(c)
  PROVE  /\ r.from \in Instants
         /\ r = [code |-> r.code, from |-> r.from, by |-> c]
<1>1. PICK f \in VatRatesOf[c] \cup CurrencyRatesOf[c] :
        r = [code |-> f.code, from |-> f.from, by |-> c]
  BY DEF VatOf, CurrencyOf, RateRows
<1>2. f.from \in Instants
  BY TimeAssumption
<1> QED
  BY <1>1, <1>2

LEMMA DummyFacts ==
  /\ \A x \in DummyPlans : x.from = Epoch /\ x.by = Dummy /\ x.from \in Instants
  /\ \A y \in DummyParts : y.from = Epoch /\ y.by = Dummy /\ y.from \in Instants
  BY HorizonAssumption DEF DummyPlans, DummyParts, Epoch, Instants

(* The rows of one file and dummies have the types of rows.                *)
LEMMA RowTypes ==
  ASSUME NEW c \in Configs, TablesOf(c)
  PROVE  \A r \in Rows : /\ r.from \in Instants
                         /\ r.by \in {c, Dummy}
<1>1. ASSUME NEW r \in vatRates \cup currencyRates
      PROVE  r.from \in Instants /\ r.by = c
  BY <1>1, RateRowFacts DEF TablesOf
<1>2. ASSUME NEW r \in plans
      PROVE  r.from \in Instants /\ r.by \in {c, Dummy}
  BY <1>2, PlanRowFacts, DummyFacts DEF TablesOf
<1>3. ASSUME NEW r \in parts
      PROVE  r.from \in Instants /\ r.by \in {c, Dummy}
  BY <1>3, PartRowFacts, DummyFacts DEF TablesOf
<1> QED
  BY <1>1, <1>2, <1>3 DEF Rows

------------------------------------------------------------------------------
(* Rows of the tables are typed whenever the tables are those of one file. *)
RowsTyped == \A r \in Rows : r.from \in Instants /\ r.by \in Configs \cup {Dummy}

LEMMA OneFileTyped == OneFile => RowsTyped
  BY RowTypes DEF OneFile, RowsTyped

------------------------------------------------------------------------------
(* Steps that leave the pricing tables alone.                              *)

(* A step of p does not touch the state of q.                              *)
Untouched(q) ==
  /\ pc'[q] = pc[q] /\ config'[q] = config[q]
  /\ doomedRates'[q] = doomedRates[q] /\ doomedPlans'[q] = doomedPlans[q]
  /\ newPlans'[q] = newPlans[q] /\ newParts'[q] = newParts[q]

LEMMA PriceFrame ==
  ASSUME IInv, UNCHANGED priceVars
  PROVE  OneFile' /\ NoOrphanParts' /\ Rows' = Rows
  BY DEF IInv, priceVars, OneFile, TablesOf, NoOrphanParts, SameKey, Rows, VatOf,
         CurrencyOf, PlanRows, PartRows, RateRows, DummyPlans, DummyParts, Rated

(* Usage and its tables keep their types as long as tables do.             *)
LEMMA TypeFrame ==
  ASSUME IInv, ProcessState', OneFile',
         UNCHANGED usageVars,
         NEW p \in Processes,
         \A q \in Processes \ {p} : Untouched(q),
         pc'[p] = "down" <=> config'[p] = NoConfig,
         pc'[p] \notin {"generated", "check"} => newPlans'[p] = {},
         pc'[p] \in {"up", "events", "checked"} => doomedRates'[p] = {}
  PROVE  TypeOK'
<1>1. RowsTyped'
  BY OneFileTyped, PTL
<1>2. \A r \in Rows' : r.from \in Instants /\ r.by \in Configs \cup {Dummy}
  BY <1>1 DEF RowsTyped
<1> QED
  BY <1>2 DEF IInv, TypeOK, ProcessState, Untouched, usageVars

(* A step of p alone that keeps tables and usage: what is left to show.    *)
LEMMA OwnStep ==
  ASSUME IInv, NEW p \in Processes, UNCHANGED <<priceVars, usageVars>>,
         \A q \in Processes \ {p} : Untouched(q),
         ProcessState', OneInit', HeldRates', Doomed', OpenParts',
         pc'[p] = "down" <=> config'[p] = NoConfig,
         pc'[p] \notin {"generated", "check"} => newPlans'[p] = {},
         pc'[p] \in {"up", "events", "checked"} => doomedRates'[p] = {}
  PROVE  IInv'
<1>1. OneFile' /\ NoOrphanParts'
  BY PriceFrame
<1>2. TypeOK'
  BY <1>1, TypeFrame
<1> QED
  BY <1>1, <1>2 DEF IInv

LEMMA StartInitStep ==
  ASSUME IInv, NEW p \in Processes, NEW c \in Configs, StartInit(p, c)
  PROVE  IInv'
<1>1. /\ pc[p] = "down" /\ pc' = [pc EXCEPT ![p] = "starting"]
      /\ config' = [config EXCEPT ![p] = c]
      /\ doomedRates' = [doomedRates EXCEPT ![p] = vatRates]
      /\ UNCHANGED <<priceVars, usageVars, doomedPlans, newPlans, newParts>>
      /\ UNCHANGED <<vatRates, plans>>
  BY DEF StartInit, Goto, priceVars
<1>2. /\ pc'[p] = "starting" /\ config'[p] = c /\ newPlans[p] = {}
      /\ doomedRates'[p] = vatRates
      /\ \A q \in Processes \ {p} : Untouched(q)
  BY <1>1 DEF IInv, ProcessState, TypeOK, Untouched
<1>3. vatRates \in {VatOf(d) : d \in Configs}
  BY DEF IInv, OneFile, TablesOf
<1>4. ProcessState'
  BY <1>1, <1>3 DEF IInv, ProcessState, PCs
<1>5. OneInit' /\ HeldRates' /\ Doomed' /\ OpenParts'
  BY <1>1, <1>2 DEF IInv, OneInit, HeldRates, Doomed, OpenParts, HoldsRates, Untouched
<1> QED
  BY <1>1, <1>2, <1>4, <1>5, OwnStep, ConfigAssumption

(* Any two files share a VAT rate, so rates that were committed since the  *)
(* DELETE of this Init make its insert fail.                               *)
LEMMA AllRatesFound ==
  ASSUME IInv, NEW p \in Processes, config[p] \in Configs,
         \A r \in VatRatesOf[config[p]], s \in vatRates \ doomedRates[p] :
            ~(r.code = s.code /\ r.from = s.from)
  PROVE  doomedRates[p] = vatRates
<1>1. PICK d \in Configs : vatRates = VatOf(d)
  BY DEF IInv, OneFile, TablesOf
<1>2. PICK r \in VatRatesOf[config[p]] \cap VatRatesOf[d] : TRUE
  BY VatAssumption
<1>3. [code |-> r.code, from |-> r.from, by |-> d] \in vatRates
  BY <1>1 DEF VatOf, RateRows
<1>4. [code |-> r.code, from |-> r.from, by |-> d] \in doomedRates[p]
  BY <1>3
<1>5. PICK e \in Configs : doomedRates[p] = VatOf(e)
  BY <1>4 DEF IInv, ProcessState
<1>6. [code |-> r.code, from |-> r.from, by |-> d].by = e
  BY <1>4, <1>5 DEF VatOf, RateRows
<1> QED
  BY <1>1, <1>5, <1>6

LEMMA ReplaceRatesStep ==
  ASSUME IInv, NEW p \in Processes, ReplaceRates(p)
  PROVE  IInv'
<1>1. /\ pc[p] = "starting" /\ pc' = [pc EXCEPT ![p] = "rates"]
      /\ \A q \in Processes \ {p} : ~HoldsRates(q)
      /\ UNCHANGED <<priceVars, usageVars, config, txVars>>
      /\ UNCHANGED <<vatRates, plans, doomedRates, doomedPlans, newPlans, newParts>>
  BY DEF ReplaceRates, Goto, priceVars, txVars
<1>2. /\ pc'[p] = "rates" /\ config[p] \in Configs /\ newPlans[p] = {}
      /\ \A q \in Processes \ {p} : Untouched(q)
  BY <1>1 DEF IInv, ProcessState, TypeOK, Untouched
<1>3. doomedRates[p] = vatRates
  BY <1>2, AllRatesFound DEF ReplaceRates
<1>4. ProcessState'
  BY <1>1 DEF IInv, ProcessState, PCs
<1>5. OneInit' /\ HeldRates' /\ Doomed' /\ OpenParts'
  BY <1>1, <1>2, <1>3
     DEF IInv, OneInit, HeldRates, Doomed, OpenParts, HoldsRates, Untouched
<1> QED
  BY <1>1, <1>2, <1>4, <1>5, OwnStep, ConfigAssumption

LEMMA BeginDeletePlansStep ==
  ASSUME IInv, NEW p \in Processes, BeginDeletePlans(p)
  PROVE  IInv'
<1>1. /\ pc[p] = "rates" /\ pc' = [pc EXCEPT ![p] = "deleting"]
      /\ doomedPlans' = [doomedPlans EXCEPT ![p] = plans]
      /\ UNCHANGED <<priceVars, usageVars, config, doomedRates, newPlans, newParts>>
      /\ UNCHANGED <<vatRates, plans>>
  BY DEF BeginDeletePlans, Goto, priceVars
<1>2. /\ pc'[p] = "deleting" /\ config[p] \in Configs /\ newPlans[p] = {}
      /\ doomedPlans'[p] = plans
      /\ \A q \in Processes \ {p} : Untouched(q)
  BY <1>1 DEF IInv, ProcessState, TypeOK, Untouched
<1>3. plans \in SUBSET AllPlans
  BY DEF IInv, OneFile, TablesOf, AllPlans
<1>4. ProcessState'
  BY <1>1, <1>3 DEF IInv, ProcessState, PCs
<1>5. OneInit' /\ HeldRates' /\ Doomed' /\ OpenParts'
  BY <1>1, <1>2 DEF IInv, OneInit, HeldRates, Doomed, OpenParts, HoldsRates, Untouched
<1> QED
  BY <1>1, <1>2, <1>4, <1>5, OwnStep, ConfigAssumption

LEMMA DeletePlansStep ==
  ASSUME IInv, NEW p \in Processes, DeletePlans(p)
  PROVE  IInv'
<1>1. /\ pc[p] = "deleting" /\ pc' = [pc EXCEPT ![p] = "deleted"]
      /\ \A q \in Processes, x \in doomedPlans[p] :
            \A y \in newParts[q] : ~SameKey(x, y)
      /\ UNCHANGED <<priceVars, usageVars, config, txVars>>
      /\ UNCHANGED <<vatRates, plans, doomedRates, doomedPlans, newPlans, newParts>>
  BY DEF DeletePlans, Goto, priceVars, txVars
<1>2. /\ pc'[p] = "deleted" /\ config[p] \in Configs /\ newPlans[p] = {}
      /\ \A q \in Processes \ {p} : Untouched(q)
  BY <1>1 DEF IInv, ProcessState, TypeOK, Untouched
<1>3. ProcessState'
  BY <1>1 DEF IInv, ProcessState, PCs
<1>4. OneInit' /\ HeldRates' /\ Doomed'
  BY <1>1, <1>2 DEF IInv, OneInit, HeldRates, Doomed, HoldsRates, Untouched
<1>5. OpenParts'
  BY <1>1, <1>2 DEF IInv, OpenParts, Untouched
<1> QED
  BY <1>1, <1>2, <1>3, <1>4, <1>5, OwnStep, ConfigAssumption

LEMMA InsertPlansStep ==
  ASSUME IInv, NEW p \in Processes, InsertPlans(p)
  PROVE  IInv'
<1>1. /\ pc[p] = "deleted" /\ pc' = [pc EXCEPT ![p] = "inserted"]
      /\ UNCHANGED <<priceVars, usageVars, config, txVars>>
      /\ UNCHANGED <<vatRates, plans, doomedRates, doomedPlans, newPlans, newParts>>
  BY DEF InsertPlans, Goto, priceVars, txVars
<1>2. /\ pc'[p] = "inserted" /\ config[p] \in Configs /\ newPlans[p] = {}
      /\ \A q \in Processes \ {p} : Untouched(q)
  BY <1>1 DEF IInv, ProcessState, TypeOK, Untouched
<1>3. ProcessState'
  BY <1>1 DEF IInv, ProcessState, PCs
<1>4. OneInit' /\ HeldRates' /\ Doomed' /\ OpenParts'
  BY <1>1, <1>2 DEF IInv, OneInit, HeldRates, Doomed, OpenParts, HoldsRates, Untouched
<1> QED
  BY <1>1, <1>2, <1>3, <1>4, OwnStep, ConfigAssumption

(* A transaction that ends without effect.                                 *)
LEMMA EndTxStep ==
  ASSUME IInv, NEW p \in Processes,
         NEW there \in {"up", "down"},
         pc' = [pc EXCEPT ![p] = there],
         config' = [config EXCEPT ![p] = IF there = "down" THEN NoConfig ELSE @],
         there = "up" => pc[p] # "down",
         EndTx(p), UNCHANGED <<priceVars, usageVars>>
  PROVE  IInv'
<1>1. UNCHANGED <<vatRates, plans>>
  BY DEF priceVars
<1>2. /\ pc'[p] = there
      /\ there = "down" => config'[p] = NoConfig
      /\ there = "up" => config'[p] = config[p] /\ config[p] # NoConfig
      /\ doomedRates'[p] = {} /\ newPlans'[p] = {} /\ newParts'[p] = {}
      /\ \A q \in Processes \ {p} : Untouched(q)
  BY DEF IInv, ProcessState, TypeOK, EndTx, Untouched
<1>3. ProcessState'
  BY DEF IInv, ProcessState, EndTx, PCs
<1>4. OneInit' /\ HeldRates' /\ Doomed'
  BY <1>1, <1>2 DEF IInv, OneInit, HeldRates, Doomed, HoldsRates, Untouched
<1>5. OpenParts'
  BY <1>1, <1>2 DEF IInv, OpenParts, Untouched
<1> QED
  BY <1>2, <1>3, <1>4, <1>5, OwnStep

LEMMA StopStep ==
  ASSUME IInv, NEW p \in Processes, Stop(p)
  PROVE  IInv'
  BY EndTxStep DEF Stop

LEMMA FailRefreshStep ==
  ASSUME IInv, NEW p \in Processes, FailRefresh(p)
  PROVE  IInv'
<1>1. config' = [config EXCEPT ![p] = @]
  BY DEF FailRefresh, IInv, ProcessState
<1> QED
  BY <1>1, EndTxStep DEF FailRefresh

------------------------------------------------------------------------------
(* Refresh.                                                                *)

LEMMA UseStep ==
  ASSUME IInv, NEW u \in Usage, Use(u)
  PROVE  IInv'
<1>1. /\ used' = used \cup {u}
      /\ UNCHANGED <<priceVars, vatRates, currencyRates, plans, parts, events,
                     components, pc, config, doomedRates, doomedPlans, newPlans,
                     newParts>>
  BY DEF Use, priceVars, txVars
<1>2. OneFile' /\ NoOrphanParts' /\ Rows' = Rows
  BY <1>1, PriceFrame
<1>3. TypeOK'
  BY <1>1, <1>2 DEF IInv, TypeOK
<1>4. ProcessState' /\ OneInit' /\ HeldRates' /\ Doomed' /\ OpenParts'
  BY <1>1 DEF IInv, ProcessState, OneInit, HeldRates, Doomed, OpenParts, HoldsRates
<1> QED
  BY <1>2, <1>3, <1>4 DEF IInv

(* Steps of p from place to place that change at most events and components. *)
LEMMA RefreshMove ==
  ASSUME IInv, NEW p \in Processes, NEW there \in {"up", "events", "check"},
         pc' = [pc EXCEPT ![p] = there],
         pc[p] \in {"up", "events", "checked"},
         UNCHANGED <<priceVars, used, config, txVars>>,
         events' \subseteq used,
         \A r \in components' : r.event \in Usage /\ r.span # {}
  PROVE  IInv'
<1>1. UNCHANGED <<vatRates, currencyRates, plans, parts, doomedRates, doomedPlans,
                  newPlans, newParts>>
  BY DEF priceVars, txVars
<1>2. /\ pc'[p] = there /\ config[p] # NoConfig
      /\ doomedRates[p] = {} /\ newPlans[p] = {} /\ newParts[p] = {}
      /\ \A q \in Processes \ {p} : Untouched(q)
  BY <1>1 DEF IInv, ProcessState, TypeOK, OpenParts, Untouched
<1>3. OneFile' /\ NoOrphanParts' /\ Rows' = Rows
  BY PriceFrame
<1>4. ProcessState'
  BY <1>1 DEF IInv, ProcessState, PCs
<1>5. TypeOK'
  BY <1>1, <1>2, <1>3 DEF IInv, TypeOK, Untouched
<1>6. OneInit' /\ HeldRates' /\ Doomed' /\ OpenParts'
  BY <1>1, <1>2 DEF IInv, OneInit, HeldRates, Doomed, OpenParts, HoldsRates, Untouched
<1> QED
  BY <1>3, <1>4, <1>5, <1>6 DEF IInv

LEMMA CreateEventsStep ==
  ASSUME IInv, NEW p \in Processes, CreateEvents(p)
  PROVE  IInv'
  BY RefreshMove DEF CreateEvents, Goto, IInv, TypeOK

LEMMA SkipGenerationStep ==
  ASSUME IInv, NEW p \in Processes, SkipGeneration(p)
  PROVE  IInv'
  BY RefreshMove DEF SkipGeneration, Goto, IInv, TypeOK, usageVars

(* A row is for the event it was made from, and for no empty time.         *)
LEMMA ComponentRowFacts ==
  ASSUME NEW u, NEW r \in ComponentRows(u)
  PROVE  /\ r.event = u
         /\ \E x \in PlansFor(u) : \E y \in PartsFor(x) :
              \E k \in CurrencyFor(u, x, y) : \E v \in VatFor(u, x, y, k) :
                r = [event |-> u, plan |-> x, part |-> y.part, currency |-> k,
                     vat |-> v,
                     span |-> CurrencySpan(u, x, k) \cap RateValidFor(v, vatRates)]
<1>1. PICK x \in PlansFor(u) : \E y \in PartsFor(x) :
        \E k \in CurrencyFor(u, x, y) : \E v \in VatFor(u, x, y, k) :
          r = [event |-> u, plan |-> x, part |-> y.part, currency |-> k, vat |-> v,
               span |-> CurrencySpan(u, x, k) \cap RateValidFor(v, vatRates)]
  BY DEF ComponentRows
<1>2. r.event = u
  BY <1>1
<1> QED
  BY <1>1, <1>2, Zenon

LEMMA BuildComponentsStep ==
  ASSUME IInv, NEW p \in Processes, BuildComponents(p)
  PROVE  IInv'
<1>1. ASSUME NEW r \in components'
      PROVE  r.event \in Usage /\ r.span # {}
  <2>1. PICK u \in events : r \in ComponentRows(u)
    BY <1>1 DEF BuildComponents
  <2>2. u \in Usage
    BY DEF IInv, TypeOK
  <2>3. PICK x \in PlansFor(u) : \E y \in PartsFor(x) :
          \E k \in CurrencyFor(u, x, y) : \E v \in VatFor(u, x, y, k) :
            r = [event |-> u, plan |-> x, part |-> y.part, currency |-> k, vat |-> v,
                 span |-> CurrencySpan(u, x, k) \cap RateValidFor(v, vatRates)]
    BY <2>1, ComponentRowFacts
  <2> QED
    BY <2>2, <2>3 DEF VatFor, RatesFor
<1> QED
  BY <1>1, RefreshMove DEF BuildComponents, Goto, IInv, TypeOK

LEMMA GeneratePlansStep ==
  ASSUME IInv, NEW p \in Processes, GeneratePlans(p)
  PROVE  IInv'
<1> DEFINE missing == {g \in PlansInUse : ~EpochRow(g, plans)}
           rows == {[guid |-> g, from |-> Epoch, by |-> Dummy] : g \in missing}
<1>1. /\ pc[p] = "events" /\ pc' = [pc EXCEPT ![p] = "generated"]
      /\ newPlans' = [newPlans EXCEPT ![p] = rows]
      /\ UNCHANGED <<priceVars, usageVars, config, doomedRates, doomedPlans, newParts>>
      /\ UNCHANGED <<vatRates, plans>>
  BY DEF GeneratePlans, Goto, priceVars
<1>2. rows \in SUBSET DummyPlans
  BY DEF PlansInUse, DummyPlans, IInv, TypeOK
<1> HIDE DEF rows
<1>3. /\ pc'[p] = "generated" /\ config[p] # NoConfig /\ newParts[p] = {}
      /\ \A q \in Processes \ {p} : Untouched(q)
  BY <1>1 DEF IInv, ProcessState, TypeOK, OpenParts, Untouched
<1>4. ProcessState'
  BY <1>1, <1>2 DEF IInv, ProcessState, PCs
<1>5. OneInit' /\ HeldRates' /\ Doomed'
  BY <1>1, <1>3 DEF IInv, OneInit, HeldRates, Doomed, HoldsRates, Untouched
<1>6. OpenParts'
  BY <1>1, <1>3 DEF IInv, OpenParts, Untouched
<1> QED
  BY <1>1, <1>3, <1>4, <1>5, <1>6, OwnStep

(* The plan of a dummy component exists, and no Init is about to drop it.  *)
LEMMA GeneratePartsStep ==
  ASSUME IInv, NEW p \in Processes, GenerateParts(p)
  PROVE  IInv'
<1> DEFINE missing == {g \in PlansInUse : ~EpochRow(g, parts)}
           rows == {[guid |-> g, from |-> Epoch, part |-> StandardPart,
                     by |-> Dummy] : g \in missing}
<1>1. /\ pc[p] = "generated" /\ pc' = [pc EXCEPT ![p] = "check"]
      /\ newParts' = [newParts EXCEPT ![p] = rows]
      /\ \A g \in missing : EpochRow(g, plans \cup newPlans[p])
      /\ \A q \in Processes \ {p}, g \in missing :
            pc[q] \in {"deleted", "inserted"} => ~EpochRow(g, doomedPlans[q])
      /\ UNCHANGED <<priceVars, usageVars, config, doomedRates, doomedPlans, newPlans>>
      /\ UNCHANGED <<vatRates, plans>>
  BY DEF GenerateParts, Goto, priceVars
<1>2. rows \in SUBSET DummyParts
  BY DEF PlansInUse, DummyParts, IInv, TypeOK
<1>3. \A y \in rows : \E g \in missing : y.guid = g /\ y.from = Epoch
  OBVIOUS
<1> HIDE DEF rows, missing
<1>4. /\ pc'[p] = "check" /\ config[p] # NoConfig /\ newParts'[p] = rows
      /\ \A q \in Processes \ {p} : Untouched(q)
  BY <1>1 DEF IInv, ProcessState, TypeOK, Untouched
<1>5. ProcessState'
  BY <1>1, <1>2 DEF IInv, ProcessState, PCs
<1>6. OneInit' /\ HeldRates' /\ Doomed'
  BY <1>1, <1>4 DEF IInv, OneInit, HeldRates, Doomed, HoldsRates, Untouched
<1>7. OpenParts'
  <2>1. ASSUME NEW y \in rows
        PROVE  /\ \E x \in plans \cup newPlans[p] : SameKey(x, y)
               /\ \A q \in Processes \ {p} : pc[q] \in {"deleted", "inserted"} =>
                    \A x \in doomedPlans[q] : ~SameKey(x, y)
    BY <1>1, <1>3 DEF EpochRow, SameKey
  <2> QED
    BY <1>1, <1>4, <2>1 DEF IInv, OpenParts, Untouched
<1> QED
  BY <1>1, <1>4, <1>5, <1>6, <1>7, OwnStep

LEMMA CheckPlansStep ==
  ASSUME IInv, NEW p \in Processes, CheckPlans(p)
  PROVE  IInv'
<1>1. /\ pc[p] = "check" /\ pc' = [pc EXCEPT ![p] = "checked"]
      /\ plans' = plans \cup newPlans[p]
      /\ parts' = parts \cup newParts[p]
      /\ doomedRates' = [doomedRates EXCEPT ![p] = {}]
      /\ doomedPlans' = [doomedPlans EXCEPT ![p] = {}]
      /\ newPlans' = [newPlans EXCEPT ![p] = {}]
      /\ newParts' = [newParts EXCEPT ![p] = {}]
      /\ UNCHANGED <<vatRates, currencyRates, usageVars, config>>
  BY DEF CheckPlans, Goto, EndTx
<1>2. /\ pc'[p] = "checked" /\ config[p] # NoConfig
      /\ doomedRates'[p] = {} /\ newPlans'[p] = {} /\ newParts'[p] = {}
      /\ newPlans[p] \subseteq DummyPlans /\ newParts[p] \subseteq DummyParts
      /\ \A q \in Processes \ {p} : Untouched(q)
  BY <1>1 DEF IInv, ProcessState, TypeOK, Untouched
<1>3. OneFile'
  <2>1. PICK c \in Configs : TablesOf(c)
    BY DEF IInv, OneFile
  <2>2. TablesOf(c)'
    BY <1>1, <1>2, <2>1
       DEF TablesOf, VatOf, CurrencyOf, PlanRows, PartRows, RateRows, DummyPlans,
           DummyParts, Rated
  <2> QED
    BY <2>2 DEF OneFile
<1>4. NoOrphanParts'
  <2>1. \A y \in newParts[p] : \E x \in plans \cup newPlans[p] : SameKey(x, y)
    BY <1>2 DEF IInv, OpenParts
  <2> QED
    BY <1>1, <2>1 DEF IInv, NoOrphanParts, SameKey
<1>5. ProcessState'
  BY <1>1 DEF IInv, ProcessState, PCs
<1>6. TypeOK'
  BY <1>1, <1>2, <1>3, <1>5, TypeFrame
<1>7. OneInit' /\ HeldRates' /\ Doomed'
  BY <1>1, <1>2 DEF IInv, OneInit, HeldRates, Doomed, HoldsRates, Untouched
<1>8. OpenParts'
  BY <1>1, <1>2 DEF IInv, OpenParts, Untouched
<1> QED
  BY <1>3, <1>4, <1>5, <1>6, <1>7, <1>8 DEF IInv

------------------------------------------------------------------------------
(* The commit of an Init.                                                  *)

(* What it keeps of the plans and components are dummy rows.               *)
LEMMA OnlyDummiesStay ==
  ASSUME IInv, NEW p \in Processes, pc[p] = "inserted"
  PROVE  /\ plans \ doomedPlans[p] \subseteq DummyPlans
         /\ {y \in parts : \A x \in doomedPlans[p] : ~SameKey(x, y)} \subseteq DummyParts
<1>1. plans \ DummyPlans \subseteq doomedPlans[p]
  BY DEF IInv, Doomed
<1>2. PICK c \in Configs : TablesOf(c)
  BY DEF IInv, OneFile
<1>3. ASSUME NEW y \in parts, y \notin DummyParts
      PROVE  \E x \in doomedPlans[p] : SameKey(x, y)
  <2>1. y \in PartRows(c)
    BY <1>2, <1>3 DEF TablesOf
  <2>2. PICK x \in PlanRows(c) : SameKey(x, y)
    BY <2>1, PartRowFacts
  <2>3. x \in plans \ DummyPlans
    BY <1>2, PlanRowFacts DEF TablesOf
  <2> QED
    BY <1>1, <2>2, <2>3
<1> QED
  BY <1>1, <1>3

LEMMA CommitInitStep ==
  ASSUME IInv, NEW p \in Processes, CommitInit(p)
  PROVE  IInv'
<1>0. PICK c \in Configs : c = config[p]
  BY ConfigAssumption DEF CommitInit, Goto, IInv, ProcessState, TypeOK
<1> DEFINE kept == {y \in parts : \A x \in doomedPlans[p] : ~SameKey(x, y)}
<1>1. /\ pc[p] = "inserted" /\ pc' = [pc EXCEPT ![p] = "up"]
      /\ RatesMissing(PartsAfter(p), RatesAfter(p), CurrencyAfter(p)) = {}
      /\ vatRates' = (vatRates \ doomedRates[p]) \cup VatOf(c)
      /\ currencyRates' = CurrencyOf(c)
      /\ plans' = (plans \ doomedPlans[p]) \cup PlanRows(c)
      /\ parts' = kept \cup PartRows(c)
      /\ doomedRates' = [doomedRates EXCEPT ![p] = {}]
      /\ doomedPlans' = [doomedPlans EXCEPT ![p] = {}]
      /\ newPlans' = [newPlans EXCEPT ![p] = {}]
      /\ newParts' = [newParts EXCEPT ![p] = {}]
      /\ UNCHANGED <<usageVars, config>>
  <2>1. /\ RatesAfter(p) = (vatRates \ doomedRates[p]) \cup VatOf(c)
        /\ CurrencyAfter(p) = CurrencyOf(c)
        /\ PlansAfter(p) = (plans \ doomedPlans[p]) \cup PlanRows(c)
        /\ PartsAfter(p) = kept \cup PartRows(c)
    <3>1. RatesAfter(p) = (vatRates \ doomedRates[p]) \cup VatOf(c)
      BY <1>0 DEF RatesAfter, VatOf
    <3>2. CurrencyAfter(p) = CurrencyOf(c)
      BY <1>0 DEF CurrencyAfter, CurrencyOf
    <3>3. PlansAfter(p) = (plans \ doomedPlans[p]) \cup PlanRows(c)
      BY <1>0 DEF PlansAfter
    <3>4. PartsAfter(p) = kept \cup PartRows(c)
      BY <1>0 DEF PartsAfter, SameKey
    <3> QED
      BY <3>1, <3>2, <3>3, <3>4
  <2> QED
    BY <2>1 DEF CommitInit, Goto, EndTx
<1>2. /\ pc'[p] = "up" /\ config[p] # NoConfig
      /\ doomedRates'[p] = {} /\ newPlans'[p] = {} /\ newParts'[p] = {}
      /\ \A q \in Processes \ {p} : Untouched(q)
  BY <1>1 DEF IInv, ProcessState, TypeOK, Untouched
<1>3. vatRates' = VatOf(c)
  BY <1>1 DEF IInv, HeldRates, HoldsRates
<1>4. plans \ doomedPlans[p] \subseteq DummyPlans /\ kept \subseteq DummyParts
  BY <1>1, OnlyDummiesStay
<1>5. Rated(c)
  <2>1. PartRows(c) \subseteq PartsAfter(p)
    BY <1>0 DEF PartsAfter
  <2>2. RatesAfter(p) = VatOf(c) /\ CurrencyAfter(p) = CurrencyOf(c)
    BY <1>0, <1>1, <1>3 DEF RatesAfter, CurrencyAfter, VatOf, CurrencyOf
  <2> QED
    BY <1>1, <2>1, <2>2 DEF Rated, RatesMissing
<1>6. \A q \in Processes \ {p} : ~HoldsRates(q)
  BY <1>1 DEF IInv, OneInit, HoldsRates
<1>7. NoOrphanParts'
  <2>1. \A y \in PartRows(c) : \E x \in PlanRows(c) : SameKey(x, y)
    BY PartRowFacts
  <2>2. \A y \in kept : \E x \in plans \ doomedPlans[p] : SameKey(x, y)
    BY DEF IInv, NoOrphanParts
  <2> QED
    BY <1>1, <2>1, <2>2 DEF NoOrphanParts, SameKey
<1> HIDE DEF kept
<1>8. OneFile'
  <2>1. TablesOf(c)'
    BY <1>1, <1>3, <1>4, <1>5
       DEF TablesOf, VatOf, CurrencyOf, PlanRows, PartRows, RateRows, DummyPlans,
           DummyParts, Rated
  <2> QED
    BY <2>1 DEF OneFile
<1>9. ProcessState'
  BY <1>1 DEF IInv, ProcessState, PCs
<1>10. TypeOK'
  BY <1>1, <1>2, <1>8, <1>9, TypeFrame
<1>11. OneInit' /\ HeldRates' /\ Doomed'
  BY <1>1, <1>2, <1>6 DEF IInv, OneInit, HeldRates, Doomed, HoldsRates, Untouched
<1>12. OpenParts'
  <2>1. ASSUME NEW q \in Processes, NEW y \in DummyParts, y \in newParts'[q]
        PROVE  /\ \E x \in plans' \cup newPlans'[q] : SameKey(x, y)
               /\ \A r \in Processes : pc'[r] \in {"deleted", "inserted"} =>
                    \A x \in doomedPlans'[r] : ~SameKey(x, y)
    <3>1. q # p /\ y \in newParts[q]
      BY <1>1, <1>2, <2>1 DEF Untouched
    <3>2. PICK x \in plans \cup newPlans[q] : SameKey(x, y)
      BY <3>1 DEF IInv, OpenParts
    <3>3. \A r \in Processes : pc[r] \in {"deleted", "inserted"} =>
            \A z \in doomedPlans[r] : ~SameKey(z, y)
      BY <3>1 DEF IInv, OpenParts
    <3>4. x \in plans' \cup newPlans'[q]
      BY <1>1, <1>2, <3>1, <3>2, <3>3 DEF Untouched
    <3> QED
      BY <1>1, <1>2, <3>2, <3>3, <3>4 DEF Untouched
  <2>2. \A q \in Processes : pc'[q] # "check" => newParts'[q] = {}
    BY <1>2 DEF IInv, OpenParts, Untouched
  <2> QED
    BY <2>1, <2>2 DEF OpenParts, SameKey, DummyParts
<1> QED
  BY <1>7, <1>8, <1>9, <1>10, <1>11, <1>12 DEF IInv

------------------------------------------------------------------------------
LEMMA InvariantInit ==
  ASSUME Init
  PROVE  IInv
<1> USE ConfigAssumption
<1>1. TablesOf(FirstConfig)
  BY FirstConfigAssumption DEF Init, TablesOf, VatOf, CurrencyOf, Rated
<1>2. OneFile
  BY <1>1 DEF OneFile
<1>3. ProcessState
  BY DEF Init, ProcessState, PCs
<1>4. TypeOK
  <2>1. RowsTyped
    BY <1>2, OneFileTyped
  <2> QED
    BY <2>1 DEF RowsTyped, Init, TypeOK
<1>5. NoOrphanParts
  BY PartRowFacts DEF Init, NoOrphanParts
<1>6. OneInit /\ HeldRates /\ Doomed /\ OpenParts
  BY DEF Init, OneInit, HeldRates, Doomed, OpenParts, HoldsRates
<1> QED
  BY <1>2, <1>3, <1>4, <1>5, <1>6 DEF IInv

LEMMA StutterStep ==
  ASSUME IInv, UNCHANGED vars
  PROVE  IInv'
<1>1. UNCHANGED <<vatRates, currencyRates, plans, parts, used, events, components, pc,
                  config, doomedRates, doomedPlans, newPlans, newParts>>
  BY DEF vars, priceVars, usageVars, txVars
<1>2. OneFile' /\ NoOrphanParts' /\ Rows' = Rows
  BY <1>1, PriceFrame DEF priceVars
<1>3. TypeOK'
  BY <1>1, <1>2 DEF IInv, TypeOK
<1>4. ProcessState' /\ OneInit' /\ HeldRates' /\ Doomed' /\ OpenParts'
  BY <1>1 DEF IInv, ProcessState, OneInit, HeldRates, Doomed, OpenParts, HoldsRates
<1> QED
  BY <1>2, <1>3, <1>4 DEF IInv

LEMMA InvariantStep ==
  IInv /\ [Next]_vars => IInv'
<1> SUFFICES ASSUME IInv, [Next]_vars PROVE IInv'
  OBVIOUS
<1>1. ASSUME NEW p \in Processes, Step(p)
      PROVE  IInv'
  BY <1>1, StartInitStep, ReplaceRatesStep, BeginDeletePlansStep, DeletePlansStep,
     InsertPlansStep, CommitInitStep, StopStep, CreateEventsStep, GeneratePlansStep,
     GeneratePartsStep, SkipGenerationStep, CheckPlansStep, BuildComponentsStep,
     FailRefreshStep
     DEF Step
<1> QED
  BY <1>1, UseStep, StutterStep DEF Next

(* The inductive invariant holds in every reachable state.                 *)
THEOREM Invariance == Spec => []IInv
  BY InvariantInit, InvariantStep, PTL DEF Spec

(* Rows, usage and process states have their types.                        *)
THEOREM TypeCorrect == Spec => []TypeOK
<1>1. IInv => TypeOK
  BY DEF IInv
<1> QED
  BY <1>1, Invariance, PTL

(* Every committed component belongs to a committed plan.                  *)
THEOREM PartsHavePlans == Spec => []NoOrphanParts
<1>1. IInv => NoOrphanParts
  BY DEF IInv
<1> QED
  BY <1>1, Invariance, PTL

(* The committed rows are those of one configuration file and dummies.     *)
THEOREM TablesOfOneConfig == Spec => []OneConfig
<1>1. IInv => OneConfig
  <2> SUFFICES ASSUME IInv PROVE OneConfig
    OBVIOUS
  <2>1. PICK c \in Configs : TablesOf(c)
    BY DEF IInv, OneFile
  <2>2. {r.by : r \in Rows} \ {Dummy} \subseteq {c}
    BY <2>1, RowTypes
  <2>3. IsFiniteSet({c}) /\ Cardinality({c}) = 1
    BY FS_Singleton
  <2>4. /\ IsFiniteSet({r.by : r \in Rows} \ {Dummy})
        /\ Cardinality({r.by : r \in Rows} \ {Dummy}) =< 1
    BY <2>2, <2>3, FS_Subset
  <2> QED
    BY <2>4 DEF OneConfig
<1> QED
  BY <1>1, Invariance, PTL

------------------------------------------------------------------------------
(* Pricing.                                                                *)

(* Every combination that the joins find makes a row.                      *)
LEMMA RowOfJoin ==
  ASSUME NEW u, NEW x \in PlansFor(u), NEW y \in PartsFor(x),
         NEW k \in CurrencyFor(u, x, y), NEW v \in VatFor(u, x, y, k)
  PROVE  [event |-> u, plan |-> x, part |-> y.part, currency |-> k, vat |-> v,
          span |-> CurrencySpan(u, x, k) \cap RateValidFor(v, vatRates)]
           \in ComponentRows(u)
<1> DEFINE
      Row(a, b, c, d) ==
        [event |-> u, plan |-> a, part |-> b.part, currency |-> c, vat |-> d,
         span |-> CurrencySpan(u, a, c) \cap RateValidFor(d, vatRates)]
      OfCurrency(a, b, c) == {Row(a, b, c, d) : d \in VatFor(u, a, b, c)}
      OfPart(a, b) == UNION {OfCurrency(a, b, c) : c \in CurrencyFor(u, a, b)}
      OfPlan(a) == UNION {OfPart(a, b) : b \in PartsFor(a)}
<1>1. Row(x, y, k, v) \in OfCurrency(x, y, k)
  OBVIOUS
<1>2. ComponentRows(u) = UNION {OfPlan(a) : a \in PlansFor(u)}
  BY DEF ComponentRows
<1> HIDE DEF Row, OfCurrency
<1>3. Row(x, y, k, v) \in OfPart(x, y)
  BY <1>1
<1> HIDE DEF OfPart
<1>4. Row(x, y, k, v) \in OfPlan(x)
  BY <1>3
<1> HIDE DEF OfPlan
<1>5. Row(x, y, k, v) \in ComponentRows(u)
  BY <1>2, <1>4
<1> QED
  BY <1>5 DEF Row

(* Building the components fails rather than leave an event out.           *)
THEOREM NoEventLost == Spec => EveryEventPriced
<1>1. ASSUME NEW p \in Processes, BuildComponents(p), NEW u \in events
      PROVE  \E r \in components' : r.event = u
  <2>1. JoinsComplete(u) /\ ComponentRows(u) \subseteq components'
    BY <1>1 DEF BuildComponents
  <2>2. PICK x \in PlansFor(u) : \E y \in PartsFor(x) :
          \E k \in CurrencyFor(u, x, y) : \E v \in VatFor(u, x, y, k) : TRUE
    <3>1. PICK x \in PlansFor(u) : TRUE
      BY <2>1 DEF JoinsComplete
    <3>2. PICK y \in PartsFor(x) : TRUE
      BY <2>1, <3>1 DEF JoinsComplete
    <3>3. PICK k \in CurrencyFor(u, x, y) : TRUE
      BY <2>1, <3>1, <3>2 DEF JoinsComplete
    <3> QED
      BY <2>1, <3>1, <3>2, <3>3 DEF JoinsComplete
  <2>3. PICK y \in PartsFor(x) : \E k \in CurrencyFor(u, x, y) :
          \E v \in VatFor(u, x, y, k) : TRUE
    BY <2>2
  <2>4. PICK k \in CurrencyFor(u, x, y) : \E v \in VatFor(u, x, y, k) : TRUE
    BY <2>3
  <2>5. PICK v \in VatFor(u, x, y, k) : TRUE
    BY <2>4
  <2> DEFINE row == [event |-> u, plan |-> x, part |-> y.part, currency |-> k,
                     vat |-> v,
                     span |-> CurrencySpan(u, x, k) \cap RateValidFor(v, vatRates)]
  <2>6. row \in ComponentRows(u)
    BY RowOfJoin
  <2> QED
    BY <2>1, <2>6
<1>2. \A p \in Processes : BuildComponents(p) =>
        \A u \in events : \E r \in components' : r.event = u
  BY <1>1
<1> QED
  BY <1>2, PTL DEF Spec, EveryEventPriced

(* The numbers that are least in their set.                                *)
LEMMA LeastNat ==
  ASSUME NEW T \in SUBSET Nat, T # {}
  PROVE  \E n \in T : \A m \in T : n =< m
<1> DEFINE R == OpToRel(<, Nat)
<1>1. IsWellFoundedOn(R, Nat)
  BY NatLessThanWellFounded
<1>2. \A m, n \in Nat : m < n => <<m, n>> \in R
  BY DEF OpToRel
<1> HIDE DEF R
<1>3. PICK n \in T : \A m \in T : ~(<<m, n>> \in R)
  BY <1>1, WFMin
<1>4. \A m \in T : ~(m < n)
  BY <1>2, <1>3
<1> QED
  BY <1>4

(* When there is a rate from some instant on, there is one in force at     *)
(* every later one: the latest that has begun.                             *)
LEMMA LatestRate ==
  ASSUME NEW rates, \A r \in rates : r.from \in Instants,
         NEW code, NEW from \in Instants, HasRate(code, from, rates),
         NEW t \in Instants, from =< t
  PROVE  \E r \in rates : r.code = code /\ t \in RateValidFor(r, rates)
<1> DEFINE begun == {r \in rates : r.code = code /\ r.from =< t}
           ages == {t - r.from : r \in begun}
<1>1. t \in Nat /\ from \in Nat /\ \A r \in rates : r.from \in Nat
  BY HorizonAssumption DEF Instants
<1>2. begun # {}
  <2>1. PICK r \in rates : r.code = code /\ r.from =< from
    BY DEF HasRate
  <2>2. r.from =< t
    BY <1>1, <2>1
  <2> QED
    BY <2>1, <2>2
<1>3. ages \in SUBSET Nat /\ ages # {}
  BY <1>1, <1>2
<1>4. PICK age \in ages : \A n \in ages : age =< n
  BY <1>3, LeastNat
<1>5. PICK r \in begun : age = t - r.from
  OBVIOUS
<1>6. ASSUME NEW s \in rates, s.code = code, r.from < s.from
      PROVE  t < s.from
  <2>1. CASE s.from =< t
    <3>1. t - s.from \in ages
      BY <1>6, <2>1
    <3>2. t - r.from =< t - s.from
      BY <1>4, <1>5, <3>1
    <3> QED
      BY <1>1, <1>6, <3>2
  <2> QED
    BY <1>1, <2>1
<1> QED
  BY <1>6 DEF RateValidFor

(* No two rates of a file are in force at once.                            *)
LEMMA OneRateAt ==
  ASSUME NEW c \in Configs, NEW rates, rates = VatOf(c) \/ rates = CurrencyOf(c),
         NEW r \in rates, NEW s \in rates, r.code = s.code,
         NEW t \in RateValidFor(r, rates), t \in RateValidFor(s, rates)
  PROVE  r = s
<1>1. /\ r = [code |-> r.code, from |-> r.from, by |-> c] /\ r.from \in Nat
      /\ s = [code |-> s.code, from |-> s.from, by |-> c] /\ s.from \in Nat
  BY RateRowFacts, HorizonAssumption DEF Instants
<1>2. t \in Nat
  BY HorizonAssumption DEF RateValidFor, Instants
<1>3. ~(r.from < s.from) /\ ~(s.from < r.from)
  BY <1>1, <1>2 DEF RateValidFor
<1> QED
  BY <1>1, <1>3

(* The rates that the components of the file need are there.               *)
LEMMA PartsHaveRates ==
  ASSUME IInv, NEW y \in parts, y.by # Dummy
  PROVE  /\ y.from \in Instants
         /\ HasRate(y.part.vat, y.from, vatRates)
         /\ HasRate(y.part.currency, y.from, currencyRates)
<1>1. PICK c \in Configs : TablesOf(c)
  BY DEF IInv, OneFile
<1>2. y \in PartRows(c)
  BY <1>1, DummyFacts DEF TablesOf
<1> QED
  BY <1>1, <1>2, PartRowFacts DEF TablesOf, Rated, RatesMissing

(* The rows of event u at instant t, as the joins make them.               *)
LEMMA RowsAt ==
  ASSUME NEW p \in Processes, BuildComponents(p), NEW r \in components'
  PROVE  /\ r.plan \in PlansFor(r.event)
         /\ \E y \in PartsFor(r.plan) :
              /\ r.part = y.part
              /\ r.currency \in CurrencyFor(r.event, r.plan, y)
              /\ r.vat \in VatFor(r.event, r.plan, y, r.currency)
         /\ r.span = CurrencySpan(r.event, r.plan, r.currency)
                       \cap RateValidFor(r.vat, vatRates)
         /\ r = [event |-> r.event, plan |-> r.plan, part |-> r.part,
                 currency |-> r.currency, vat |-> r.vat, span |-> r.span]
<1>1. PICK u \in events : r \in ComponentRows(u)
  BY DEF BuildComponents
<1>2. PICK x \in PlansFor(u) : \E y \in PartsFor(x) :
        \E k \in CurrencyFor(u, x, y) : \E v \in VatFor(u, x, y, k) :
          r = [event |-> u, plan |-> x, part |-> y.part, currency |-> k, vat |-> v,
               span |-> CurrencySpan(u, x, k) \cap RateValidFor(v, vatRates)]
  BY <1>1, ComponentRowFacts
<1>3. PICK y \in PartsFor(x) :
        \E k \in CurrencyFor(u, x, y) : \E v \in VatFor(u, x, y, k) :
          r = [event |-> u, plan |-> x, part |-> y.part, currency |-> k, vat |-> v,
               span |-> CurrencySpan(u, x, k) \cap RateValidFor(v, vatRates)]
  BY <1>2
<1>4. PICK k \in CurrencyFor(u, x, y) : \E v \in VatFor(u, x, y, k) :
        r = [event |-> u, plan |-> x, part |-> y.part, currency |-> k, vat |-> v,
             span |-> CurrencySpan(u, x, k) \cap RateValidFor(v, vatRates)]
  BY <1>3
<1>5. PICK v \in VatFor(u, x, y, k) :
        r = [event |-> u, plan |-> x, part |-> y.part, currency |-> k, vat |-> v,
             span |-> CurrencySpan(u, x, k) \cap RateValidFor(v, vatRates)]
  BY <1>4
<1>6. r.event = u /\ r.plan = x /\ r.part = y.part /\ r.currency = k /\ r.vat = v
      /\ r.span = CurrencySpan(u, x, k) \cap RateValidFor(v, vatRates)
  BY <1>5
<1>7. r = [event |-> r.event, plan |-> r.plan, part |-> r.part,
           currency |-> r.currency, vat |-> r.vat, span |-> r.span]
  BY <1>5
<1> QED
  BY <1>6, <1>7

(* A row is made only from the plan in force.                              *)
LEMMA OnlyPlanInForce ==
  ASSUME IInv, NEW x \in plans, NEW t \in Instants
  PROVE  InForce(x, t) <=> t \in PlanValidFor(x, plans)
<1>1. t \in Nat /\ \A y \in plans : y.from \in Nat
  BY HorizonAssumption DEF IInv, TypeOK, Rows, Instants
<1> QED
  BY <1>1 DEF InForce, PlanValidFor

(* The joins find one rate in each table at an instant of an event for a   *)
(* component of the file, so they make one row.                            *)
LEMMA PricedOnce ==
  ASSUME IInv, NEW p \in Processes, BuildComponents(p),
         NEW u \in events, NEW t \in u.span,
         NEW x \in plans, x.guid = u.guid, InForce(x, t),
         NEW y \in PartsFor(x), y.by # Dummy
  PROVE  Cardinality({r \in components' : /\ r.event = u /\ t \in r.span
                                          /\ r.plan = x /\ r.part = y.part}) = 1
<1> DEFINE found == {r \in components' : /\ r.event = u /\ t \in r.span
                                         /\ r.plan = x /\ r.part = y.part}
<1>1. t \in Instants
  BY TimeAssumption DEF IInv, TypeOK
<1>2. t \in PlanValidFor(x, plans)
  BY <1>1, OnlyPlanInForce
<1>3. x \in PlansFor(u)
  BY <1>2 DEF PlansFor
<1>4. /\ y \in parts /\ y.from = x.from
      /\ y.from \in Instants /\ y.from =< t
      /\ HasRate(y.part.vat, y.from, vatRates)
      /\ HasRate(y.part.currency, y.from, currencyRates)
  BY <1>2, PartsHaveRates DEF PartsFor, SameKey, PlanValidFor
<1>5. PICK c \in Configs : vatRates = VatOf(c) /\ currencyRates = CurrencyOf(c)
  BY DEF IInv, OneFile, TablesOf
<1>6. \A r \in vatRates \cup currencyRates : r.from \in Instants
  BY <1>5, RateRowFacts
<1>7. PICK k \in currencyRates :
        k.code = y.part.currency /\ t \in RateValidFor(k, currencyRates)
  BY <1>1, <1>4, <1>6, LatestRate
<1>8. PICK v \in vatRates : v.code = y.part.vat /\ t \in RateValidFor(v, vatRates)
  BY <1>1, <1>4, <1>6, LatestRate
<1>9. t \in CurrencySpan(u, x, k)
  BY <1>2, <1>7 DEF CurrencySpan
<1>10. k \in CurrencyFor(u, x, y)
  BY <1>2, <1>7 DEF CurrencyFor, RatesFor
<1>11. v \in VatFor(u, x, y, k)
  BY <1>8, <1>9 DEF VatFor, RatesFor
<1> DEFINE row == [event |-> u, plan |-> x, part |-> y.part, currency |-> k, vat |-> v,
                   span |-> CurrencySpan(u, x, k) \cap RateValidFor(v, vatRates)]
<1>12. row \in found
  <2>1. row \in ComponentRows(u)
    BY <1>3, <1>10, <1>11, RowOfJoin
  <2>2. row \in components'
    BY <2>1 DEF BuildComponents
  <2> QED
    BY <1>8, <1>9, <2>2
<1>13. ASSUME NEW r \in found
       PROVE  r = row
  <2>1. /\ r.event = u /\ t \in r.span /\ r.plan = x /\ r.part = y.part
        /\ r.span = CurrencySpan(u, x, r.currency) \cap RateValidFor(r.vat, vatRates)
        /\ r = [event |-> r.event, plan |-> r.plan, part |-> r.part,
                currency |-> r.currency, vat |-> r.vat, span |-> r.span]
    BY RowsAt
  <2>2. PICK z \in PartsFor(x) : /\ y.part = z.part
                                 /\ r.currency \in CurrencyFor(u, x, z)
                                 /\ r.vat \in VatFor(u, x, z, r.currency)
    BY <2>1, RowsAt
  <2>3. /\ r.currency \in currencyRates /\ r.currency.code = y.part.currency
        /\ r.vat \in vatRates /\ r.vat.code = y.part.vat
    BY <2>2 DEF CurrencyFor, VatFor, RatesFor
  <2>4. /\ t \in RateValidFor(r.currency, currencyRates)
        /\ t \in RateValidFor(r.vat, vatRates)
    BY <2>1 DEF CurrencySpan
  <2>5. r.currency = k
    BY <1>5, <1>7, <2>3, <2>4, OneRateAt
  <2>6. r.vat = v
    BY <1>5, <1>8, <2>3, <2>4, OneRateAt
  <2> QED
    BY <2>1, <2>5, <2>6
<1>14. found = {row}
  BY <1>12, <1>13
<1> QED
  BY <1>14, FS_Singleton

(* What a Refresh prices, it prices exactly once, and by the plan in force. *)
THEOREM PricedOnceByPlanInForce == Spec => PricedExactlyOnce
<1>1. ASSUME IInv, NEW p \in Processes, BuildComponents(p),
             NEW u \in events, NEW t \in u.span
      PROVE  LET rows == {r \in components' : r.event = u /\ t \in r.span}
             IN /\ \A r \in rows : InForce(r.plan, t)
                /\ \A x \in plans : x.guid = u.guid /\ x.by # Dummy /\ InForce(x, t) =>
                     \A y \in PartsFor(x) : y.by # Dummy =>
                       Cardinality({r \in rows : r.plan = x /\ r.part = y.part}) = 1
  <2> DEFINE rows == {r \in components' : r.event = u /\ t \in r.span}
  <2>1. ASSUME NEW r \in rows
        PROVE  InForce(r.plan, t)
    <3>1. r.plan \in plans /\ t \in PlanValidFor(r.plan, plans)
      BY <1>1, RowsAt DEF PlansFor, CurrencySpan
    <3>2. t \in Instants
      BY <3>1 DEF PlanValidFor
    <3> QED
      BY <1>1, <3>1, <3>2, OnlyPlanInForce
  <2>2. ASSUME NEW x \in plans, x.guid = u.guid, InForce(x, t),
               NEW y \in PartsFor(x), y.by # Dummy
        PROVE  Cardinality({r \in rows : r.plan = x /\ r.part = y.part}) = 1
    <3>1. {r \in rows : r.plan = x /\ r.part = y.part}
            = {r \in components' : /\ r.event = u /\ t \in r.span
                                   /\ r.plan = x /\ r.part = y.part}
      OBVIOUS
    <3> QED
      BY <1>1, <2>2, <3>1, PricedOnce
  <2> QED
    BY <2>1, <2>2
<1>2. IInv => \A p \in Processes : BuildComponents(p) =>
        \A u \in events : \A t \in u.span :
          LET rows == {r \in components' : r.event = u /\ t \in r.span}
          IN /\ \A r \in rows : InForce(r.plan, t)
             /\ \A x \in plans : x.guid = u.guid /\ x.by # Dummy /\ InForce(x, t) =>
                  \A y \in PartsFor(x) : y.by # Dummy =>
                    Cardinality({r \in rows : r.plan = x /\ r.part = y.part}) = 1
  BY <1>1
<1> QED
  BY <1>2, Invariance, PTL DEF PricedExactlyOnce

------------------------------------------------------------------------------
(* Deployments.                                                            *)

(* Everything above holds of processes that are deployed, in either way.   *)
THEOREM DeploymentIsPricing == DeploySpec => Spec
<1>1. DeployInit => Init
  BY DEF DeployInit
<1>2. [DeployNext]_<<vars, overlap>> => [Next]_vars
  BY DEF DeployNext
<1> QED
  BY <1>1, <1>2, PTL DEF DeploySpec, Spec

OneRuns ==
  ~overlap => \A p, q \in Processes : pc[p] # "down" /\ pc[q] # "down" => p = q

(* From its generation on, every event has a plan since the epoch.         *)
PlansSinceEpoch ==
  ~overlap => \A p \in Processes : config[p] \in IgnoreMissing =>
    /\ pc[p] \in {"generated", "check"} =>
         \A u \in events : EpochRow(u.guid, plans \cup newPlans[p])
    /\ pc[p] = "checked" => \A u \in events : EpochRow(u.guid, plans)

(* Whoever takes a step is the one that runs.                              *)
LEMMA StepOfOne ==
  ASSUME IInv, OneRuns, ~overlap,
         \A p, q \in Processes : pc'[p] # "down" /\ pc'[q] # "down" => p = q,
         NEW p \in Processes, Step(p),
         NEW q \in Processes, pc'[q] # "down"
  PROVE  q = p
<1>1. pc' = [pc EXCEPT ![p] = pc'[p]] /\ (pc[p] # "down" \/ pc'[p] # "down")
  BY DEF IInv, ProcessState, Step, StartInit, ReplaceRates, BeginDeletePlans,
         DeletePlans, InsertPlans, CommitInit, Stop, CreateEvents, GeneratePlans,
         GenerateParts, SkipGeneration, CheckPlans, BuildComponents, FailRefresh, Goto
<1>2. q # p => pc'[q] = pc[q]
  BY <1>1 DEF IInv, ProcessState
<1> QED
  BY <1>1, <1>2 DEF OneRuns

LEMMA PlansSinceEpochStep ==
  ASSUME IInv, OneRuns, PlansSinceEpoch, DeployNext
  PROVE  PlansSinceEpoch'
<1> SUFFICES ASSUME ~overlap, NEW p \in Processes, config'[p] \in IgnoreMissing,
                    pc'[p] \in {"generated", "check", "checked"}
             PROVE  /\ pc'[p] \in {"generated", "check"} =>
                         \A u \in events' : EpochRow(u.guid, plans' \cup newPlans'[p])
                    /\ pc'[p] = "checked" =>
                         \A u \in events' : EpochRow(u.guid, plans')
  BY DEF PlansSinceEpoch, EpochRow, DeployNext
<1>1. ASSUME NEW u \in Usage, Use(u)
      PROVE  UNCHANGED <<pc, config, events, plans, newPlans>>
  BY <1>1 DEF Use, priceVars, txVars
<1>2. CASE UNCHANGED <<pc, config, events, plans, newPlans>>
  BY <1>2 DEF PlansSinceEpoch, EpochRow
<1>3. CASE \E q \in Processes : Step(q)
  <2>1. Step(p)
    BY <1>3, StepOfOne DEF DeployNext
  <2>2. CASE GeneratePlans(p)
    <3> DEFINE missing == {g \in PlansInUse : ~EpochRow(g, plans)}
    <3>1. /\ newPlans'[p] = {[guid |-> g, from |-> Epoch, by |-> Dummy] : g \in missing}
          /\ pc'[p] = "generated" /\ plans' = plans /\ events' = events
      BY <2>2 DEF GeneratePlans, Goto, IInv, ProcessState, priceVars, usageVars
    <3>2. ASSUME NEW u \in events
          PROVE  EpochRow(u.guid, plans \cup newPlans'[p])
      <4>1. CASE u.guid \in missing
        <5>1. [guid |-> u.guid, from |-> Epoch, by |-> Dummy] \in newPlans'[p]
          BY <3>1, <4>1
        <5> QED
          BY <5>1 DEF EpochRow
      <4>2. CASE u.guid \notin missing
        BY <4>2 DEF EpochRow, PlansInUse
      <4> QED
        BY <4>1, <4>2
    <3> QED
      BY <3>1, <3>2
  <2>3. CASE GenerateParts(p)
    <3>1. /\ pc[p] = "generated" /\ pc'[p] = "check"
          /\ UNCHANGED <<config, plans, events, newPlans>>
      BY <2>3 DEF GenerateParts, Goto, IInv, ProcessState, priceVars, usageVars
    <3> QED
      BY <3>1 DEF PlansSinceEpoch, EpochRow
  <2>4. CASE CheckPlans(p)
    <3>1. /\ pc[p] = "check" /\ pc'[p] = "checked"
          /\ plans' = plans \cup newPlans[p]
          /\ UNCHANGED <<config, events>>
      BY <2>4 DEF CheckPlans, Goto, IInv, ProcessState, usageVars
    <3> QED
      BY <3>1 DEF PlansSinceEpoch, EpochRow
  <2>5. CASE SkipGeneration(p)
    BY <2>5 DEF SkipGeneration
  <2>6. \/ GeneratePlans(p) \/ GenerateParts(p) \/ CheckPlans(p) \/ SkipGeneration(p)
    BY <2>1 DEF Step, StartInit, ReplaceRates, BeginDeletePlans, DeletePlans,
                InsertPlans, CommitInit, Stop, CreateEvents, BuildComponents,
                FailRefresh, Goto, IInv, ProcessState
  <2> QED
    BY <2>2, <2>3, <2>4, <2>5, <2>6
<1> QED
  BY <1>1, <1>2, <1>3 DEF DeployNext, Next

(* A plan that exists since the epoch has a version in force at any time.  *)
LEMMA LatestPlan ==
  ASSUME IInv, NEW g, EpochRow(g, plans), NEW t \in Instants
  PROVE  \E x \in plans : x.guid = g /\ t \in PlanValidFor(x, plans)
<1> DEFINE begun == {x \in plans : x.guid = g /\ x.from =< t}
           ages == {t - x.from : x \in begun}
<1>1. t \in Nat /\ Epoch =< t /\ \A x \in plans : x.from \in Nat
  BY HorizonAssumption DEF IInv, TypeOK, Rows, Instants, Epoch
<1>2. begun # {}
  BY <1>1 DEF EpochRow
<1>3. ages \in SUBSET Nat /\ ages # {}
  BY <1>1, <1>2
<1>4. PICK age \in ages : \A n \in ages : age =< n
  BY <1>3, LeastNat
<1>5. PICK x \in begun : age = t - x.from
  OBVIOUS
<1>6. ASSUME NEW y \in plans, y.guid = g, x.from < y.from
      PROVE  t < y.from
  <2>1. CASE y.from =< t
    <3>1. t - y.from \in ages
      BY <1>6, <2>1
    <3>2. t - x.from =< t - y.from
      BY <1>4, <1>5, <3>1
    <3> QED
      BY <1>1, <1>6, <3>2
  <2> QED
    BY <1>1, <2>1
<1> QED
  BY <1>6 DEF PlanValidFor

(* When the joins succeed, an instant at which a plan is in force is       *)
(* priced: the plan has components, and there is a rate for each.          *)
LEMMA PricedWherePlanned ==
  ASSUME IInv, NEW p \in Processes, BuildComponents(p),
         NEW u \in events, NEW t \in u.span,
         NEW x \in plans, x.guid = u.guid, t \in PlanValidFor(x, plans)
  PROVE  \E r \in components' : r.event = u /\ t \in r.span
<1>1. u \in Usage /\ t \in Instants /\ t \in Nat
  BY TimeAssumption, HorizonAssumption DEF IInv, TypeOK, Instants
<1>2. x \in PlansFor(u)
  BY DEF PlansFor
<1>3. PICK y \in PartsFor(x) : TRUE
  BY <1>2 DEF BuildComponents, JoinsComplete
<1>4. PICK c \in Configs : TablesOf(c)
  BY DEF IInv, OneFile
<1>5. \A r \in vatRates \cup currencyRates : r.from \in Instants
  BY <1>4, RateRowFacts DEF TablesOf
<1>6. /\ HasRate(y.part.vat, t, vatRates)
      /\ HasRate(y.part.currency, t, currencyRates)
  <2>1. CASE y.by # Dummy
    <3>1. /\ y \in parts /\ y.from \in Instants /\ y.from =< t
          /\ HasRate(y.part.vat, y.from, vatRates)
          /\ HasRate(y.part.currency, y.from, currencyRates)
      BY <2>1, PartsHaveRates DEF PartsFor, SameKey, PlanValidFor
    <3>2. y.from \in Nat /\ \A r \in vatRates \cup currencyRates : r.from \in Nat
      BY <1>5, <3>1, HorizonAssumption DEF Instants
    <3>3. \A r \in vatRates \cup currencyRates : r.from =< y.from => r.from =< t
      BY <1>1, <3>1, <3>2
    <3> QED
      BY <3>1, <3>3, Zenon DEF HasRate
  <2>2. CASE y.by = Dummy
    <3>1. y \in DummyParts
      BY <1>4, <2>2, PartRowFacts, ConfigAssumption DEF PartsFor, TablesOf
    <3>2. y.part = StandardPart
      BY <3>1 DEF DummyParts
    <3> QED
      BY <1>1, <1>4, <3>2, DummyRatesAssumption DEF TablesOf, VatOf, CurrencyOf
  <2> QED
    BY <2>1, <2>2
<1>7. t =< t
  BY <1>1
<1>8. PICK k \in currencyRates :
        k.code = y.part.currency /\ t \in RateValidFor(k, currencyRates)
  BY <1>1, <1>5, <1>6, <1>7, LatestRate
<1>9. PICK v \in vatRates : v.code = y.part.vat /\ t \in RateValidFor(v, vatRates)
  BY <1>1, <1>5, <1>6, <1>7, LatestRate
<1>10. t \in CurrencySpan(u, x, k)
  BY <1>8 DEF CurrencySpan
<1>11. k \in CurrencyFor(u, x, y)
  BY <1>8 DEF CurrencyFor, RatesFor
<1>12. v \in VatFor(u, x, y, k)
  BY <1>9, <1>10 DEF VatFor, RatesFor
<1> DEFINE row == [event |-> u, plan |-> x, part |-> y.part, currency |-> k, vat |-> v,
                   span |-> CurrencySpan(u, x, k) \cap RateValidFor(v, vatRates)]
<1>13. row \in ComponentRows(u)
  BY <1>2, <1>11, <1>12, RowOfJoin
<1>14. row \in components'
  BY <1>13 DEF BuildComponents
<1> QED
  BY <1>9, <1>10, <1>14

(* With ignore_missing_plans every event is priced from its first to its   *)
(* last instant, as long as no deployment runs two processes at a time.    *)
THEOREM DummiesSuffice == DeploySpec => DummiesFillTheGaps
<1>1. DeployInit => IInv /\ OneRuns /\ PlansSinceEpoch
  BY InvariantInit DEF DeployInit, Init, OneRuns, PlansSinceEpoch
<1>2. IInv /\ OneRuns /\ PlansSinceEpoch /\ [DeployNext]_<<vars, overlap>>
        => (IInv /\ OneRuns /\ PlansSinceEpoch)'
  <2> SUFFICES ASSUME IInv, OneRuns, PlansSinceEpoch, [DeployNext]_<<vars, overlap>>
               PROVE  IInv' /\ OneRuns' /\ PlansSinceEpoch'
    OBVIOUS
  <2>1. IInv'
    BY InvariantStep DEF DeployNext
  <2>2. CASE DeployNext
    BY <2>1, <2>2, PlansSinceEpochStep DEF DeployNext, OneRuns
  <2>3. CASE UNCHANGED <<vars, overlap>>
    BY <2>1, <2>3 DEF OneRuns, PlansSinceEpoch, EpochRow, vars, priceVars, usageVars,
                      txVars
  <2> QED
    BY <2>2, <2>3
<1>3. IInv /\ PlansSinceEpoch => (~overlap => GapsFilled)
  <2> SUFFICES ASSUME IInv, PlansSinceEpoch, ~overlap,
                      NEW p \in Processes, BuildComponents(p),
                      config[p] \in IgnoreMissing, NEW u \in events, NEW t \in u.span
               PROVE  \E r \in components' : r.event = u /\ t \in r.span
    BY DEF GapsFilled, WholePriced
  <2>1. pc[p] = "checked"
    BY DEF BuildComponents, Goto
  <2>2. EpochRow(u.guid, plans)
    BY <2>1 DEF PlansSinceEpoch
  <2>3. t \in Instants
    BY TimeAssumption DEF IInv, TypeOK
  <2>4. PICK x \in plans : x.guid = u.guid /\ t \in PlanValidFor(x, plans)
    BY <2>2, <2>3, LatestPlan
  <2> QED
    BY <2>4, PricedWherePlanned
<1> QED
  BY <1>1, <1>2, <1>3, PTL DEF DeploySpec, DummiesFillTheGaps
=============================================================================
