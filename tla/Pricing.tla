------------------------------- MODULE Pricing -------------------------------
(***************************************************************************)
(* Pricing configuration and its use: EventStore.Init (initVATRates,       *)
(* initCurrencyRates, initPlans and their checks) replaces the pricing     *)
(* tables by the configuration of a starting process; Refresh generates    *)
(* missing plans, checks that the plans in use exist and prices the events *)
(* (eventstore/store.go, sql/create_billable_event_components.sql).        *)
(*                                                                         *)
(* A process inits before it refreshes, but several processes may share    *)
(* the database, so an Init may fall between any two statements of another *)
(* process.  Transactions are READ COMMITTED: a statement sees what was    *)
(* committed when it began and the changes of its own transaction, a       *)
(* DELETE skips rows that are gone when its wait ends, and a duplicate key *)
(* is an error.  A statement that would fail is not enabled; any           *)
(* transaction may Fail.                                                   *)
(*                                                                         *)
(* Times are instants of a finite line: 0 is 'epoch', the end of the line  *)
(* 'infinity', a range the set of its instants.                            *)
(***************************************************************************)
EXTENDS Naturals, FiniteSets

CONSTANTS
  Processes,      \* collector processes sharing the database
  Configs,        \* configuration files
  NoConfig,       \* a process that is not running has none
  VatRatesOf,     \* VatRatesOf[c]: [code, from] of vat_rates of c
  CurrencyRatesOf,\* CurrencyRatesOf[c]: [code, from] of currency_rates of c
  PlansOf,        \* PlansOf[c]: [guid, from, parts] of pricing_plans of c, a
                  \* part being the [vat, currency] of a component
  IgnoreMissing,  \* configurations with ignore_missing_plans
  FirstConfig,    \* what the tables hold when the model begins
  Usage,          \* events that may come: [guid, span]
  Horizon,        \* bound: the number of instants
  Dummy           \* marks the rows of generateMissingPlans

ASSUME ConfigAssumption ==
  /\ FirstConfig \in Configs
  /\ IgnoreMissing \subseteq Configs
  /\ NoConfig \notin Configs
  /\ Dummy \notin Configs

(* VAT rates are only ever added: all configurations share a key.          *)
ASSUME VatAssumption ==
  \A c, d \in Configs : VatRatesOf[c] \cap VatRatesOf[d] # {}

ASSUME HorizonAssumption == Horizon \in Nat \ {0}

Instants == 0 .. Horizon - 1

(* Rows and usage lie on the line.                                         *)
ASSUME TimeAssumption ==
  /\ \A c \in Configs :
       /\ \A r \in VatRatesOf[c] \cup CurrencyRatesOf[c] : r.from \in Instants
       /\ \A x \in PlansOf[c] : x.from \in Instants
  /\ \A u \in Usage : u.span \subseteq Instants

Epoch == 0
StandardPart == [vat |-> "Standard", currency |-> "GBP"]

(* Rows carry the configuration they come from in place of the figures.    *)
RateRows(rates, c) == {[code |-> r.code, from |-> r.from, by |-> c] : r \in rates}
PlanRows(c) == {[guid |-> p.guid, from |-> p.from, by |-> c] : p \in PlansOf[c]}
PartRows(c) ==
  UNION {{[guid |-> p.guid, from |-> p.from, part |-> x, by |-> c] : x \in p.parts}
           : p \in PlansOf[c]}

VARIABLES
  vatRates,       \* vat_rates
  currencyRates,  \* currency_rates
  plans,          \* pricing_plans
  parts,          \* pricing_plan_components
  used,           \* the usage collected so far
  events,         \* the events table
  components,     \* the billable_event_components table
  pc,             \* where in Init or Refresh a process is
  config,         \* the configuration a process was started with
  doomedRates,    \* rows that DELETE FROM vat_rates of a process has found
  doomedPlans,    \* rows that DELETE FROM pricing_plans has found
  newPlans,       \* dummy plans of the open transaction
  newParts        \* dummy components of the open transaction

priceVars == <<vatRates, currencyRates, plans, parts>>
usageVars == <<used, events, components>>
txVars    == <<doomedRates, doomedPlans, newPlans, newParts>>
vars      == <<priceVars, usageVars, pc, config, txVars>>

Init ==
  /\ vatRates = RateRows(VatRatesOf[FirstConfig], FirstConfig)
  /\ currencyRates = RateRows(CurrencyRatesOf[FirstConfig], FirstConfig)
  /\ plans = PlanRows(FirstConfig)
  /\ parts = PartRows(FirstConfig)
  /\ used = {}
  /\ events = {}
  /\ components = {}
  /\ pc = [p \in Processes |-> "down"]
  /\ config = [p \in Processes |-> NoConfig]
  /\ doomedRates = [p \in Processes |-> {}]
  /\ doomedPlans = [p \in Processes |-> {}]
  /\ newPlans = [p \in Processes |-> {}]
  /\ newParts = [p \in Processes |-> {}]

Goto(p, here, there) == pc[p] = here /\ pc' = [pc EXCEPT ![p] = there]

(* The transaction of p is over.                                           *)
EndTx(p) ==
  /\ doomedRates' = [doomedRates EXCEPT ![p] = {}]
  /\ doomedPlans' = [doomedPlans EXCEPT ![p] = {}]
  /\ newPlans' = [newPlans EXCEPT ![p] = {}]
  /\ newParts' = [newParts EXCEPT ![p] = {}]

SameKey(r, s) == r.guid = s.guid /\ r.from = s.from

------------------------------------------------------------------------------
(* Init: one transaction that replaces all pricing tables.                 *)

(* The process starts; DELETE FROM vat_rates takes its snapshot.           *)
StartInit(p, c) ==
  /\ Goto(p, "down", "starting")
  /\ config' = [config EXCEPT ![p] = c]
  /\ doomedRates' = [doomedRates EXCEPT ![p] = vatRates]
  /\ UNCHANGED <<priceVars, usageVars, doomedPlans, newPlans, newParts>>

(* An Init that has deleted the VAT rates holds them to its end.           *)
HoldsRates(q) == pc[q] \in {"rates", "deleting", "deleted", "inserted"}

(* Mutant of ReplaceRates: rates are inserted "on conflict do nothing".    *)
ReplaceRatesOnConflict(p) ==
  /\ Goto(p, "starting", "rates")
  /\ \A q \in Processes \ {p} : ~HoldsRates(q)
  /\ UNCHANGED <<priceVars, usageVars, config, txVars>>

(* VAT and currency rates are replaced, and DELETE FROM pricing_plans      *)
(* takes its snapshot.  Rates that another Init committed during the wait  *)
(* are not deleted and make the key of an inserted rate a duplicate.       *)
ReplaceRates(p) ==
  /\ Goto(p, "starting", "rates")
  /\ \A q \in Processes \ {p} : ~HoldsRates(q)
  /\ \A r \in VatRatesOf[config[p]], s \in vatRates \ doomedRates[p] :
        ~(r.code = s.code /\ r.from = s.from)
  /\ UNCHANGED <<priceVars, usageVars, config, txVars>>

BeginDeletePlans(p) ==
  /\ Goto(p, "rates", "deleting")
  /\ doomedPlans' = [doomedPlans EXCEPT ![p] = plans]
  /\ UNCHANGED <<priceVars, usageVars, config, doomedRates, newPlans, newParts>>

(* Deleting a plan waits for transactions that have inserted a component   *)
(* of it.                                                                  *)
DeletePlans(p) ==
  /\ Goto(p, "deleting", "deleted")
  /\ \A q \in Processes, x \in doomedPlans[p] :
        \A y \in newParts[q] : ~SameKey(x, y)
  /\ UNCHANGED <<priceVars, usageVars, config, txVars>>

(* Inserting a plan waits for a dummy plan with the same key, and fails if *)
(* it is committed.                                                        *)
InsertPlans(p) ==
  /\ Goto(p, "deleted", "inserted")
  /\ \A x \in PlansOf[config[p]], y \in plans \ doomedPlans[p] : ~SameKey(x, y)
  /\ \A x \in PlansOf[config[p]], q \in Processes :
        \A y \in newPlans[q] : ~SameKey(x, y)
  /\ UNCHANGED <<priceVars, usageVars, config, txVars>>

(* What the transaction of p sees after its changes.                       *)
RatesAfter(p) ==
  (vatRates \ doomedRates[p]) \cup RateRows(VatRatesOf[config[p]], config[p])
CurrencyAfter(p) == RateRows(CurrencyRatesOf[config[p]], config[p])
PlansAfter(p) == (plans \ doomedPlans[p]) \cup PlanRows(config[p])
PartsAfter(p) ==
  {x \in parts : \A y \in doomedPlans[p] : ~SameKey(x, y)} \cup PartRows(config[p])

(* checkPricingComponents: plans "having" fewer than 0 components.          *)
PlansWithoutParts(pls, pts) ==
  {x \in pls : Cardinality({y \in pts : SameKey(x, y)}) < 0}

(* Mutant of HasRate: without the comparison of the dates.                 *)
HasAnyRate(code, from, rates) == \E r \in rates : r.code = code

(* checkVATRates, checkCurrencyRates: a rate from the plan's beginning on. *)
HasRate(code, from, rates) == \E r \in rates : r.code = code /\ r.from =< from
RatesMissing(pts, vat, currency) ==
  {y \in pts : \/ ~HasRate(y.part.vat, y.from, vat)
               \/ ~HasRate(y.part.currency, y.from, currency)}

(* The tables of the first configuration have passed these checks, too.    *)
ASSUME FirstConfigAssumption ==
  RatesMissing(PartRows(FirstConfig), RateRows(VatRatesOf[FirstConfig], FirstConfig),
               RateRows(CurrencyRatesOf[FirstConfig], FirstConfig)) = {}

CommitInit(p) ==
  /\ Goto(p, "inserted", "up")
  /\ PlansWithoutParts(PlansAfter(p), PartsAfter(p)) = {}
  /\ RatesMissing(PartsAfter(p), RatesAfter(p), CurrencyAfter(p)) = {}
  /\ vatRates' = RatesAfter(p)
  /\ currencyRates' = CurrencyAfter(p)
  /\ plans' = PlansAfter(p)
  /\ parts' = PartsAfter(p)
  /\ EndTx(p)
  /\ UNCHANGED <<usageVars, config>>

(* Init returns an error, or the process stops: it is started again.       *)
Stop(p) ==
  /\ pc[p] # "down"
  /\ pc' = [pc EXCEPT ![p] = "down"]
  /\ config' = [config EXCEPT ![p] = NoConfig]
  /\ EndTx(p)
  /\ UNCHANGED <<priceVars, usageVars>>

------------------------------------------------------------------------------
(* Refresh.                                                                *)

Use(u) ==
  /\ u \in Usage \ used
  /\ used' = used \cup {u}
  /\ UNCHANGED <<priceVars, events, components, pc, config, txVars>>

CreateEvents(p) ==
  /\ Goto(p, "up", "events")
  /\ events' = used
  /\ UNCHANGED <<priceVars, used, components, config, txVars>>

PlansInUse == {u.guid : u \in events}
EpochRow(g, rows) == \E y \in rows : y.guid = g /\ y.from = Epoch

(* generateMissingPlans: a plan from the epoch on for every plan in use    *)
(* that has none.  Waits for uncommitted plans with the same key.          *)
GeneratePlans(p) ==
  /\ config[p] \in IgnoreMissing
  /\ Goto(p, "events", "generated")
  /\ LET missing == {g \in PlansInUse : ~EpochRow(g, plans)}
     IN /\ \A q \in Processes \ {p}, g \in missing :
              /\ ~EpochRow(g, newPlans[q])
              /\ pc[q] = "inserted" => ~EpochRow(g, PlansOf[config[q]])
        /\ newPlans' = [newPlans EXCEPT ![p] =
             {[guid |-> g, from |-> Epoch, by |-> Dummy] : g \in missing}]
  /\ UNCHANGED <<priceVars, usageVars, config, doomedRates, doomedPlans, newParts>>

(* Mutant of GenerateParts: components do not reference plans.             *)
GeneratePartsWithoutKey(p) ==
  /\ Goto(p, "generated", "check")
  /\ LET missing == {g \in PlansInUse : ~EpochRow(g, parts)}
     IN newParts' = [newParts EXCEPT ![p] =
             {[guid |-> g, from |-> Epoch, part |-> StandardPart, by |-> Dummy]
                : g \in missing}]
  /\ UNCHANGED <<priceVars, usageVars, config, doomedRates, doomedPlans, newPlans>>

(* A component for every plan in use that has none at the epoch.  Its plan *)
(* must exist: it waits for an Init that has deleted it, and for           *)
(* uncommitted components with the same key.                               *)
GenerateParts(p) ==
  /\ Goto(p, "generated", "check")
  /\ LET missing == {g \in PlansInUse : ~EpochRow(g, parts)}
     IN /\ \A g \in missing : EpochRow(g, plans \cup newPlans[p])
        /\ \A q \in Processes \ {p}, g \in missing :
              /\ pc[q] \in {"deleted", "inserted"} => ~EpochRow(g, doomedPlans[q])
              /\ ~EpochRow(g, newParts[q])
        /\ newParts' = [newParts EXCEPT ![p] =
             {[guid |-> g, from |-> Epoch, part |-> StandardPart, by |-> Dummy]
                : g \in missing}]
  /\ UNCHANGED <<priceVars, usageVars, config, doomedRates, doomedPlans, newPlans>>

(* tstzrange(valid_from, lead(valid_from, 1, 'infinity') over ...).        *)
PlanValidFor(x, pls) ==
  {t \in Instants : /\ x.from =< t
                    /\ \A y \in pls : y.guid = x.guid /\ x.from < y.from => t < y.from}
RateValidFor(r, rates) ==
  {t \in Instants : /\ r.from =< t
                    /\ \A s \in rates : s.code = r.code /\ r.from < s.from => t < s.from}

HasPlan(u, pls) ==
  \E x \in pls : x.guid = u.guid /\ u.span \cap PlanValidFor(x, pls) # {}

(* Mutant of SkipGeneration: dummy plans are generated only when the check *)
(* would fail without them.                                                *)
SkipWhenConsistent(p) ==
  /\ config[p] \in IgnoreMissing => \A u \in events : HasPlan(u, plans)
  /\ Goto(p, "events", "check")
  /\ UNCHANGED <<priceVars, usageVars, config, txVars>>

SkipGeneration(p) ==
  /\ config[p] \notin IgnoreMissing
  /\ Goto(p, "events", "check")
  /\ UNCHANGED <<priceVars, usageVars, config, txVars>>

(* checkPlanConsistency finds nothing, the transaction commits.            *)
CheckPlans(p) ==
  /\ Goto(p, "check", "checked")
  /\ \A u \in events : HasPlan(u, plans \cup newPlans[p])
  /\ plans' = plans \cup newPlans[p]
  /\ parts' = parts \cup newParts[p]
  /\ EndTx(p)
  /\ UNCHANGED <<vatRates, currencyRates, usageVars, config>>

(* The joins of generate_billable_event_components.                        *)
PlansFor(u) ==
  {x \in plans : x.guid = u.guid /\ PlanValidFor(x, plans) \cap u.span # {}}
PartsFor(x) == {y \in parts : SameKey(x, y)}
RatesFor(code, rates, span) ==
  {r \in rates : r.code = code /\ RateValidFor(r, rates) \cap span # {}}
CurrencyFor(u, x, y) ==
  RatesFor(y.part.currency, currencyRates, u.span \cap PlanValidFor(x, plans))
CurrencySpan(u, x, r) ==
  u.span \cap PlanValidFor(x, plans) \cap RateValidFor(r, currencyRates)
VatFor(u, x, y, r) == RatesFor(y.part.vat, vatRates, CurrencySpan(u, x, r))

(* Mutant of JoinsComplete: inner joins.                                   *)
InnerJoins(u) == TRUE

(* A left join that finds nothing leaves a null in a NOT NULL column.      *)
JoinsComplete(u) ==
  /\ PlansFor(u) # {}
  /\ \A x \in PlansFor(u) :
       /\ PartsFor(x) # {}
       /\ \A y \in PartsFor(x) :
            /\ CurrencyFor(u, x, y) # {}
            /\ \A r \in CurrencyFor(u, x, y) : VatFor(u, x, y, r) # {}

ComponentRows(u) ==
  UNION {UNION {UNION {
    {[event |-> u, plan |-> x, part |-> y.part, currency |-> r, vat |-> v,
      span |-> CurrencySpan(u, x, r) \cap RateValidFor(v, vatRates)]
       : v \in VatFor(u, x, y, r)}
       : r \in CurrencyFor(u, x, y)}
       : y \in PartsFor(x)}
       : x \in PlansFor(u)}

BuildComponents(p) ==
  /\ Goto(p, "checked", "up")
  /\ \A u \in events : JoinsComplete(u)
  /\ components' = UNION {ComponentRows(u) : u \in events}
  /\ UNCHANGED <<priceVars, used, events, config, txVars>>

(* Mutant of FailRefresh: the transaction is not rolled back.              *)
FailWithoutRollback(p) ==
  /\ pc[p] \in {"events", "generated", "check", "checked"}
  /\ pc' = [pc EXCEPT ![p] = "up"]
  /\ UNCHANGED <<priceVars, usageVars, config, txVars>>

(* Refresh returns an error: the loop calls it again.                      *)
FailRefresh(p) ==
  /\ pc[p] \in {"events", "generated", "check", "checked"}
  /\ pc' = [pc EXCEPT ![p] = "up"]
  /\ EndTx(p)
  /\ UNCHANGED <<priceVars, usageVars, config>>

Step(p) ==
  \/ \E c \in Configs : StartInit(p, c)
  \/ ReplaceRates(p)
  \/ BeginDeletePlans(p)
  \/ DeletePlans(p)
  \/ InsertPlans(p)
  \/ CommitInit(p)
  \/ Stop(p)
  \/ CreateEvents(p)
  \/ GeneratePlans(p)
  \/ GenerateParts(p)
  \/ SkipGeneration(p)
  \/ CheckPlans(p)
  \/ BuildComponents(p)
  \/ FailRefresh(p)

Next == (\E u \in Usage : Use(u)) \/ \E p \in Processes : Step(p)

Spec == Init /\ [][Next]_vars
------------------------------------------------------------------------------
(* Properties.                                                             *)

Rows == vatRates \cup currencyRates \cup plans \cup parts

TypeOK ==
  /\ \A r \in Rows : r.from \in Instants /\ r.by \in Configs \cup {Dummy}
  /\ events \subseteq used /\ used \subseteq Usage
  /\ \A r \in components : r.event \in Usage /\ r.span # {}
  /\ \A p \in Processes :
       /\ config[p] \in Configs \cup {NoConfig}
       /\ pc[p] = "down" <=> config[p] = NoConfig
       /\ pc[p] \notin {"generated", "check"} => newPlans[p] = {}
       /\ pc[p] \in {"up", "events", "checked"} => doomedRates[p] = {}

(* Init replaces all the tables or none: whatever processes start at the   *)
(* same time with different files, stop halfway or run a Refresh, the      *)
(* committed rows are those of one configuration file and dummy plans.     *)
OneConfig == Cardinality({r.by : r \in Rows} \ {Dummy}) =< 1

(* Neither Init's deletion of the plans nor generateMissingPlans, at work  *)
(* on the same plans in two transactions, leaves a component whose plan is *)
(* gone.                                                                   *)
NoOrphanParts == \A y \in parts : \E x \in plans : SameKey(x, y)

InForce(x, t) ==
  x.from =< t /\ ~\E y \in plans : y.guid = x.guid /\ x.from < y.from /\ y.from =< t

(* What a Refresh prices, it prices exactly once: at every instant of an   *)
(* event each component of the plan in force appears in one row, with one  *)
(* VAT and one currency rate, and no other plan's does.  The check that    *)
(* there are rates for the whole validity of a plan was made by another    *)
(* transaction, maybe of another process: Init.                            *)
PricedExactlyOnce ==
  [][\A p \in Processes : BuildComponents(p) =>
       \A u \in events : \A t \in u.span :
         LET rows == {r \in components' : r.event = u /\ t \in r.span}
         IN /\ \A r \in rows : InForce(r.plan, t)
            /\ \A x \in plans : x.guid = u.guid /\ x.by # Dummy /\ InForce(x, t) =>
                 \A y \in PartsFor(x) : y.by # Dummy =>
                   Cardinality({r \in rows : r.plan = x /\ r.part = y.part}) = 1]_vars

(* No event is lost on the way from the events table to the bill: if an    *)
(* Init of another process has taken its plan away since the check of this *)
(* Refresh, building the components fails rather than leave it out.        *)
EveryEventPriced ==
  [][\A p \in Processes : BuildComponents(p) =>
       \A u \in events : \E r \in components' : r.event = u]_vars

WholePriced(u, rows) == u.span \subseteq UNION {r.span : r \in {x \in rows : x.event = u}}

(* With ignore_missing_plans every event is priced from its first to its   *)
(* last instant, though plans may begin later: a dummy plan covers what    *)
(* comes before ("creates dummy plans with 0 cost at the epoch time for    *)
(* every single plan in events"), and survives until it is used, if no     *)
(* second process deletes it in between.                                   *)
GapsFilled ==
  \A p \in Processes : BuildComponents(p) /\ config[p] \in IgnoreMissing =>
    \A u \in events : WholePriced(u, components')

(* checkPricingComponents: "checks that all pricing plans have at least    *)
(* one pricing component".                                                 *)
EveryPlanHasParts == \A x \in plans : PartsFor(x) # {}

(* InitPlans: "if you are missing plans for services found in the events   *)
(* then it will fail to update plans and return an error".                 *)
InitKeepsPlansInUse ==
  [][\A p \in Processes : CommitInit(p) => \A u \in events : HasPlan(u, plans')]_vars

(* README: "Each UsageEvent's PlanGUID should have a matching PricingPlan  *)
(* for a given point in time"; an event that does not must not get through *)
(* a Refresh half priced.                                                  *)
EventsPricedThroughout ==
  [][\A p \in Processes : BuildComponents(p) =>
       \A u \in events : WholePriced(u, components')]_vars
==============================================================================
