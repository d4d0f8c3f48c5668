---------------------------- MODULE HistoricData -----------------------------
(***************************************************************************)
(* The historic data store (cfstore): the versions of services, service    *)
(* plans, organisations and spaces that the platform had, as collected by  *)
(* listing them again and again, and as the statement that builds the      *)
(* events table reads them (valid_* of create_events.sql).                 *)
(*                                                                         *)
(* Entities are numbered in the order in which the API lists them.  What   *)
(* the properties tell apart of an entity is one value: the columns that   *)
(* create_events.sql compares (a name, a label, a unique id).  An error of *)
(* the API or the database at any point is Fail; a transaction's rows are  *)
(* seen by others when it commits (READ COMMITTED).                        *)
(***************************************************************************)
EXTENDS Naturals, Sequences, FiniteSets, FiniteSetsExt, Functions

CONSTANTS
  Services, Plans, Orgs, Spaces,  \* entities, as numbers
  ServiceOf,    \* the service of a plan
  Values,       \* what an entity may look like
  Processes,    \* collector processes that share the database
  PageSize,     \* entities on a page of the API
  SameSecond,   \* whether an entity may change twice within a second
  MaxTime,      \* bound: last value of the clock, in seconds
  MaxFailures   \* bound: errors and crashes

Guids == UNION {Services, Plans, Orgs, Spaces}

(* A guid is a guid of one thing.                                          *)
GuidsAssumption ==
  /\ Guids \subseteq Nat
  /\ Services \cap (Plans \cup Orgs \cup Spaces) = {}
  /\ Plans \cap (Orgs \cup Spaces) = {}
  /\ Orgs \cap Spaces = {}
  /\ ServiceOf \in [Plans -> Services]

ParametersAssumption ==
  /\ SameSecond \in BOOLEAN
  /\ MaxTime \in Nat /\ MaxFailures \in Nat
  /\ PageSize \in Nat \ {0}

VARIABLES
  now,       \* the clock of the platform
  platform,  \* the entities that exist
  gone,      \* those that have been removed
  history,   \* committed rows of the tables services, service_plans, ...
  turn,      \* per process: 0 in Init, else the kind it collects next
  txn,       \* per process: its transaction, or Idle
  failures,  \* errors and crashes so far
  polled     \* when the collection of an entity last committed was listed

vars == <<now, platform, gone, history, turn, txn, failures, polled>>

Time == 0 .. MaxTime

KindNames == <<"services", "service_plans", "orgs", "spaces">>

OfKind(kind) ==
  CASE kind = "services" -> Services
    [] kind = "service_plans" -> Plans
    [] kind = "orgs" -> Orgs
    [] kind = "spaces" -> Spaces

(* What the API says of an entity.  Only orgs carry a quota and an owner,  *)
(* part of the value.                                                      *)
V3Org == [created : Time, updated : Time, value : Values]

None == MaxTime + 1

(* A row of a table; serviceFrom is service_valid_from of a plan.          *)
Version == [guid : Guids, from : Time, value : Values, serviceFrom : Time \cup {None}]

Listed == [guid : Guids, created : Time, updated : Time, value : Values, at : Time]

Idle == [kinds |-> <<>>]

Transaction ==
  [kinds : Seq(Range(KindNames)),  \* what is left to collect, the current one first
   page : Nat,                     \* pages read, 0 once all have been
   listed : SUBSET Listed,         \* listed and not yet written
   insert : SUBSET Version,        \* the row to insert next, if any
   rows : SUBSET Version,          \* inserted and not committed
   seen : SUBSET Listed]           \* all that was listed

TypeOK ==
  /\ now \in Time
  /\ \E existing \in SUBSET Guids : platform \in [existing -> V3Org]
  /\ gone \subseteq Guids
  /\ history \subseteq Version
  /\ turn \in [Processes -> 0 .. 4]
  /\ txn \in [Processes -> {Idle} \cup Transaction]
  /\ failures \in 0 .. MaxFailures
  /\ polled \in [Guids -> Time]

Init ==
  /\ now = 0
  /\ platform = <<>>
  /\ gone = {}
  /\ history = {}
  /\ turn = [p \in Processes |-> 0]
  /\ txn = [p \in Processes |-> Idle]
  /\ failures = 0
  /\ polled = [g \in Guids |-> 0]

------------------------------------------------------------------------------
(* The platform (external).                                                *)

Tick ==
  /\ now < MaxTime
  /\ now' = now + 1
  /\ UNCHANGED <<platform, gone, history, turn, txn, failures, polled>>

(* The API lists entities in the order of their creation.                  *)
Create(kind, g, v) ==
  /\ g \in OfKind(kind) \ (DOMAIN platform \cup gone)
  /\ \A h \in OfKind(kind) : h < g => h \in DOMAIN platform \cup gone
  /\ g \in Plans => ServiceOf[g] \in DOMAIN platform
  /\ platform' = [h \in DOMAIN platform \cup {g} |->
       IF h = g THEN [created |-> now, updated |-> now, value |-> v] ELSE platform[h]]
  /\ UNCHANGED <<now, gone, history, turn, txn, failures, polled>>

Change(g, v) ==
  /\ g \in DOMAIN platform
  /\ v # platform[g].value
  /\ SameSecond \/ platform[g].updated < now
  /\ platform' = [platform EXCEPT ![g].updated = now, ![g].value = v]
  /\ UNCHANGED <<now, gone, history, turn, txn, failures, polled>>

Remove(g) ==
  /\ g \in (Orgs \cup Spaces) \cap DOMAIN platform
  /\ platform' = Restrict(platform, DOMAIN platform \ {g})
  /\ gone' = gone \cup {g}
  /\ UNCHANGED <<now, history, turn, txn, failures, polled>>

------------------------------------------------------------------------------
(* Transactions.                                                           *)

Begin(p, kinds) ==
  /\ txn[p] = Idle
  /\ txn' = [txn EXCEPT ![p] = [kinds |-> kinds, page |-> 1, listed |-> {},
                               insert |-> {}, rows |-> {}, seen |-> {}]]
  /\ UNCHANGED <<now, platform, gone, history, turn, failures, polled>>

Initialise(p) == turn[p] = 0 /\ Begin(p, KindNames)

Collect(p, k) == turn[p] = k /\ Begin(p, <<KindNames[k]>>)

CollectServices(p) == Collect(p, 1)

CollectServicePlans(p) == Collect(p, 2)

CollectOrgs(p) == Collect(p, 3)

CollectSpaces(p) == Collect(p, 4)

(* The historic data collector goes through the kinds for ever.            *)
NextTurn(k) == (k % 4) + 1

Collecting(p, kind) == txn[p] # Idle /\ txn[p].kinds # <<>> /\ Head(txn[p].kinds) = kind

(* The n-th page of the entities of a kind, at present.                    *)
Page(kind, n) ==
  {g \in OfKind(kind) \cap DOMAIN platform :
     LET rank == Cardinality({h \in OfKind(kind) \cap DOMAIN platform : h =< g})
     IN (n - 1) * PageSize < rank /\ rank =< n * PageSize}

(* Mutant of NextPage: only the first page is read.                        *)
NextPageNone(kind, n) == 0

(* 0 when the page has no next link.                                       *)
NextPage(kind, n) == IF Page(kind, n + 1) = {} THEN 0 ELSE n + 1

(* One request of a listing; the platform goes on changing between pages.  *)
ListPage(p, kind) ==
  LET n == txn[p].page
      found == {[guid |-> g, created |-> platform[g].created, updated |-> platform[g].updated,
                 value |-> platform[g].value, at |-> now] : g \in Page(kind, n)}
  IN /\ Collecting(p, kind)
     /\ n > 0
     /\ txn' = [txn EXCEPT ![p].page = NextPage(kind, n),
                           ![p].listed = @ \cup found,
                           ![p].seen = @ \cup found]
     /\ UNCHANGED <<now, platform, gone, history, turn, failures, polled>>

ListServices(p) == ListPage(p, "services")

ListServicePlans(p) == ListPage(p, "service_plans")

ListOrgs(p) == ListPage(p, "orgs")

ListSpaces(p) == ListPage(p, "spaces")

(* What the queries of a transaction see.                                  *)
Visible(p, g) == {r \in history \cup txn[p].rows : r.guid = g}

(* Mutant of ValidFrom: nothing is back-dated.                             *)
ValidFromUpdated(p, e) == e.updated

(* The first version of an entity counts from its creation.                *)
ValidFrom(p, e) == IF Visible(p, e.guid) = {} THEN e.created ELSE e.updated

(* The entity of a listing that is written next.                           *)
Due(p, kind, e) ==
  /\ Collecting(p, kind)
  /\ txn[p].page = 0
  /\ txn[p].insert = {}
  /\ e \in txn[p].listed
  /\ \A f \in txn[p].listed : e.guid =< f.guid

(* Before the insert of a row comes the query that counts the rows the     *)
(* entity has.                                                             *)
Prepare(p, e, rows) ==
  /\ txn' = [txn EXCEPT ![p].listed = @ \ {e}, ![p].insert = rows]
  /\ UNCHANGED <<now, platform, gone, history, turn, failures, polled>>

VersionOf(p, e, serviceFrom) ==
  [guid |-> e.guid, from |-> ValidFrom(p, e), value |-> e.value,
   serviceFrom |-> serviceFrom]

Plain(p, kind) ==
  \E e \in txn[p].listed : Due(p, kind, e) /\ Prepare(p, e, {VersionOf(p, e, None)})

collectServices(p) == txn[p] # Idle /\ Plain(p, "services")

collectOrgs(p) == txn[p] # Idle /\ Plain(p, "orgs")

collectSpaces(p) == txn[p] # Idle /\ Plain(p, "spaces")

(* Mutant of ServiceFrom: the service is taken to exist, since the plan's  *)
(* creation.                                                               *)
ServiceFromPlan(p, e) == {e.created}

(* service_valid_from: the newest version of the plan's service.           *)
ServiceFrom(p, e) ==
  {r.from : r \in {r \in Visible(p, ServiceOf[e.guid]) :
                     \A q \in Visible(p, ServiceOf[e.guid]) : q.from =< r.from}}

(* A plan whose service is not known is skipped (service-not-found).       *)
collectServicePlans(p) ==
  /\ txn[p] # Idle
  /\ \E e \in txn[p].listed :
       /\ Due(p, "service_plans", e)
       /\ Prepare(p, e, {VersionOf(p, e, from) : from \in ServiceFrom(p, e)})

(* on conflict (guid, valid_from) do nothing                               *)
OnConflict(p, r) ==
  IF \E s \in Visible(p, r.guid) : s.from = r.from
  THEN txn[p].rows
  ELSE txn[p].rows \cup {r}

(* An insert waits for the transaction that has inserted the same key.     *)
Insert(p) ==
  /\ txn[p] # Idle
  /\ \E r \in txn[p].insert :
       /\ \A q \in Processes \ {p} : txn[q] # Idle =>
            \A s \in txn[q].rows : <<s.guid, s.from>> # <<r.guid, r.from>>
       /\ txn' = [txn EXCEPT ![p].insert = {}, ![p].rows = OnConflict(p, r)]
  /\ UNCHANGED <<now, platform, gone, history, turn, failures, polled>>

NextKind(p) ==
  /\ txn[p] # Idle
  /\ txn[p].kinds # <<>>
  /\ txn[p].page = 0 /\ txn[p].listed = {} /\ txn[p].insert = {}
  /\ txn' = [txn EXCEPT ![p].kinds = Tail(@), ![p].page = 1]
  /\ UNCHANGED <<now, platform, gone, history, turn, failures, polled>>

(* Mutant of Recorded: a collection replaces what there was of an entity.  *)
RecordedAnew(p) ==
  {r \in history : \A s \in txn[p].rows : s.guid # r.guid} \cup txn[p].rows

Recorded(p) == history \cup txn[p].rows

Commit(p) ==
  /\ txn[p] # Idle
  /\ txn[p].kinds = <<>>
  /\ history' = Recorded(p)
  /\ polled' = [g \in Guids |-> Max({polled[g]} \cup {e.at : e \in {e \in txn[p].seen : e.guid = g}})]
  /\ turn' = [turn EXCEPT ![p] = NextTurn(@)]
  /\ txn' = [txn EXCEPT ![p] = Idle]
  /\ UNCHANGED <<now, platform, gone, failures>>

(* An error rolls the transaction back.  The collector goes on with the    *)
(* next kind; an error in Init ends the process, which is then started     *)
(* again.                                                                  *)
Fail(p) ==
  /\ txn[p] # Idle
  /\ failures < MaxFailures
  /\ failures' = failures + 1
  /\ txn' = [txn EXCEPT ![p] = Idle]
  /\ turn' = [turn EXCEPT ![p] = IF @ = 0 THEN 0 ELSE NextTurn(@)]
  /\ UNCHANGED <<now, platform, gone, history, polled>>

Crash(p) ==
  /\ failures < MaxFailures
  /\ failures' = failures + 1
  /\ txn' = [txn EXCEPT ![p] = Idle]
  /\ turn' = [turn EXCEPT ![p] = 0]
  /\ UNCHANGED <<now, platform, gone, history, polled>>

Step(p) ==
  \/ Initialise(p)
  \/ CollectServices(p) \/ CollectServicePlans(p) \/ CollectOrgs(p) \/ CollectSpaces(p)
  \/ ListServices(p) \/ ListServicePlans(p) \/ ListOrgs(p) \/ ListSpaces(p)
  \/ collectServices(p) \/ collectServicePlans(p) \/ collectOrgs(p) \/ collectSpaces(p)
  \/ Insert(p) \/ NextKind(p) \/ Commit(p)

Next ==
  \/ Tick
  \/ \E v \in Values :
       \/ \E k \in Range(KindNames), g \in Guids : Create(k, g, v)
       \/ \E g \in Guids : Change(g, v)
  \/ \E g \in Guids : Remove(g)
  \/ \E p \in Processes : Step(p) \/ Fail(p) \/ Crash(p)

Spec == Init /\ [][Next]_vars

(* The collector's goroutine goes on, and there are only so many errors.   *)
FairSpec == Spec /\ \A p \in Processes : WF_vars(Step(p))

------------------------------------------------------------------------------
(* What create_events.sql makes of the rows.                               *)

Versions(g) == {r \in history : r.guid = g}

(* The row before, by valid_from.                                          *)
Before(r) ==
  {q \in Versions(r.guid) : /\ q.from < r.from
                           /\ \A s \in Versions(r.guid) : s.from =< q.from \/ r.from =< s.from}

not_redundant(r) == \A q \in Before(r) : q.value # r.value

(* valid_service_plans, valid_services, valid_orgs, valid_spaces: the      *)
(* versions that differ from the one before, each until the next.          *)
Valid(g) == {r \in Versions(g) : not_redundant(r)}

(* What an event that ends at t says of an entity: a set of one value, or  *)
(* none, when the guid or a placeholder stands for it.                     *)
ValueAt(g, t) ==
  {r.value : r \in {r \in Valid(g) : r.from =< t /\ \A s \in Valid(g) : s.from =< r.from \/ t < s.from}}

------------------------------------------------------------------------------
(* An entity that has a version is known from its creation on: usage       *)
(* before the first collection finds its plan and its names, whichever of  *)
(* two processes recorded the first version and however old its listing.   *)
KnownFromCreation ==
  \A g \in DOMAIN platform : Versions(g) # {} =>
    \A t \in platform[g].created .. MaxTime : Cardinality(ValueAt(g, t)) = 1

(* Every version of a plan refers to a version of its service, also when   *)
(* the plan was listed after a collection of services that did not list    *)
(* the service, failed, or was rolled back.                                *)
PlansHaveServices ==
  \A r \in history : r.guid \in Plans =>
    \E s \in Versions(ServiceOf[r.guid]) : s.from = r.serviceFrom

(* What an entity with a version was called before it was last listed does *)
(* not change any more: bills for the past keep their names and plans.     *)
(* (For one process: two may commit their listings in the other order.)    *)
Settled ==
  \/ UNCHANGED history
  \/ \A g \in Guids : \A t \in Time :
       t < polled[g] /\ Versions(g) # {} => ValueAt(g, t)' = ValueAt(g, t)
PastIsSettled == [][Settled]_vars

(* A change to an entity leads to a new version of it: in the end the      *)
(* newest version is what the platform has.                                *)
(* (Unless it changed twice within a second: see SameSecond.)              *)
Current(g) == g \in DOMAIN platform => ValueAt(g, MaxTime) = {platform[g].value}
NewestIsCurrent == \A g \in Guids : <>[]Current(g)
==============================================================================
