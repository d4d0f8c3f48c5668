-------------------------------- MODULE MCParts --------------------------------
(* Instances for TLC of the components of Parts and of HistoricData, which *)
(* shares no state with them either.  In a behaviour one of them (shown)   *)
(* goes its way, and the others rest: they would only interleave.          *)
EXTENDS Parts, HistoricData

CONSTANTS
  Shown,         \* the components, or instances of one, that are shown
  k1, o1, o2,    \* Authorization: model values, a key and organisations
  p1, p2, v1, v2 \* HistoricData: model values, processes and values

VARIABLE shown

MCVars == <<shown, PartsVars, vars>>

(* Discovery: only the first of two names is served; routes with and       *)
(* without a path, which may lead to both.                                 *)
TwoNames == {"a", "b"}
OneName == {"a"}
TwoHosts == {"r", "s"}
ThreeRoutes == {[host |-> "r", path |-> "none"], [host |-> "r", path |-> "metrics"],
                [host |-> "s", path |-> "other"]}

(* One of the names is not served: of its routes those without a path, or  *)
(* to the metrics, are enough.  What is created has one route.             *)
FewRoutes ==
  {mapped \in [1 .. 3 -> SUBSET Routes] :
     /\ \A r \in mapped[2] : r.path # "other"
     /\ mapped[3] = {[host |-> "r", path |-> "none"]}}

TwoOrgs == {o1, o2}
OneKey == {k1}

(* PricingReads: up to three rows of two codes, and components that change *)
(* from one version of a plan to the next.                                 *)
TwoCodes == {"c", "d"}
TwoComponents == {"x", "y"}
ConfigFiles ==
  LET tables == {rs \in SUBSET [code : Codes, from : 0 .. Days] : Cardinality(rs) =< 3}
      one(rs) == rs \X {"x"}
      turns(rs) == {<<r, IF r.from % 2 = 0 THEN "x" ELSE "y">> : r \in {q \in rs : q.code = "c"}}
  IN UNION {{[rows |-> rs, parts |-> ps] : ps \in {{}, turns(rs), one(rs) \cup turns(rs)}}
              : rs \in tables}

(* HistoricData: a service and its plan, collected by one process.         *)
ServiceOfPlan == [plan \in {2} |-> 1]

(* The same, collected by two processes.                                   *)
Pair == INSTANCE HistoricData WITH
  Processes <- {p1, p2}, Values <- {v1}, MaxTime <- 1

(* Organisations on two pages, and a space.                                *)
Paged == INSTANCE HistoricData WITH
  Services <- {}, Plans <- {}, ServiceOf <- <<>>, Orgs <- {1, 2}, Spaces <- {3},
  Values <- {v1}, MaxTime <- 1, MaxFailures <- 0

ASSUME PartsAssumption
ASSUME GuidsAssumption /\ Pair!GuidsAssumption /\ Paged!GuidsAssumption
ASSUME ParametersAssumption /\ Pair!ParametersAssumption /\ Paged!ParametersAssumption

------------------------------------------------------------------------------
(* Where a component that is not shown rests: one of its initial states.   *)
AuthRests ==
  /\ keys = {} /\ header = "none" /\ asked = {}
  /\ token = [scope |-> {}, expiresAt |-> 0]
  /\ roles = [role \in Auth!Roles |-> {}]

LifeRests == command = "api"

DiscRests ==
  /\ name = "a" /\ instance = 0
  /\ apps \in [Names -> [Guid : Disc!Guids, Instances : {0}, Running : {{}}]]
  /\ routes = [guid \in Disc!Guids |-> {}]

ReadsRests == table = "vat_rates"

MCInit ==
  /\ shown \in Shown
  /\ (shown = "authorization" \/ AuthRests) /\ Auth!Init
  /\ (shown = "lifecycle" \/ LifeRests) /\ Life!Init
  /\ ((shown = "discovery" /\ routes \in FewRoutes) \/ DiscRests) /\ Disc!Init
  /\ (shown = "pricing reads" \/ ReadsRests) /\ Reads!Init
  /\ \/ shown = "pair" /\ Pair!Init
     \/ shown = "paged" /\ Paged!Init
     \/ shown \notin {"pair", "paged"} /\ Init

Show(p) == shown = p /\ UNCHANGED <<shown, vars>>
ShowHistory(p) == shown = p /\ UNCHANGED <<shown, PartsVars>>

MCNext ==
  \/ Show("authorization") /\ AuthStep
  \/ Show("lifecycle") /\ LifeStep
  \/ Show("discovery") /\ DiscStep
  \/ Show("pricing reads") /\ ReadsStep
  \/ ShowHistory("lone") /\ Next
  \/ ShowHistory("pair") /\ Pair!Next
  \/ ShowHistory("paged") /\ Paged!Next

MCSpec == MCInit /\ [][MCNext]_MCVars

(* The fairness of Lifecycle and of HistoricData with one process.  As one *)
(* part is shown at a time, steps of different parts share a condition.    *)
ShowLife == Show("lifecycle") /\ Life!Running /\ UNCHANGED <<AuthVars, DiscVars, ReadsVars>>

Fairness ==
  /\ WF_MCVars(\/ ShowHistory("lone") /\ Step(p1)
               \/ ShowHistory("paged") /\ Paged!Step(p1)
               \/ ShowLife /\ Life!MainStep)
  /\ \A p \in Life!Parts : WF_MCVars(ShowLife /\ Life!PartStep(p))
  /\ \A w \in Life!Workers : SF_MCVars(ShowLife /\ Life!StopWorker(w))

MCFairSpec == MCSpec /\ Fairness

------------------------------------------------------------------------------
(* KnownFromCreation and PlansHaveServices of HistoricData are asked of    *)
(* one process and of the pair, PastIsSettled of one: where two collect,   *)
(* nothing changes its value.                                              *)

(* The newest version ends up as what the platform has, also of entities   *)
(* that a listing on moving pages has passed over.                         *)
AllCurrent ==
  NewestIsCurrent /\ \A g \in Paged!Guids : <>[](shown = "paged" => Paged!Current(g))
==============================================================================
