-------------------------------- MODULE Parts --------------------------------
(***************************************************************************)
(* The components that share no state, side by side: a request and its     *)
(* token (Authorization), a process (Lifecycle), a scrape of metrics       *)
(* (Discovery) and what the API says of prices (PricingReads).  Each has   *)
(* variables of its own.                                                   *)
(***************************************************************************)
EXTENDS Integers

CONSTANTS
  AskedOrgs, Keys, TokenTime,      \* Authorization: Orgs, Keys, MaxTime
  MaxRequests,                     \* Lifecycle
  Names, AppNames, Hosts, Routes, MaxInstances,   \* Discovery
  MaxChanges,                      \* Authorization and Discovery
  Codes, Components, Days, Configs \* PricingReads

VARIABLES
  \* Authorization, whose now is clock
  clock, keys, roles, changes, header, key, token, asked, pc, claims, orgGUIDs,
  verified, fresh, member, kept,
  \* Lifecycle
  command, main, exit, signalled, part, wg, db, ctx, detached, arrived, requests,
  timedOut, cut,
  \* Discovery, whose pc is proxy
  apps, routes, appChanges, targets, calm, name, instance, proxy, app, urls, left,
  status, from,
  \* PricingReads
  table, rows, parts, filter, answer

Auth == INSTANCE Authorization WITH Orgs <- AskedOrgs, MaxTime <- TokenTime, now <- clock
Life == INSTANCE Lifecycle
Disc == INSTANCE Discovery WITH changes <- appChanges, pc <- proxy
Reads == INSTANCE PricingReads

AuthVars == <<clock, keys, roles, changes, header, key, token, asked, pc, claims,
              orgGUIDs, verified, fresh, member, kept>>
LifeVars == <<command, main, exit, signalled, part, wg, db, ctx, detached, arrived,
              requests, timedOut, cut>>
DiscVars == <<apps, routes, appChanges, targets, calm, name, instance, proxy, app,
              urls, left, status, from>>
ReadsVars == <<table, rows, parts, filter, answer>>
PartsVars == <<AuthVars, LifeVars, DiscVars, ReadsVars>>

PartsAssumption ==
  /\ Auth!BoundsAssumption
  /\ Life!RequestsAssumption
  /\ Disc!AppNamesAssumption /\ Disc!FiniteAssumption
  /\ Disc!RoutesAssumption /\ Disc!BoundsAssumption
  /\ Reads!BoundsAssumption /\ Reads!ConfigsAssumption

PartsInit == Auth!Init /\ Life!Init /\ Disc!Init /\ Reads!Init

AuthStep == Auth!Next /\ UNCHANGED <<LifeVars, DiscVars, ReadsVars>>
LifeStep == Life!Next /\ UNCHANGED <<AuthVars, DiscVars, ReadsVars>>
DiscStep == Disc!Next /\ UNCHANGED <<AuthVars, LifeVars, ReadsVars>>
ReadsStep == Reads!Next /\ UNCHANGED <<AuthVars, LifeVars, DiscVars>>

PartsNext == AuthStep \/ LifeStep \/ DiscStep \/ ReadsStep

PartsSpec == PartsInit /\ [][PartsNext]_PartsVars

------------------------------------------------------------------------------
(* The properties of the components.                                       *)

(* Every variable of a part keeps to its type.                             *)
TypesOK == Auth!TypeOK /\ Life!TypeOK /\ Disc!TypeOK /\ Reads!TypeOK

(* authorize lets in who is entitled and turns no one away who is,         *)
(* although roles change between the two calls that list them.             *)
GrantedToEntitled == Auth!GrantedToEntitled

(* authorize lets no one in on a token that was not verified in its time.  *)
GrantedOnValidToken == Auth!GrantedOnValidToken

(* A process starts its workers and the collector of historic data after   *)
(* Init, its API answers what it has accepted, unless its drain runs out   *)
(* or it is killed, and it reports success only when every part that is    *)
(* waited for is done.                                                     *)
InOrder == Life!InOrder

(* When one part of a process has ended, or a signal has come, all end.    *)
EndsTogether == Life!EndsTogether

(* Metrics come from the instance and the application asked for, which the *)
(* handler looks up twice.                                                 *)
OwnMetrics == Disc!OwnMetrics

(* A target that discovery listed answers when it is scraped, if it runs   *)
(* and is found by the host and domain of its application's routes.        *)
ListedAreServed == Disc!ListedAreServed

(* Rates and plans are listed for the ranges in which they are in force,   *)
(* all of them if all rows could be read, and a plan with the components   *)
(* of its own version.                                                     *)
ListsWhatIsInForce == Reads!ListsWhatIsInForce
==============================================================================
