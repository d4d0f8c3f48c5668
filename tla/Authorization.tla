---------------------------- MODULE Authorization ----------------------------
(***************************************************************************)
(* Whether a request for usage or bills is answered: authorize             *)
(* (apiserver/server_auth.go) with the UAA authorizer (apiserver/auth).    *)
(*                                                                         *)
(* One request: its token is verified with the keys UAA has at the time,   *)
(* the user's roles are asked for in two calls to the Cloud Controller,    *)
(* and meanwhile keys, roles and the time change.  Tokens are records; how *)
(* they are encoded and signed is left out.                                *)
(***************************************************************************)
EXTENDS Naturals

CONSTANTS
  Orgs,         \* organisations
  Keys,         \* signing keys of UAA
  MaxTime,      \* bound: last value of the clock
  MaxChanges    \* bound: changes of roles and keys

BoundsAssumption == {MaxTime, MaxChanges} \subseteq Nat

Roles == {"billing_manager", "manager"}

AdminScopes == {"cloud_controller.admin_read_only", "cloud_controller.global_auditor",
                "cloud_controller.admin"}

Scopes == {{}, {"cloud_controller.read"}} \cup {{s} : s \in AdminScopes}

(* No token, or one that claims to be signed with a key.                   *)
Headers == {"none", "not two parts", "not bearer", "empty", "bearer"}

Time == 0 .. MaxTime

UAAClaims == [scope : Scopes, expiresAt : Time]

VARIABLES
  now,       \* the clock
  keys,      \* the keys UAA publishes at /token_keys
  roles,     \* the organisations in which the user has a role, per role
  changes,   \* changes of keys and roles so far
  header,    \* the Authorization header of the request
  key,       \* the key the token was signed with
  token,     \* what the token says
  asked,     \* the organisations asked for
  pc,        \* where in authorize the request is
  claims,    \* whether the authorizer holds the claims of the token
  orgGUIDs,  \* the organisations the authorizer has been told of
  verified,  \* whether the claims were verified with a key of the time
  fresh,     \* whether the claims were found not to have expired
  member,    \* organisations the user had a role in since the request came
  kept       \* pairs of role and organisation the user had all the while

platform == <<now, keys, roles, changes, member, kept>>
fixed == <<header, key, token, asked>>
local == <<pc, claims, orgGUIDs, verified, fresh>>
vars == <<platform, fixed, local>>

PCs == {"token", "admin", "access", "billing_managed", "managed", "match",
        "granted", "denied"}

TypeOK ==
  /\ now \in Time
  /\ keys \subseteq Keys
  /\ roles \in [Roles -> SUBSET Orgs]
  /\ changes \in 0 .. MaxChanges
  /\ header \in Headers /\ key \in Keys /\ token \in UAAClaims /\ asked \subseteq Orgs
  /\ pc \in PCs
  /\ pc \in {"access", "billing_managed", "managed", "match"} => claims
  /\ pc \in {"billing_managed", "managed", "match"} => asked # {}
  /\ {claims, verified, fresh} \subseteq BOOLEAN
  /\ orgGUIDs \subseteq Orgs
  /\ member \subseteq Orgs
  /\ kept \subseteq Roles \X Orgs

HasRole(rs, o) == \E role \in Roles : o \in rs[role]

Held(rs) == {x \in Roles \X Orgs : x[2] \in rs[x[1]]}

Init ==
  /\ now = 0
  /\ keys \in SUBSET Keys
  /\ roles \in [Roles -> SUBSET Orgs]
  /\ changes = 0
  /\ header \in Headers
  /\ key \in Keys
  /\ token \in UAAClaims
  /\ asked \in SUBSET Orgs
  /\ pc = "token"
  /\ claims = FALSE
  /\ orgGUIDs = {}
  /\ verified = FALSE
  /\ fresh = FALSE
  /\ member = {o \in Orgs : HasRole(roles, o)}
  /\ kept = Held(roles)

------------------------------------------------------------------------------
(* UAA and the Cloud Controller (external).                                *)

Tick ==
  /\ now < MaxTime
  /\ now' = now + 1
  /\ UNCHANGED <<keys, roles, changes, member, kept, fixed, local>>

RotateKeys(ks) ==
  /\ changes < MaxChanges
  /\ changes' = changes + 1
  /\ keys' = ks
  /\ UNCHANGED <<now, roles, member, kept, fixed, local>>

AssignRoles(rs) ==
  /\ changes < MaxChanges
  /\ changes' = changes + 1
  /\ roles' = rs
  /\ member' = member \cup {o \in Orgs : HasRole(rs, o)}
  /\ kept' = kept \cap Held(rs)
  /\ UNCHANGED <<now, keys, fixed, local>>

------------------------------------------------------------------------------
(* authorize.                                                              *)

Go(to) == pc' = to

(* GetTokenFromRequest and NewAuthorizer: nothing but a bearer token.      *)
GetToken ==
  /\ pc = "token"
  /\ Go(IF header = "bearer" THEN "admin" ELSE "denied")
  /\ UNCHANGED <<platform, fixed, claims, orgGUIDs, verified, fresh>>

(* The key is looked up among those UAA publishes now.                     *)
Verifies == key \in keys

Expired == token.expiresAt < now

(* The authorizer keeps the claims of a verified token before it looks at  *)
(* their time, and does not look again once it has them.                   *)
composeClaims ==
  /\ claims' = (claims \/ Verifies)
  /\ verified' = (verified \/ Verifies)
  /\ fresh' = (fresh \/ (~claims /\ Verifies /\ ~Expired))

(* Whether composeClaims returns without an error.                         *)
Composed == claims \/ (Verifies /\ ~Expired)

hasAdminScope == token.scope \cap AdminScopes # {}

(* Mutant of AfterAdmin: what is held of the token is enough, expired or   *)
(* not.                                                                    *)
AfterAdminHeld ==
  IF ~claims' THEN "denied" ELSE IF hasAdminScope THEN "granted" ELSE "access"

(* An error of Admin ends the request.                                     *)
AfterAdmin ==
  IF ~Composed THEN "denied" ELSE IF hasAdminScope THEN "granted" ELSE "access"

Admin ==
  /\ pc = "admin"
  /\ composeClaims
  /\ Go(AfterAdmin)
  /\ UNCHANGED <<platform, fixed, orgGUIDs>>

(* Asking for all organisations takes an administrator.                    *)
AllOrgs == IF hasAdminScope THEN "granted" ELSE "denied"

HasBillingAccess ==
  /\ pc = "access"
  /\ composeClaims
  /\ Go(IF ~Composed THEN "denied" ELSE IF asked = {} THEN AllOrgs ELSE "billing_managed")
  /\ UNCHANGED <<platform, fixed, orgGUIDs>>

Listed(role) == orgGUIDs \cup roles[role]

ListUserBillingManagedOrgs ==
  /\ pc = "billing_managed"
  /\ orgGUIDs' = Listed("billing_manager")
  /\ Go("managed")
  /\ UNCHANGED <<platform, fixed, claims, verified, fresh>>

ListUserManagedOrgs ==
  /\ pc = "managed"
  /\ orgGUIDs' = Listed("manager")
  /\ Go("match")
  /\ UNCHANGED <<platform, fixed, claims, verified, fresh>>

(* Mutant of SliceMatches: one organisation is enough.                     *)
SliceMatchesOne(requested, allowed) == requested \cap allowed # {}

SliceMatches(requested, allowed) == requested \subseteq allowed

Match ==
  /\ pc = "match"
  /\ Go(IF SliceMatches(asked, orgGUIDs) THEN "granted" ELSE "denied")
  /\ UNCHANGED <<platform, fixed, claims, orgGUIDs, verified, fresh>>

(* A call to UAA or the Cloud Controller that fails.                       *)
Fail ==
  /\ pc \in {"admin", "access", "billing_managed", "managed"}
  /\ changes < MaxChanges
  /\ changes' = changes + 1
  /\ Go("denied")
  /\ UNCHANGED <<now, keys, roles, member, kept, fixed, claims, orgGUIDs, verified, fresh>>

Authorize ==
  \/ GetToken \/ Admin \/ HasBillingAccess
  \/ ListUserBillingManagedOrgs \/ ListUserManagedOrgs \/ Match

Answered == pc \in {"granted", "denied"} /\ UNCHANGED vars

Next ==
  \/ Tick
  \/ \E ks \in SUBSET Keys : RotateKeys(ks)
  \/ \E rs \in [Roles -> SUBSET Orgs] : AssignRoles(rs)
  \/ Authorize \/ Fail \/ Answered

Spec == Init /\ [][Next]_vars

------------------------------------------------------------------------------
(* Usage and bills are given to who is an administrator, or had a role in  *)
(* every organisation asked for while the request was decided; all         *)
(* organisations at once only to an administrator.  And who keeps a role   *)
(* in every organisation asked for is not turned away by what changes      *)
(* between the two calls that list the roles.                              *)
GrantedToEntitled ==
  /\ pc = "granted" => \/ token.scope \cap AdminScopes # {}
                       \/ asked # {} /\ asked \subseteq member
  /\ pc = "match" /\ (\A o \in asked : \E role \in Roles : <<role, o>> \in kept) =>
       SliceMatches(asked, orgGUIDs)

(* Nothing is granted on a token that no key of UAA verified, or that had  *)
(* expired when it was verified, although the authorizer keeps the claims  *)
(* of such a token and would not look at their time again.                 *)
GrantedOnValidToken == pc = "granted" => header = "bearer" /\ verified /\ fresh
==============================================================================
