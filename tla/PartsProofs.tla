----------------------------- MODULE PartsProofs -----------------------------
(***************************************************************************)
(* Theorems about the components of Parts, for all values of their         *)
(* parameters.  What is proved of Lifecycle in LifecycleProofs is carried  *)
(* over; the other three are proved here.                                  *)
(***************************************************************************)
EXTENDS Parts, FiniteSetTheorems, SequenceTheorems, TLAPS

(* A component takes a step of its own or rests.                           *)
LEMMA StepsApart ==
  [PartsNext]_PartsVars => /\ [Auth!Next]_(Auth!vars)
                           /\ [Life!Next]_(Life!vars)
                           /\ [Disc!Next]_(Disc!vars)
                           /\ [Reads!Next]_(Reads!vars)
<1>1. /\ UNCHANGED AuthVars => UNCHANGED Auth!vars
      /\ UNCHANGED LifeVars => UNCHANGED Life!vars
      /\ UNCHANGED DiscVars => UNCHANGED Disc!vars
      /\ UNCHANGED ReadsVars => UNCHANGED Reads!vars
  BY DEF AuthVars, Auth!vars, Auth!platform, Auth!fixed, Auth!local, LifeVars, Life!vars,
     Life!process, Life!parts, Life!serving, DiscVars, Disc!vars, Disc!platform,
     Disc!request, Disc!work, Disc!reply, ReadsVars, Reads!vars
<1> QED
  BY <1>1, Zenon DEF PartsNext, PartsVars, AuthStep, LifeStep, DiscStep, ReadsStep

(* What is side by side does not interfere: each component behaves as it   *)
(* does alone.                                                             *)
LEMMA PartsAreIndependent ==
  PartsSpec => Auth!Spec /\ Life!Spec /\ Disc!Spec /\ Reads!Spec
<1>1. PartsInit => Auth!Init /\ Life!Init /\ Disc!Init /\ Reads!Init
  BY DEF PartsInit
<1> QED
  BY <1>1, StepsApart, PTL DEF PartsSpec, Auth!Spec, Life!Spec, Disc!Spec, Reads!Spec

------------------------------------------------------------------------------
(* Authorization.                                                          *)

(* The token was sent, verified and found in time before any role is asked *)
(* for; until Admin nothing is held of it.                                 *)
Known == {"access", "billing_managed", "managed", "match", "granted"}

TokenInv ==
  /\ pc \in {"token", "admin"} => ~claims
  /\ pc = "admin" => header = "bearer"
  /\ pc \in Known => header = "bearer" /\ claims /\ verified /\ fresh

(* What has been listed was held at some time since the request came, and  *)
(* contains what was held all the while.                                   *)
RolesInv ==
  /\ roles \in [Auth!Roles -> SUBSET AskedOrgs]
  /\ kept \subseteq Auth!Roles \X AskedOrgs
  /\ \A o \in AskedOrgs : Auth!HasRole(roles, o) => o \in member
  /\ orgGUIDs \subseteq member
  /\ \A o \in AskedOrgs, role \in Auth!Roles : <<role, o>> \in kept => o \in roles[role]
  /\ pc \in {"managed", "match"} =>
       \A o \in AskedOrgs : <<"billing_manager", o>> \in kept => o \in orgGUIDs
  /\ pc = "match" =>
       \A o \in AskedOrgs : <<"manager", o>> \in kept => o \in orgGUIDs

(* Only an administrator, or a member of what is asked for, is let in.     *)
GrantInv ==
  /\ asked \subseteq AskedOrgs
  /\ pc \in {"billing_managed", "managed", "match"} => asked # {}
  /\ pc = "granted" => \/ token.scope \cap Auth!AdminScopes # {}
                       \/ asked # {} /\ asked \subseteq member

------------------------------------------------------------------------------
LEMMA TokenInit == Auth!Init => TokenInv
  BY DEF Auth!Init, TokenInv, Known

LEMMA TokenStep == TokenInv /\ [Auth!Next]_(Auth!vars) => TokenInv'
<1> SUFFICES ASSUME TokenInv, [Auth!Next]_(Auth!vars) PROVE TokenInv'
  OBVIOUS
<1> USE DEF TokenInv, Known, Auth!platform, Auth!fixed, Auth!local
<1>1. CASE Auth!Tick
  BY <1>1 DEF Auth!Tick
<1>2. ASSUME NEW ks \in SUBSET Keys, Auth!RotateKeys(ks) PROVE TokenInv'
  BY <1>2 DEF Auth!RotateKeys
<1>3. ASSUME NEW rs \in [Auth!Roles -> SUBSET AskedOrgs], Auth!AssignRoles(rs) PROVE TokenInv'
  BY <1>3 DEF Auth!AssignRoles
<1>4. CASE Auth!GetToken
  BY <1>4 DEF Auth!GetToken, Auth!Go
<1>5. CASE Auth!Admin
  <2>1. Auth!Composed => claims' /\ verified' /\ fresh'
    BY <1>5 DEF Auth!Admin, Auth!composeClaims, Auth!Composed
  <2> QED
    BY <1>5, <2>1 DEF Auth!Admin, Auth!AfterAdmin, Auth!Go
<1>6. CASE Auth!HasBillingAccess
  <2>1. claims' /\ verified' /\ fresh' /\ header' = "bearer"
    BY <1>6 DEF Auth!HasBillingAccess, Auth!composeClaims
  <2> QED
    BY <1>6, <2>1 DEF Auth!HasBillingAccess, Auth!AllOrgs, Auth!Go
<1>7. CASE Auth!ListUserBillingManagedOrgs
  BY <1>7 DEF Auth!ListUserBillingManagedOrgs, Auth!Go
<1>8. CASE Auth!ListUserManagedOrgs
  BY <1>8 DEF Auth!ListUserManagedOrgs, Auth!Go
<1>9. CASE Auth!Match
  BY <1>9 DEF Auth!Match, Auth!Go
<1>10. CASE Auth!Fail
  BY <1>10 DEF Auth!Fail, Auth!Go
<1>11. CASE UNCHANGED Auth!vars
  BY <1>11 DEF Auth!vars
<1> QED
  BY <1>1, <1>2, <1>3, <1>4, <1>5, <1>6, <1>7, <1>8, <1>9, <1>10, <1>11
  DEF Auth!Next, Auth!Authorize, Auth!Answered

(* Nothing is granted on a token that was not verified by a key of UAA or  *)
(* had expired by then, however keys and time change (composeClaims keeps  *)
(* the claims of an expired token; authorize ends with Admin's error).     *)
THEOREM TokensAreValid == PartsSpec => []GrantedOnValidToken
<1>1. TokenInv => GrantedOnValidToken
  BY DEF TokenInv, GrantedOnValidToken, Auth!GrantedOnValidToken, Known
<1> QED
  BY TokenInit, TokenStep, <1>1, PartsAreIndependent, PTL DEF Auth!Spec

------------------------------------------------------------------------------
LEMMA RolesInit == Auth!Init => RolesInv
  BY DEF Auth!Init, RolesInv, Auth!HasRole, Auth!Held

LEMMA RolesStep == RolesInv /\ [Auth!Next]_(Auth!vars) => RolesInv'
<1> SUFFICES ASSUME RolesInv, [Auth!Next]_(Auth!vars) PROVE RolesInv'
  OBVIOUS
<1> USE DEF Auth!platform, Auth!fixed, Auth!local
<1>1. CASE UNCHANGED <<roles, member, kept, orgGUIDs, pc>>
  BY <1>1 DEF RolesInv, Auth!HasRole
<1>2. ASSUME NEW rs \in [Auth!Roles -> SUBSET AskedOrgs], Auth!AssignRoles(rs) PROVE RolesInv'
  <2>1. /\ roles' = rs /\ member' = member \cup {o \in AskedOrgs : Auth!HasRole(rs, o)}
        /\ kept' = kept \cap Auth!Held(rs) /\ UNCHANGED <<orgGUIDs, pc>>
    BY <1>2 DEF Auth!AssignRoles
  <2>2. \A o \in AskedOrgs, role \in Auth!Roles : <<role, o>> \in Auth!Held(rs) => o \in rs[role]
    BY DEF Auth!Held
  <2> QED
    BY <2>1, <2>2 DEF RolesInv, Auth!HasRole
<1>3. CASE UNCHANGED <<roles, member, kept, orgGUIDs>> /\ pc' \notin {"managed", "match"}
  BY <1>3 DEF RolesInv, Auth!HasRole
<1>4. ASSUME NEW role \in Auth!Roles, orgGUIDs' = Auth!Listed(role), UNCHANGED <<roles, member, kept>>
      PROVE /\ orgGUIDs \subseteq orgGUIDs' /\ orgGUIDs' \subseteq member'
            /\ \A o \in AskedOrgs : <<role, o>> \in kept' => o \in orgGUIDs'
  BY <1>4 DEF RolesInv, Auth!HasRole, Auth!Listed
<1>5. CASE Auth!ListUserBillingManagedOrgs
  <2>1. "billing_manager" \in Auth!Roles
    BY DEF Auth!Roles
  <2> QED
    BY <1>5, <1>4, <2>1 DEF Auth!ListUserBillingManagedOrgs, Auth!Go, RolesInv, Auth!HasRole
<1>6. CASE Auth!ListUserManagedOrgs
  <2>1. "manager" \in Auth!Roles
    BY DEF Auth!Roles
  <2> QED
    BY <1>6, <1>4, <2>1 DEF Auth!ListUserManagedOrgs, Auth!Go, RolesInv, Auth!HasRole
<1>7. ASSUME Auth!Tick \/ (\E ks \in SUBSET Keys : Auth!RotateKeys(ks)) \/ Auth!Answered \/ UNCHANGED Auth!vars
      PROVE UNCHANGED <<roles, member, kept, orgGUIDs, pc>>
  BY <1>7 DEF Auth!Tick, Auth!RotateKeys, Auth!Answered, Auth!vars
<1>8. ASSUME Auth!GetToken \/ Auth!Admin \/ Auth!HasBillingAccess \/ Auth!Match \/ Auth!Fail
      PROVE UNCHANGED <<roles, member, kept, orgGUIDs>> /\ pc' \notin {"managed", "match"}
  BY <1>8 DEF Auth!GetToken, Auth!Admin, Auth!AfterAdmin, Auth!HasBillingAccess, Auth!AllOrgs, Auth!Match, Auth!Fail, Auth!Go
<1> QED
  BY <1>1, <1>2, <1>3, <1>5, <1>6, <1>7, <1>8 DEF Auth!Next, Auth!Authorize

LEMMA GrantInit == Auth!Init => GrantInv
  BY DEF Auth!Init, GrantInv

LEMMA GrantStep == GrantInv /\ RolesInv /\ [Auth!Next]_(Auth!vars) => GrantInv'
<1> SUFFICES ASSUME GrantInv, RolesInv, [Auth!Next]_(Auth!vars) PROVE GrantInv'
  OBVIOUS
<1> USE DEF GrantInv, Auth!platform, Auth!fixed, Auth!local
<1>1. CASE Auth!Tick \/ (\E ks \in SUBSET Keys : Auth!RotateKeys(ks)) \/ Auth!Answered \/ UNCHANGED Auth!vars
  BY <1>1 DEF Auth!Tick, Auth!RotateKeys, Auth!Answered, Auth!vars
<1>2. ASSUME NEW rs \in [Auth!Roles -> SUBSET AskedOrgs], Auth!AssignRoles(rs) PROVE GrantInv'
  BY <1>2 DEF Auth!AssignRoles
<1>3. CASE Auth!GetToken
  BY <1>3 DEF Auth!GetToken, Auth!Go
<1>4. CASE Auth!Admin
  BY <1>4 DEF Auth!Admin, Auth!AfterAdmin, Auth!hasAdminScope, Auth!Go
<1>5. CASE Auth!HasBillingAccess
  BY <1>5 DEF Auth!HasBillingAccess, Auth!AllOrgs, Auth!hasAdminScope, Auth!Go
<1>6. CASE Auth!ListUserBillingManagedOrgs \/ Auth!ListUserManagedOrgs
  BY <1>6 DEF Auth!ListUserBillingManagedOrgs, Auth!ListUserManagedOrgs, Auth!Go
<1>7. CASE Auth!Match
  BY <1>7 DEF Auth!Match, Auth!SliceMatches, Auth!Go, RolesInv
<1>8. CASE Auth!Fail
  BY <1>8 DEF Auth!Fail, Auth!Go
<1> QED
  BY <1>1, <1>2, <1>3, <1>4, <1>5, <1>6, <1>7, <1>8 DEF Auth!Next, Auth!Authorize

LEMMA Entitled == GrantInv /\ RolesInv => Auth!GrantedToEntitled
<1> SUFFICES ASSUME GrantInv, RolesInv, pc = "match",
                    \A o \in asked : \E role \in Auth!Roles : <<role, o>> \in kept
             PROVE  Auth!SliceMatches(asked, orgGUIDs)
  BY DEF GrantInv, Auth!GrantedToEntitled
<1>1. \A o \in asked : o \in orgGUIDs
  BY DEF RolesInv, GrantInv, Auth!Roles
<1> QED
  BY <1>1 DEF Auth!SliceMatches

(* Who is let in is an administrator, or had a role in every organisation  *)
(* asked for while the request was decided; who kept roles in all of them  *)
(* is not turned away for it, however often roles change between the two   *)
(* calls that list them.                                                   *)
THEOREM EntitledAreGranted == PartsSpec => []GrantedToEntitled
<1>1. Auth!Init => GrantInv /\ RolesInv
  BY GrantInit, RolesInit
<1>2. GrantInv /\ RolesInv /\ [Auth!Next]_(Auth!vars) => (GrantInv /\ RolesInv)'
  BY GrantStep, RolesStep
<1> QED
  BY <1>1, <1>2, Entitled, PartsAreIndependent, PTL DEF Auth!Spec, GrantedToEntitled

(* The types, of which what is held of the token is TokenInv's.            *)
LEMMA AuthTypeInit == ASSUME Auth!BoundsAssumption, Auth!Init PROVE Auth!TypeOK
<1>1. clock \in Auth!Time /\ changes \in 0 .. MaxChanges
  BY DEF Auth!Init, Auth!Time, Auth!BoundsAssumption
<1>2. kept \subseteq Auth!Roles \X AskedOrgs
  BY DEF Auth!Init, Auth!Held
<1> QED
  BY <1>1, <1>2 DEF Auth!Init, Auth!TypeOK, Auth!PCs

LEMMA AuthTypeStep ==
  ASSUME Auth!BoundsAssumption, Auth!TypeOK, TokenInv, TokenInv', GrantInv, GrantInv',
         [Auth!Next]_(Auth!vars)
  PROVE  Auth!TypeOK'
<1> USE DEF Auth!platform, Auth!fixed, Auth!local
<1>1. pc' \in {"access", "billing_managed", "managed", "match"} => claims'
  BY DEF TokenInv, Known
<1>2. pc' \in {"billing_managed", "managed", "match"} => asked' # {}
  BY DEF GrantInv
<1>3. \A n \in 0 .. MaxChanges : n < MaxChanges => n + 1 \in 0 .. MaxChanges
  BY DEF Auth!BoundsAssumption
<1>4. CASE Auth!Tick
  <2>1. clock' \in Auth!Time
    BY <1>4 DEF Auth!Tick, Auth!TypeOK, Auth!Time, Auth!BoundsAssumption
  <2> QED
    BY <1>4, <2>1 DEF Auth!Tick, Auth!TypeOK
<1>5. ASSUME NEW ks \in SUBSET Keys, Auth!RotateKeys(ks) PROVE Auth!TypeOK'
  BY <1>3, <1>5 DEF Auth!RotateKeys, Auth!TypeOK
<1>6. ASSUME NEW rs \in [Auth!Roles -> SUBSET AskedOrgs], Auth!AssignRoles(rs)
      PROVE  Auth!TypeOK'
  BY <1>3, <1>6 DEF Auth!AssignRoles, Auth!TypeOK
<1>7. ASSUME UNCHANGED <<clock, keys, roles, member, kept, header, key, token, asked>>,
             changes' \in 0 .. MaxChanges, pc' \in Auth!PCs, orgGUIDs' \subseteq AskedOrgs,
             {claims', verified', fresh'} \subseteq BOOLEAN
      PROVE  Auth!TypeOK'
  BY <1>1, <1>2, <1>7 DEF Auth!TypeOK
<1>8. CASE Auth!GetToken \/ Auth!Match
  BY <1>7, <1>8 DEF Auth!GetToken, Auth!Match, Auth!Go, Auth!PCs, Auth!TypeOK
<1>9. CASE Auth!Admin \/ Auth!HasBillingAccess
  <2>1. {claims', verified', fresh'} \subseteq BOOLEAN
    BY <1>9 DEF Auth!Admin, Auth!HasBillingAccess, Auth!composeClaims, Auth!TypeOK,
       Auth!Verifies, Auth!Expired
  <2>2. pc' \in Auth!PCs
    BY <1>9 DEF Auth!Admin, Auth!HasBillingAccess, Auth!Go, Auth!AfterAdmin, Auth!AllOrgs,
       Auth!PCs
  <2> QED
    BY <1>7, <1>9, <2>1, <2>2 DEF Auth!Admin, Auth!HasBillingAccess, Auth!TypeOK
<1>10. CASE Auth!ListUserBillingManagedOrgs \/ Auth!ListUserManagedOrgs
  <2>1. orgGUIDs' \subseteq AskedOrgs
    BY <1>10 DEF Auth!ListUserBillingManagedOrgs, Auth!ListUserManagedOrgs, Auth!Listed,
       Auth!TypeOK, Auth!Roles
  <2> QED
    BY <1>7, <1>10, <2>1 DEF Auth!ListUserBillingManagedOrgs, Auth!ListUserManagedOrgs,
       Auth!Go, Auth!PCs, Auth!TypeOK
<1>11. CASE Auth!Fail
  BY <1>3, <1>7, <1>11 DEF Auth!Fail, Auth!Go, Auth!PCs, Auth!TypeOK
<1>12. CASE Auth!Answered \/ UNCHANGED Auth!vars
  BY <1>12 DEF Auth!Answered, Auth!vars, Auth!TypeOK
<1> QED
  BY <1>4, <1>5, <1>6, <1>8, <1>9, <1>10, <1>11, <1>12 DEF Auth!Next, Auth!Authorize

------------------------------------------------------------------------------
(* PricingReads: what is answered is what was in force when it was asked   *)
(* for, and the answer goes with the table it was read from.               *)

(* The range that lead() gives a row meets the one asked for just when the *)
(* row is the last of its code to have begun on one of the days asked for: *)
(* on the first of them, or on the row's own first day.                    *)
LEMMA OverlapsIsInForce ==
  ASSUME Reads!BoundsAssumption, rows \subseteq Reads!Row,
         NEW r \in rows, NEW start \in 0 .. Days, NEW stop \in 0 .. Days
  PROVE  Reads!Overlaps(r, start, stop)
           <=> \E day \in start .. stop - 1 : Reads!InForce(r, day)
<1>1. Days \in Nat /\ \A s \in rows : s.from \in Nat
  BY DEF Reads!BoundsAssumption, Reads!Row
<1>2. ASSUME Reads!Overlaps(r, start, stop)
      PROVE  \E day \in start .. stop - 1 : Reads!InForce(r, day)
  <2>1. /\ start < stop /\ r.from < stop
        /\ \A s \in rows : s.code = r.code /\ r.from < s.from => start < s.from
    BY <1>2 DEF Reads!Overlaps, Reads!Later
  <2>2. CASE r.from =< start
    <3>1. start \in start .. stop - 1
      BY <1>1, <2>1
    <3>2. Reads!InForce(r, start)
      BY <1>1, <2>1, <2>2 DEF Reads!InForce
    <3> QED
      BY <3>1, <3>2
  <2>3. CASE start < r.from
    <3>1. r.from \in start .. stop - 1
      BY <1>1, <2>1, <2>3
    <3>2. Reads!InForce(r, r.from)
      BY <1>1 DEF Reads!InForce
    <3> QED
      BY <3>1, <3>2
  <2> QED
    BY <1>1, <2>2, <2>3
<1>3. ASSUME NEW day \in start .. stop - 1, Reads!InForce(r, day)
      PROVE  Reads!Overlaps(r, start, stop)
  BY <1>1, <1>3 DEF Reads!InForce, Reads!Overlaps, Reads!Later
<1> QED
  BY <1>2, <1>3

(* The join finds the components of a row that has any.                    *)
LEMMA ComponentsAreOwn ==
  ASSUME parts \subseteq rows \X Components, NEW r \in rows
  PROVE  LET own == {c \in Components : <<r, c>> \in parts}
         IN /\ own # {} => Reads!ComponentsOf(r) = own
            /\ Reads!ComponentsOf(r) \subseteq Components \cup {Reads!Null}
<1> DEFINE own == {c \in Components : <<r, c>> \in parts}
           found == {p[2] : p \in {q \in parts : Reads!PartOf(q, r)}}
<1>1. \A p \in parts : p = <<p[1], p[2]>> /\ p[2] \in Components
  OBVIOUS
<1>2. found = own
  BY <1>1 DEF Reads!PartOf
<1>3. Reads!ComponentsOf(r)
        = IF found = {} /\ table = "pricing_plans" THEN {Reads!Null} ELSE found
  BY DEF Reads!ComponentsOf
<1> QED
  BY <1>2, <1>3

ReadsInv == Reads!TypeOK /\ Reads!ListsWhatIsInForce

LEMMA ListsInit == ASSUME Reads!BoundsAssumption, Reads!Init PROVE ReadsInv
<1>1. Reads!None \in [start : Reads!Dates, stop : Reads!Dates]
  BY DEF Reads!None, Reads!Dates
<1> QED
  BY <1>1 DEF Reads!Init, Reads!NoAnswer, ReadsInv, Reads!TypeOK, Reads!ListsWhatIsInForce

LEMMA ReadsReconfigure ==
  ASSUME Reads!ConfigsAssumption, ReadsInv, NEW config \in Configs,
         Reads!Reconfigure(config)
  PROVE  ReadsInv'
<1>1. rows' \subseteq Reads!Row /\ parts' \subseteq rows' \X Components
  BY DEF Reads!Reconfigure, Reads!ConfigsAssumption
<1>2. Reads!None \in [start : Reads!Dates, stop : Reads!Dates]
  BY DEF Reads!None, Reads!Dates
<1>3. answer'.status = 0 /\ answer'.list = {} /\ answer'.whole \in BOOLEAN
  BY Zenon DEF Reads!Reconfigure, Reads!NoAnswer
<1>4. table' \in Reads!Tables /\ filter' = Reads!None
  BY DEF Reads!Reconfigure, ReadsInv, Reads!TypeOK
<1> QED
  BY <1>1, <1>2, <1>3, <1>4 DEF ReadsInv, Reads!TypeOK, Reads!ListsWhatIsInForce

LEMMA ReadsGet ==
  ASSUME Reads!BoundsAssumption, ReadsInv,
         NEW start \in Reads!Dates, NEW stop \in Reads!Dates,
         Reads!Get([start |-> start, stop |-> stop])
  PROVE  ReadsInv'
<1> DEFINE f == [start |-> start, stop |-> stop]
           chosen == {s \in rows : Reads!Overlaps(s, start, stop)}
           entry(r) == [row |-> r, components |-> Reads!ComponentsOf(r)]
<1>1. /\ filter' = f /\ f \in [start : Reads!Dates, stop : Reads!Dates]
      /\ UNCHANGED <<table, rows, parts>>
  BY DEF Reads!Get, Reads!Asked
<1>2. /\ table \in Reads!Tables /\ rows \subseteq Reads!Row
      /\ parts \subseteq rows \X Components
  BY DEF ReadsInv, Reads!TypeOK
<1>3. PICK listed \in SUBSET chosen :
        /\ answer'.status = 200 /\ answer'.list = {entry(r) : r \in listed}
        /\ answer'.whole \in BOOLEAN /\ (answer'.whole => listed = chosen)
  <2>1. Reads!Chosen(f) = chosen
    BY DEF Reads!Chosen
  <2>2. PICK read \in SUBSET chosen :
          answer' = [status |-> 200, list |-> {entry(r) : r \in read}, whole |-> read = chosen]
    BY <2>1 DEF Reads!Get, Reads!Readings
  <2>3. /\ answer'.status = 200 /\ answer'.list = {entry(r) : r \in read}
        /\ answer'.whole = (read = chosen)
    BY <2>2, Zenon
  <2>4. answer'.whole \in BOOLEAN /\ (answer'.whole => read = chosen)
    <3> HIDE DEF chosen
    <3> QED
      BY <2>3, Zenon
  <2> QED
    BY <2>3, <2>4
<1>4. start \in 0 .. Days /\ stop \in 0 .. Days /\ start =< stop
  <2>1. start # Reads!Malformed /\ stop # Reads!Malformed /\ ~(stop < start)
    BY DEF Reads!Get, Reads!Refused
  <2> QED
    BY <2>1 DEF Reads!Dates, Reads!BoundsAssumption
<1>5. {e.row : e \in answer'.list} = listed
  <2>1. \A r \in listed : entry(r).row = r
    OBVIOUS
  <2>2. ASSUME NEW e \in answer'.list PROVE e.row \in listed
    BY <1>3, <2>1
  <2>3. ASSUME NEW r \in listed PROVE \E e \in answer'.list : e.row = r
    <3>1. entry(r) \in answer'.list
      BY <1>3
    <3> QED
      BY <2>1, <3>1
  <2> QED
    BY <2>2, <2>3
<1>6. chosen = {r \in rows : \E day \in start .. stop - 1 : Reads!InForce(r, day)}
  BY <1>2, <1>4, OverlapsIsInForce
<1>7. \A r \in rows, day \in start .. stop - 1 : Reads!InForce(r, day)' <=> Reads!InForce(r, day)
  BY <1>1 DEF Reads!InForce
<1>8. \A e \in answer'.list :
        /\ e.row \in rows /\ e.components \subseteq Components \cup {Reads!Null}
        /\ LET own == {c \in Components : <<e.row, c>> \in parts}
           IN own # {} => e.components = own
  <2>1. ASSUME NEW r \in listed
        PROVE  /\ Reads!ComponentsOf(r) \subseteq Components \cup {Reads!Null}
               /\ LET own == {c \in Components : <<r, c>> \in parts}
                  IN own # {} => Reads!ComponentsOf(r) = own
    BY <1>2, ComponentsAreOwn
  <2>2. \A r \in listed : entry(r).row = r /\ entry(r).components = Reads!ComponentsOf(r)
    OBVIOUS
  <2> QED
    BY <1>3, <2>1, <2>2
<1>9. Reads!TypeOK'
  BY <1>1, <1>2, <1>3, <1>4, <1>8 DEF Reads!TypeOK, Reads!Malformed
<1>10. Reads!ListsWhatIsInForce'
  BY <1>1, <1>3, <1>5, <1>6, <1>7, <1>8 DEF Reads!ListsWhatIsInForce, Reads!InForce
<1> QED
  BY <1>9, <1>10 DEF ReadsInv

LEMMA ReadsGetFails ==
  ASSUME ReadsInv, NEW start \in Reads!Dates, NEW stop \in Reads!Dates,
         Reads!GetFails([start |-> start, stop |-> stop])
  PROVE  ReadsInv'
<1>1. /\ filter' \in [start : Reads!Dates, stop : Reads!Dates]
      /\ UNCHANGED <<table, rows, parts>>
  BY DEF Reads!GetFails, Reads!Asked
<1>2. answer'.status = 500 /\ answer'.list = {} /\ answer'.whole \in BOOLEAN
  BY Zenon DEF Reads!GetFails
<1> QED
  BY <1>1, <1>2 DEF ReadsInv, Reads!TypeOK, Reads!ListsWhatIsInForce

LEMMA ListsStep ==
  ASSUME Reads!BoundsAssumption, Reads!ConfigsAssumption, ReadsInv,
         [Reads!Next]_(Reads!vars)
  PROVE  ReadsInv'
<1>1. CASE UNCHANGED Reads!vars
  BY <1>1 DEF Reads!vars, ReadsInv, Reads!TypeOK, Reads!ListsWhatIsInForce, Reads!InForce
<1> QED
  BY <1>1, ReadsReconfigure, ReadsGet, ReadsGetFails DEF Reads!Next

LEMMA ReadsAlways ==
  ASSUME Reads!BoundsAssumption, Reads!ConfigsAssumption PROVE Reads!Spec => []ReadsInv
<1>1. Reads!Init => ReadsInv
  BY ListsInit
<1>2. ReadsInv /\ [Reads!Next]_(Reads!vars) => ReadsInv'
  BY ListsStep
<1> QED
  BY <1>1, <1>2, PTL DEF Reads!Spec

(* A range is answered with none but the rates or plans that were in force *)
(* on one of its days, with all of them if all rows could be read, and a   *)
(* plan with the components of its own version.                            *)
THEOREM ListsAreInForce == ASSUME PartsAssumption PROVE PartsSpec => []ListsWhatIsInForce
<1>1. Reads!BoundsAssumption /\ Reads!ConfigsAssumption
  BY DEF PartsAssumption
<1>2. Reads!Spec => []ReadsInv
  BY <1>1, ReadsAlways
<1>3. ReadsInv => ListsWhatIsInForce
  BY DEF ReadsInv, ListsWhatIsInForce
<1> QED
  BY <1>2, <1>3, PartsAreIndependent, PTL

------------------------------------------------------------------------------
(* Discovery.                                                              *)

(* GUIDs are given once, in the order of creation.                         *)
LastGuid == Cardinality(Names) + appChanges

GuidsInv ==
  /\ \A n \in Names : apps[n] # Disc!NoApp => apps[n].Guid =< LastGuid
  /\ \A m, n \in Names :
       apps[m] # Disc!NoApp /\ apps[n] # Disc!NoApp /\ apps[m].Guid = apps[n].Guid => m = n

(* The application the handler found was one of the name asked for, and no *)
(* other name will ever have its GUID.                                     *)
FoundInv ==
  /\ app # Disc!NoApp => /\ name \in AppNames /\ app.Guid =< LastGuid
                         /\ \A n \in Names : apps[n].Guid = app.Guid => n = name
  /\ proxy \notin {"app", "done"} => app # Disc!NoApp
  /\ status = 200 => app # Disc!NoApp /\ from = Disc!AppInstance

(* A route is asked for its domain once.                                   *)
RoutesInv ==
  /\ proxy \in {"app", "instance", "app_again"} => urls = <<>> /\ left = {}
  /\ Len(urls) + Cardinality(left) =< Cardinality(Routes)

HostsOf(S) == {r.host : r \in S}

(* What ListedAreServed excuses.                                           *)
Excused ==
  LET own == routes[apps[name].Guid] IN
  \/ instance \in (0 .. apps[name].Instances - 1) \ apps[name].Running
  \/ own = {}
  \/ \E r \in own : r.path # "none" \/ Disc!Behind(r.host, "metrics") # {}

(* While nothing changes or fails, the handler of a scrape of a listed     *)
(* target finds the application that was listed, and the hosts of all of   *)
(* its routes.                                                             *)
ListedInv ==
  calm /\ <<name, instance>> \in targets =>
    /\ name \in AppNames /\ apps[name] # Disc!NoApp
    /\ instance \in 0 .. apps[name].Instances - 1
    /\ proxy # "app" => app = apps[name]
    /\ proxy \in {"routes", "domains", "forward"} =>
         HostsOf(left) \cup {urls[i] : i \in 1 .. Len(urls)} = HostsOf(routes[apps[name].Guid])
    /\ proxy = "done" => status = 200 \/ Excused

DiscInv == Disc!TypeOK /\ GuidsInv /\ FoundInv /\ RoutesInv /\ ListedInv

(* The library's theorems are of the library's own definitions.            *)
LEMMA SameSets ==
  /\ \A S : Disc!IsFiniteSet(S) <=> IsFiniteSet(S)
  /\ \A S : Disc!Cardinality(S) = Cardinality(S)
<1>1. ASSUME NEW S PROVE Disc!IsFiniteSet(S) <=> IsFiniteSet(S)
  BY DEF Disc!IsFiniteSet, IsFiniteSet
<1>2. ASSUME NEW S PROVE Disc!Cardinality(S) = Cardinality(S)
  BY Zenon DEF Disc!Cardinality, Cardinality
<1> QED
  BY <1>1, <1>2

(* What is known of a GUID or an application by its type.                  *)
LEMMA AppFacts ==
  ASSUME Disc!FiniteAssumption, Disc!BoundsAssumption
  PROVE  /\ IsFiniteSet(Names) /\ IsFiniteSet(Routes)
         /\ Disc!Cardinality(Names) = Cardinality(Names)
         /\ Disc!Cardinality(Routes) = Cardinality(Routes)
         /\ Cardinality(Names) \in Nat /\ Cardinality(Routes) \in Nat
         /\ MaxChanges \in Nat /\ MaxInstances \in Nat
         /\ Disc!Guids = 1 .. Cardinality(Names) + MaxChanges
         /\ Disc!NoApp.Guid = 0 /\ Disc!NoApp.Instances = 0
         /\ \A a \in Disc!App : /\ a.Guid \in Disc!Guids /\ a.Guid \in Nat /\ a.Guid > 0
                                /\ a.Instances \in 0 .. MaxInstances /\ a # Disc!NoApp
<1>1. /\ IsFiniteSet(Names) /\ IsFiniteSet(Routes)
      /\ Cardinality(Names) \in Nat /\ Cardinality(Routes) \in Nat
      /\ Disc!Cardinality(Names) = Cardinality(Names)
      /\ Disc!Cardinality(Routes) = Cardinality(Routes)
  BY SameSets, FS_CardinalityType DEF Disc!FiniteAssumption
<1>2. Disc!NoApp.Guid = 0 /\ Disc!NoApp.Instances = 0
  BY DEF Disc!NoApp
<1>3. MaxChanges \in Nat /\ MaxInstances \in Nat
  BY DEF Disc!BoundsAssumption
<1>4. ASSUME NEW a \in Disc!App
      PROVE  /\ a.Guid \in Disc!Guids /\ a.Guid \in Nat /\ a.Guid > 0
             /\ a.Instances \in 0 .. MaxInstances
  BY <1>1, <1>3 DEF Disc!App, Disc!Guids
<1> QED
  BY <1>1, <1>2, <1>3, <1>4 DEF Disc!Guids

LEMMA DiscInit ==
  ASSUME Disc!FiniteAssumption, Disc!BoundsAssumption, Disc!Init PROVE DiscInv
<1> DEFINE N == Cardinality(Names)
           distinct(g) == \A m, n \in Names : g[m] = g[n] => m = n
<1>1. /\ N \in Nat /\ MaxChanges \in Nat /\ MaxInstances \in Nat
      /\ Disc!Guids = 1 .. N + MaxChanges /\ Disc!Cardinality(Names) = N
      /\ IsFiniteSet(Names)
  BY AppFacts
<1>2. PICK guid \in [Names -> 1 .. N] :
        /\ distinct(guid)
        /\ apps \in [Names -> Disc!App]
        /\ \A n \in Names : apps[n].Guid = guid[n]
  <2>1. IsFiniteSet(1 .. N) /\ Cardinality(1 .. N) = N
    BY <1>1, FS_Interval
  <2>2. ExistsBijection(Names, 1 .. N)
    BY <1>1, <2>1, FS_SameCardinalityBij
  <2>3. \E g \in [Names -> 1 .. N] : distinct(g)
    <3>1. PICK g : g \in Injection(Names, 1 .. N)
      BY <2>2 DEF ExistsBijection, Bijection
    <3> QED
      BY <3>1 DEF Injection, IsInjective
  <2> DEFINE guid == CHOOSE g \in [Names -> 1 .. N] :
                       \A m, n \in Names : g[m] = g[n] => m = n
  <2>4. guid \in [Names -> 1 .. N] /\ distinct(guid)
    BY <2>3
  <2>5. apps \in [Names -> Disc!App] /\ \A n \in Names : apps[n].Guid = guid[n]
    BY <1>1 DEF Disc!Init
  <2> HIDE DEF guid
  <2> QED
    BY <2>4, <2>5
<1>4. ASSUME NEW n \in Names PROVE apps[n] \in Disc!App /\ apps[n].Guid = guid[n] /\ guid[n] =< N
  BY <1>1, <1>2
<1>5. apps \in [Names -> Disc!App \cup {Disc!NoApp}]
  BY <1>2
<1>6. appChanges = 0 /\ LastGuid = N
  BY <1>1 DEF Disc!Init, LastGuid
<1>7. GuidsInv
  BY <1>2, <1>4, <1>6 DEF GuidsInv
<1>8. /\ targets = {} /\ calm = FALSE /\ proxy = "app" /\ app = Disc!NoApp
      /\ urls = <<>> /\ left = {} /\ status = 0 /\ from = Disc!Nobody
  BY DEF Disc!Init
<1>9. Cardinality({}) = 0 /\ Cardinality(Routes) \in Nat /\ Len(<<>>) = 0 /\ <<>> \in Seq(Hosts)
  BY AppFacts, FS_EmptySet
<1>10. FoundInv /\ RoutesInv /\ ListedInv
  BY <1>8, <1>9 DEF FoundInv, RoutesInv, ListedInv
<1>11. from \in (Disc!Guids \cup {0}) \X Disc!InstanceIDs
  BY <1>1, <1>8 DEF Disc!Nobody, Disc!InstanceIDs, Disc!NotANumber
<1>12. /\ routes \in [Disc!Guids -> SUBSET Routes]
       /\ name \in Names /\ instance \in Disc!InstanceIDs
  BY DEF Disc!Init
<1>13. urls \in Seq(Hosts) /\ Len(urls) <= Disc!Cardinality(Routes)
  BY <1>8, <1>9, AppFacts
<1>14. /\ appChanges \in 0 .. MaxChanges /\ targets \subseteq Names \X Disc!InstanceIDs
       /\ app \in Disc!App \cup {Disc!NoApp} /\ left \subseteq Routes
  <2> HIDE DEF N
  <2>1. 0 \in 0 .. MaxChanges
    BY <1>1
  <2> QED
    BY Zenon, <2>1, <1>6, <1>8
<1>15. Disc!TypeOK
  <2>1. calm \in BOOLEAN /\ (status = 0 <=> proxy # "done")
    BY Zenon, <1>8
  <2> QED
    BY Zenon, <2>1, <1>5, <1>8, <1>11, <1>12, <1>13, <1>14 DEF Disc!TypeOK
<1> QED
  BY <1>7, <1>10, <1>15 DEF DiscInv

(* The changes of the platform.                                            *)
Changes(n) ==
  \/ Disc!Delete(n)
  \/ \E i \in 0 .. MaxInstances, up \in SUBSET Disc!Numbers : Disc!Create(n, i, up)
  \/ \E i \in 0 .. MaxInstances : Disc!Scale(n, i)
  \/ \E up \in SUBSET Disc!Numbers : Disc!Run(n, up)

PlatformChanges == \E n \in Names : Changes(n)

(* What a change of the platform does.                                     *)
LEMMA PlatformStep ==
  ASSUME Disc!FiniteAssumption, Disc!BoundsAssumption, Disc!TypeOK, NEW n \in Names, Changes(n)
  PROVE  /\ appChanges' = appChanges + 1 /\ appChanges' \in 0 .. MaxChanges /\ ~calm'
         /\ UNCHANGED <<routes, targets, name, instance, proxy, app, urls, left, status, from>>
         /\ apps' \in [Names -> Disc!App \cup {Disc!NoApp}]
         /\ \A m \in Names \ {n} : apps'[m] = apps[m]
         /\ \/ apps'[n] = Disc!NoApp
            \/ apps'[n].Guid = LastGuid + 1
            \/ apps[n] # Disc!NoApp /\ apps'[n].Guid = apps[n].Guid
<1>1. Disc!Change
  BY DEF Changes, Disc!Delete, Disc!Create, Disc!Scale, Disc!Run
<1>2. /\ appChanges' = appChanges + 1 /\ appChanges < MaxChanges /\ ~calm'
      /\ UNCHANGED <<routes, targets, name, instance, proxy, app, urls, left, status, from>>
  BY <1>1 DEF Disc!Change, Disc!request, Disc!work, Disc!reply
<1>3. /\ apps \in [Names -> Disc!App \cup {Disc!NoApp}] /\ appChanges \in 0 .. MaxChanges
  BY DEF Disc!TypeOK
<1>4. /\ Cardinality(Names) \in Nat /\ MaxChanges \in Nat
      /\ Disc!Cardinality(Names) = Cardinality(Names)
      /\ Disc!Guids = 1 .. Cardinality(Names) + MaxChanges
  BY AppFacts
<1>5. appChanges' \in 0 .. MaxChanges
  BY <1>2, <1>3, <1>4
<1>6. ASSUME Disc!Delete(n)
      PROVE  /\ apps' \in [Names -> Disc!App \cup {Disc!NoApp}]
             /\ \A m \in Names \ {n} : apps'[m] = apps[m]
             /\ apps'[n] = Disc!NoApp
  <2>1. apps' = [apps EXCEPT ![n] = Disc!NoApp]
    BY <1>6 DEF Disc!Delete
  <2> QED
    BY <1>3, <2>1
<1>7. ASSUME NEW i \in 0 .. MaxInstances, NEW up \in SUBSET Disc!Numbers, Disc!Create(n, i, up)
      PROVE  /\ apps' \in [Names -> Disc!App \cup {Disc!NoApp}]
             /\ \A m \in Names \ {n} : apps'[m] = apps[m]
             /\ apps'[n].Guid = LastGuid + 1
  <2>1. LastGuid + 1 \in Disc!Guids
    BY <1>2, <1>3, <1>4 DEF LastGuid
  <2> DEFINE new == [Guid |-> LastGuid + 1, Instances |-> i, Running |-> up]
  <2>2. new \in Disc!App /\ new.Guid = LastGuid + 1
    BY <2>1 DEF Disc!App
  <2>3. apps' = [apps EXCEPT ![n] = new]
    BY <1>4, <1>7 DEF Disc!Create, LastGuid
  <2> HIDE DEF new
  <2> QED
    BY <1>3, <2>2, <2>3
<1>8. ASSUME NEW i \in 0 .. MaxInstances, Disc!Scale(n, i)
      PROVE  /\ apps' \in [Names -> Disc!App \cup {Disc!NoApp}]
             /\ \A m \in Names \ {n} : apps'[m] = apps[m]
             /\ apps[n] # Disc!NoApp /\ apps'[n].Guid = apps[n].Guid
  <2> DEFINE scaled == [apps[n] EXCEPT !.Instances = i]
  <2>1. apps[n] \in Disc!App
    BY <1>3, <1>8 DEF Disc!Scale
  <2>2. scaled \in Disc!App /\ scaled.Guid = apps[n].Guid
    BY <2>1 DEF Disc!App
  <2>3. apps' = [apps EXCEPT ![n] = scaled]
    BY <1>8 DEF Disc!Scale
  <2>4. apps[n] # Disc!NoApp
    BY <1>8 DEF Disc!Scale
  <2> HIDE DEF scaled
  <2> QED
    BY <1>3, <2>2, <2>3, <2>4
<1>9. ASSUME NEW up \in SUBSET Disc!Numbers, Disc!Run(n, up)
      PROVE  /\ apps' \in [Names -> Disc!App \cup {Disc!NoApp}]
             /\ \A m \in Names \ {n} : apps'[m] = apps[m]
             /\ apps[n] # Disc!NoApp /\ apps'[n].Guid = apps[n].Guid
  <2> DEFINE run == [apps[n] EXCEPT !.Running = up]
  <2>1. apps[n] \in Disc!App
    BY <1>3, <1>9 DEF Disc!Run
  <2>2. run \in Disc!App /\ run.Guid = apps[n].Guid
    BY <2>1 DEF Disc!App
  <2>3. apps' = [apps EXCEPT ![n] = run]
    BY <1>9 DEF Disc!Run
  <2>4. apps[n] # Disc!NoApp
    BY <1>9 DEF Disc!Run
  <2> HIDE DEF run
  <2> QED
    BY <1>3, <2>2, <2>3, <2>4
<1> QED
  BY <1>2, <1>5, <1>6, <1>7, <1>8, <1>9 DEF Changes


LEMMA DiscFacts ==
  ASSUME Disc!FiniteAssumption, Disc!BoundsAssumption, Disc!TypeOK
  PROVE  /\ appChanges \in Nat /\ LastGuid \in Nat /\ Disc!NoApp.Guid = 0 /\ name \in Names
         /\ \A n \in Names : apps[n] # Disc!NoApp =>
              /\ apps[n] \in Disc!App /\ apps[n].Guid \in Nat /\ apps[n].Guid > 0
              /\ apps[n].Instances \in 0 .. MaxInstances
         /\ app # Disc!NoApp => app \in Disc!App /\ app.Guid \in Nat /\ app.Guid > 0
<1>1. /\ appChanges \in 0 .. MaxChanges /\ name \in Names
      /\ apps \in [Names -> Disc!App \cup {Disc!NoApp}]
      /\ app \in Disc!App \cup {Disc!NoApp}
  BY DEF Disc!TypeOK
<1>2. appChanges \in Nat /\ LastGuid \in Nat
  BY <1>1, AppFacts DEF LastGuid
<1>3. \A n \in Names : apps[n] # Disc!NoApp => apps[n] \in Disc!App
  BY <1>1
<1>4. app # Disc!NoApp => app \in Disc!App
  BY <1>1
<1> QED
  BY <1>1, <1>2, <1>3, <1>4, AppFacts

(* The handlers leave the platform and the request alone.                  *)
LEMMA HandlerStep ==
  ASSUME [Disc!Next]_(Disc!vars), ~PlatformChanges
  PROVE  UNCHANGED <<apps, routes, appChanges, name, instance>>
<1> USE DEF Disc!platform, Disc!request, Disc!work, Disc!reply
<1>1. \/ Disc!MetricsDiscovery \/ Disc!LookUp \/ Disc!ParseInstance \/ Disc!LookUpAgain
      \/ Disc!GetAppRoutes \/ \E r \in Routes : Disc!getRouteDomain(r) \/ Disc!SkipRoute(r)
      \/ Disc!HaveURLs \/ Disc!ForwardRequestToURL \/ Disc!Fail \/ UNCHANGED Disc!vars
  BY DEF Disc!Next, Disc!Done, PlatformChanges, Changes
<1>2. UNCHANGED <<Disc!platform, Disc!request>>
  BY <1>1 DEF Disc!MetricsDiscovery, Disc!LookUp, Disc!ParseInstance, Disc!LookUpAgain,
     Disc!GetAppRoutes, Disc!getRouteDomain, Disc!SkipRoute, Disc!HaveURLs,
     Disc!ForwardRequestToURL, Disc!Fail, Disc!vars
<1> QED
  BY <1>2

LEMMA GuidsStep ==
  ASSUME Disc!FiniteAssumption, Disc!BoundsAssumption, Disc!TypeOK, GuidsInv,
         [Disc!Next]_(Disc!vars)
  PROVE  GuidsInv'
<1>1. CASE ~PlatformChanges
  BY <1>1, HandlerStep DEF GuidsInv, LastGuid
<1>2. CASE PlatformChanges
  <2>1. PICK n \in Names : Changes(n)
    BY <1>2 DEF PlatformChanges
  <2>2. /\ appChanges' = appChanges + 1 /\ apps' \in [Names -> Disc!App \cup {Disc!NoApp}]
        /\ \A m \in Names \ {n} : apps'[m] = apps[m]
        /\ \/ apps'[n] = Disc!NoApp
           \/ apps'[n].Guid = LastGuid + 1
           \/ apps[n] # Disc!NoApp /\ apps'[n].Guid = apps[n].Guid
    BY <2>1, PlatformStep
  <2>3. LastGuid \in Nat /\ LastGuid' = LastGuid + 1
    BY <2>2, DiscFacts, AppFacts DEF LastGuid
  <2>4. \A m \in Names : apps[m] # Disc!NoApp => apps[m].Guid \in Nat /\ apps[m].Guid =< LastGuid
    BY DiscFacts DEF GuidsInv
  <2> QED
    BY <2>2, <2>3, <2>4 DEF GuidsInv
<1> QED
  BY <1>1, <1>2

LEMMA FoundStep ==
  ASSUME Disc!FiniteAssumption, Disc!BoundsAssumption, Disc!TypeOK, GuidsInv, FoundInv,
         [Disc!Next]_(Disc!vars)
  PROVE  FoundInv'
<1> USE DEF Disc!platform, Disc!request, Disc!work, Disc!reply
<1>1. CASE PlatformChanges
  <2>1. PICK n \in Names : Changes(n)
    BY <1>1 DEF PlatformChanges
  <2>2. /\ appChanges' = appChanges + 1
        /\ UNCHANGED <<name, instance, proxy, app, status, from>>
        /\ \A m \in Names \ {n} : apps'[m] = apps[m]
        /\ \/ apps'[n] = Disc!NoApp
           \/ apps'[n].Guid = LastGuid + 1
           \/ apps[n] # Disc!NoApp /\ apps'[n].Guid = apps[n].Guid
    BY <2>1, PlatformStep
  <2>3. LastGuid \in Nat /\ LastGuid' = LastGuid + 1
    BY <2>2, DiscFacts, AppFacts DEF LastGuid
  <2>4. app # Disc!NoApp => app.Guid \in Nat /\ app.Guid > 0 /\ app.Guid =< LastGuid
    BY DiscFacts DEF FoundInv
  <2>5. app # Disc!NoApp => \A m \in Names : apps'[m].Guid = app.Guid => m = name
    BY <2>2, <2>3, <2>4, AppFacts DEF FoundInv
  <2>6. Disc!AppInstance' = Disc!AppInstance
    BY <2>2 DEF Disc!AppInstance
  <2> QED
    BY <2>2, <2>3, <2>4, <2>5, <2>6 DEF FoundInv
<1>2. CASE ~PlatformChanges
  <2>1. UNCHANGED <<apps, appChanges, name, instance>> /\ LastGuid' = LastGuid
    BY <1>2, HandlerStep DEF LastGuid
  <2>2. CASE Disc!LookUp
    <3>1. /\ app' = IF name \in AppNames THEN apps[name] ELSE Disc!NoApp
          /\ IF app' = Disc!NoApp THEN status' = 404
             ELSE proxy' = "instance" /\ status' = status
      BY <2>2 DEF Disc!LookUp, Disc!GetSpaceAppByName, Disc!appAccessAllowed, Disc!Answer,
         Disc!Go
    <3>2. status = 0
      BY <2>2, Zenon DEF Disc!LookUp, Disc!TypeOK
    <3>3. \A n \in Names : apps[n] # Disc!NoApp =>
            apps[n].Guid > 0 /\ \A m \in Names : apps[m].Guid = apps[n].Guid => m = n
      BY DiscFacts DEF GuidsInv
    <3>4. name \in Names
      BY DEF Disc!TypeOK
    <3>5. app' = Disc!NoApp => proxy' = "done"
      BY <2>2 DEF Disc!LookUp, Disc!Answer
    <3> QED
      BY <2>1, <3>1, <3>2, <3>3, <3>4, <3>5 DEF FoundInv, GuidsInv
  <2>3. CASE app' = app
    <3>1. proxy' \notin {"app", "done"} => app # Disc!NoApp
      BY <1>2, <2>3 DEF FoundInv, Disc!Next, PlatformChanges, Changes, Disc!MetricsDiscovery, Disc!LookUp,
         Disc!ParseInstance, Disc!LookUpAgain, Disc!GetAppRoutes, Disc!getRouteDomain,
         Disc!SkipRoute, Disc!HaveURLs, Disc!ForwardRequestToURL, Disc!Fail, Disc!Done,
         Disc!vars, Disc!Go, Disc!Answer
    <3>2. status' = 200 => \/ UNCHANGED <<status, from>>
                           \/ proxy = "forward" /\ from' = Disc!AppInstance
      <4>1. CASE UNCHANGED Disc!reply
        BY <4>1
      <4>2. CASE Disc!ForwardRequestToURL
        BY <4>2 DEF Disc!ForwardRequestToURL, Disc!Answer
      <4>3. CASE Disc!LookUp \/ Disc!ParseInstance \/ Disc!LookUpAgain \/ Disc!HaveURLs
        <5>1. UNCHANGED <<status, from>> \/ status' \in {400, 404, 500}
          BY <4>3, Zenon DEF Disc!LookUp, Disc!ParseInstance, Disc!LookUpAgain,
             Disc!HaveURLs, Disc!Go, Disc!Answer
        <5> QED
          BY <5>1
      <4>4. CASE Disc!Fail
        <5>1. status' = IF proxy = "app" THEN 404 ELSE 500
          BY <4>4, Zenon DEF Disc!Fail, Disc!Answer
        <5>2. status' # 200
          BY <5>1
        <5> QED
          BY <5>2
      <4>5. \/ Disc!LookUp \/ Disc!ParseInstance \/ Disc!LookUpAgain \/ Disc!HaveURLs
            \/ Disc!ForwardRequestToURL \/ Disc!Fail \/ UNCHANGED Disc!reply
        BY <1>2 DEF Disc!Next, PlatformChanges, Changes, Disc!MetricsDiscovery, Disc!GetAppRoutes,
           Disc!getRouteDomain, Disc!SkipRoute, Disc!Done, Disc!vars, Disc!Go
      <4> QED
        BY <4>1, <4>2, <4>3, <4>4, <4>5
    <3>3. Disc!AppInstance' = Disc!AppInstance
      BY <2>1, <2>3 DEF Disc!AppInstance
    <3> QED
      BY <2>1, <2>3, <3>1, <3>2, <3>3 DEF FoundInv
  <2>4. app' = app \/ Disc!LookUp
    BY <1>2 DEF Disc!Next, PlatformChanges, Changes, Disc!MetricsDiscovery,
       Disc!ParseInstance, Disc!LookUpAgain, Disc!GetAppRoutes, Disc!getRouteDomain,
       Disc!SkipRoute, Disc!HaveURLs, Disc!ForwardRequestToURL, Disc!Fail, Disc!Done, Disc!vars
  <2> QED
    BY <2>2, <2>3, <2>4
<1> QED
  BY <1>1, <1>2

(* The steps that leave the routes found and to be asked for alone.        *)
RoutesRest ==
  /\ UNCHANGED <<urls, left>>
  /\ proxy' \in {"app", "instance", "app_again"} => proxy \in {"app", "instance", "app_again"}

LEMMA RoutesMove ==
  ASSUME [Disc!Next]_(Disc!vars)
  PROVE  \/ RoutesRest
         \/ Disc!LookUpAgain /\ UNCHANGED urls /\ proxy = "app_again"
              /\ proxy' \in {"routes", "done"}
         \/ \E r \in left : /\ proxy = "domains" /\ proxy' = "domains"
                            /\ left' = left \ {r} /\ urls' \in {urls, Append(urls, r.host)}
<1> USE DEF Disc!platform, Disc!request, Disc!work, Disc!reply
<1>1. CASE PlatformChanges \/ Disc!MetricsDiscovery \/ Disc!Done \/ UNCHANGED Disc!vars
  BY <1>1 DEF PlatformChanges, Changes, Disc!Delete, Disc!Create, Disc!Scale, Disc!Run, Disc!Change,
     Disc!MetricsDiscovery, Disc!Done, Disc!vars, RoutesRest
<1>2. CASE Disc!LookUp \/ Disc!ParseInstance \/ Disc!GetAppRoutes
  BY <1>2, Zenon DEF Disc!LookUp, Disc!ParseInstance, Disc!GetAppRoutes, Disc!Go, Disc!Answer,
     RoutesRest
<1>3. CASE Disc!HaveURLs \/ Disc!ForwardRequestToURL \/ Disc!Fail
  BY <1>3, Zenon DEF Disc!HaveURLs, Disc!ForwardRequestToURL, Disc!Fail, Disc!Go, Disc!Answer,
     RoutesRest
<1>4. CASE Disc!LookUpAgain
  <2>1. proxy = "app_again" /\ (proxy' = "routes" \/ proxy' = "done") /\ UNCHANGED urls
    BY <1>4, Zenon DEF Disc!LookUpAgain, Disc!Go, Disc!Answer
  <2> QED
    BY <1>4, <2>1
<1>5. ASSUME NEW r \in Routes, Disc!getRouteDomain(r) \/ Disc!SkipRoute(r)
      PROVE  /\ r \in left /\ proxy = "domains" /\ proxy' = "domains"
             /\ left' = left \ {r} /\ (urls' = urls \/ urls' = Append(urls, r.host))
  BY <1>5 DEF Disc!getRouteDomain, Disc!URL, Disc!SkipRoute
<1> QED
  BY <1>1, <1>2, <1>3, <1>4, <1>5 DEF Disc!Next, PlatformChanges, Changes

LEMMA RoutesStep ==
  ASSUME Disc!FiniteAssumption, Disc!RoutesAssumption, Disc!BoundsAssumption, Disc!TypeOK,
         RoutesInv, [Disc!Next]_(Disc!vars)
  PROVE  RoutesInv' /\ left' \subseteq Routes /\ urls' \in Seq(Hosts)
<1>1. /\ left \subseteq Routes /\ urls \in Seq(Hosts) /\ Len(urls) \in Nat
      /\ Len(urls) + Cardinality(left) =< Cardinality(Routes)
  <2>1. left \subseteq Routes /\ urls \in Seq(Hosts)
    BY Zenon DEF Disc!TypeOK
  <2> QED
    BY <2>1 DEF RoutesInv
<1>2. IsFiniteSet(Routes) /\ Cardinality(Routes) \in Nat
  BY AppFacts
<1>3. \A S \in SUBSET Routes : /\ IsFiniteSet(S) /\ Cardinality(S) \in Nat
                               /\ Cardinality(S) =< Cardinality(Routes)
  BY <1>2, FS_Subset, FS_CardinalityType
<1>4. CASE RoutesRest
  BY <1>1, <1>4 DEF RoutesInv, RoutesRest
<1>5. CASE Disc!LookUpAgain /\ UNCHANGED urls /\ proxy = "app_again"
             /\ proxy' \in {"routes", "done"}
  <2>1. urls' = <<>> /\ left = {}
    BY <1>5 DEF RoutesInv
  <2>2. Len(urls') = 0 /\ proxy' \notin {"app", "instance", "app_again"}
    BY <1>5, <2>1
  <2>3. left' \subseteq Routes
    <3> DEFINE again == Disc!GetSpaceAppByName(name)
    <3>1. again = Disc!NoApp \/ again \in Disc!App
      BY DiscFacts DEF Disc!GetSpaceAppByName, Disc!appAccessAllowed
    <3>2. CASE again = Disc!NoApp
      BY <1>5, <3>2, <2>1 DEF Disc!LookUpAgain
    <3>3. CASE again # Disc!NoApp
      <4>1. left' = routes[again.Guid]
        BY <1>5, <3>3 DEF Disc!LookUpAgain
      <4>2. again.Guid \in Disc!Guids
        BY <3>1, <3>3, AppFacts
      <4>3. routes \in [Disc!Guids -> SUBSET Routes]
        BY DEF Disc!TypeOK
      <4> QED
        BY <4>1, <4>2, <4>3
    <3> QED
      BY <3>2, <3>3
  <2>4. Len(urls') + Cardinality(left') =< Cardinality(Routes)
    <3>1. Cardinality(left') \in Nat /\ Cardinality(left') =< Cardinality(Routes)
      BY <1>3, <2>3
    <3> QED
      BY <1>2, <2>2, <3>1
  <2> QED
    BY <1>1, <1>5, <2>2, <2>3, <2>4 DEF RoutesInv
<1>6. ASSUME NEW r \in left, proxy' = "domains", left' = left \ {r},
             urls' \in {urls, Append(urls, r.host)}
      PROVE  RoutesInv' /\ left' \subseteq Routes /\ urls' \in Seq(Hosts)
  <2>1. Cardinality(left') = Cardinality(left) - 1 /\ Cardinality(left) \in Nat
    BY <1>1, <1>3, <1>6, FS_RemoveElement
  <2>2. urls' \in Seq(Hosts) /\ Len(urls') =< Len(urls) + 1 /\ Len(urls') \in Nat
    <3>1. r.host \in Hosts
      BY <1>1 DEF Disc!RoutesAssumption
    <3> QED
      BY <1>1, <1>6, <3>1
  <2>3. Len(urls') + Cardinality(left') =< Cardinality(Routes)
    BY <1>1, <1>2, <2>1, <2>2
  <2> QED
    BY <1>1, <1>6, <2>2, <2>3 DEF RoutesInv
<1> QED
  BY <1>4, <1>5, <1>6, RoutesMove

LEMMA DiscTypeStep ==
  ASSUME Disc!FiniteAssumption, Disc!RoutesAssumption, Disc!BoundsAssumption, Disc!TypeOK,
         FoundInv', RoutesInv, [Disc!Next]_(Disc!vars)
  PROVE  Disc!TypeOK'
<1> USE DEF Disc!platform, Disc!request, Disc!work, Disc!reply
<1>1. /\ apps' \in [Names -> Disc!App \cup {Disc!NoApp}] /\ appChanges' \in 0 .. MaxChanges
      /\ routes' \in [Disc!Guids -> SUBSET Routes]
      /\ name' \in Names /\ instance' \in Disc!InstanceIDs
  <2>1. /\ apps \in [Names -> Disc!App \cup {Disc!NoApp}] /\ appChanges \in 0 .. MaxChanges
        /\ routes \in [Disc!Guids -> SUBSET Routes]
        /\ name \in Names /\ instance \in Disc!InstanceIDs
    BY Zenon DEF Disc!TypeOK
  <2>2. CASE PlatformChanges
    <3>1. PICK n \in Names : Changes(n)
      BY <2>2 DEF PlatformChanges
    <3>2. /\ apps' \in [Names -> Disc!App \cup {Disc!NoApp}] /\ appChanges' \in 0 .. MaxChanges
          /\ UNCHANGED <<routes, name, instance>>
      BY <3>1, PlatformStep
    <3> QED
      BY <2>1, <3>2
  <2>3. CASE ~PlatformChanges
    BY <2>1, <2>3, HandlerStep
  <2> QED
    BY <2>2, <2>3
<1>2. left' \subseteq Routes /\ urls' \in Seq(Hosts) /\ Len(urls') =< Disc!Cardinality(Routes)
  <2>1. RoutesInv' /\ left' \subseteq Routes /\ urls' \in Seq(Hosts)
    BY RoutesStep
  <2>2. Cardinality(left') \in Nat /\ Len(urls') \in Nat
    BY <2>1, AppFacts, FS_Subset, FS_CardinalityType
  <2>3. Len(urls') + Cardinality(left') =< Cardinality(Routes)
    BY <2>1 DEF RoutesInv
  <2>4. Len(urls') =< Cardinality(Routes)
    BY <2>2, <2>3, AppFacts
  <2> QED
    BY <2>1, <2>4, AppFacts
<1>3. targets' \subseteq Names \X Disc!InstanceIDs /\ calm' \in BOOLEAN
  <2>1. CASE Disc!MetricsDiscovery
    <3>1. \A i \in Disc!InstancesOf(name) : i \in Disc!InstanceIDs
      <4>1. \A n \in 0 .. MaxInstances : 0 .. n - 1 \subseteq Disc!InstanceIDs
        BY AppFacts DEF Disc!InstanceIDs, Disc!NotANumber
      <4>2. Disc!GetSpaceAppByName(name).Instances \in 0 .. MaxInstances
        BY DiscFacts, AppFacts DEF Disc!GetSpaceAppByName, Disc!appAccessAllowed
      <4> QED
        BY <4>1, <4>2 DEF Disc!InstancesOf
    <3>2. name \in Names
      BY DEF Disc!TypeOK
    <3> QED
      BY <2>1, <3>1, <3>2 DEF Disc!MetricsDiscovery
  <2>2. CASE UNCHANGED targets /\ (calm' = calm \/ calm' = FALSE)
    BY <2>2, Zenon DEF Disc!TypeOK
  <2>3. \/ Disc!MetricsDiscovery
        \/ UNCHANGED targets /\ (calm' = calm \/ calm' = FALSE)
    BY Zenon DEF Disc!Next, Disc!Delete, Disc!Create, Disc!Scale, Disc!Run, Disc!Change, Disc!LookUp,
       Disc!ParseInstance, Disc!LookUpAgain, Disc!GetAppRoutes, Disc!getRouteDomain,
       Disc!SkipRoute, Disc!HaveURLs, Disc!ForwardRequestToURL, Disc!Fail, Disc!Done, Disc!vars
  <2> QED
    BY <2>1, <2>2, <2>3
<1> DEFINE rest == proxy' = proxy /\ status' = status /\ from' = from
           went(to) == /\ proxy' = to /\ proxy # "done"
                       /\ status' = status /\ from' = from
           answered(code) == /\ proxy' = "done" /\ status' = code
                             /\ from' = Disc!Nobody
           served == /\ proxy' = "done" /\ status' = 200 /\ from' = Disc!AppInstance
                     /\ app' = app
<1>4. \/ rest
      \/ \E to \in {"instance", "app_again", "routes", "domains", "forward"} : went(to)
      \/ \E code \in {400, 404, 500} : answered(code)
      \/ served
  <2>1. CASE \/ PlatformChanges \/ Disc!MetricsDiscovery \/ Disc!Done \/ UNCHANGED Disc!vars
             \/ \E r \in Routes : Disc!getRouteDomain(r) \/ Disc!SkipRoute(r)
    BY <2>1 DEF PlatformChanges, Changes, Disc!Delete, Disc!Create, Disc!Scale, Disc!Run, Disc!Change,
       Disc!MetricsDiscovery, Disc!Done, Disc!vars, Disc!getRouteDomain, Disc!SkipRoute
  <2>2. CASE Disc!LookUp
    <3>1. answered(404) \/ went("instance")
      BY <2>2, Zenon DEF Disc!LookUp, Disc!Answer, Disc!Go
    <3> QED
      BY <3>1, Zenon
  <2>3. CASE Disc!ParseInstance
    <3>1. answered(400) \/ went("app_again")
      BY <2>3, Zenon DEF Disc!ParseInstance, Disc!Answer, Disc!Go
    <3> QED
      BY <3>1, Zenon
  <2>4. CASE Disc!LookUpAgain
    <3>1. answered(500) \/ went("routes")
      BY <2>4, Zenon DEF Disc!LookUpAgain, Disc!Answer, Disc!Go
    <3> QED
      BY <3>1, Zenon
  <2>5. CASE Disc!GetAppRoutes
    <3>1. went("domains")
      BY <2>5, Zenon DEF Disc!GetAppRoutes, Disc!Go
    <3> QED
      BY <3>1, Zenon
  <2>6. CASE Disc!HaveURLs
    <3>1. answered(404) \/ went("forward")
      BY <2>6, Zenon DEF Disc!HaveURLs, Disc!Answer, Disc!Go
    <3> QED
      BY <3>1, Zenon
  <2>7. CASE Disc!ForwardRequestToURL
    <3>1. (\E code \in {400, 404, 500} : answered(code)) \/ served
      BY <2>7, Zenon DEF Disc!ForwardRequestToURL, Disc!Answer
    <3> QED
      BY <3>1, Zenon
  <2>8. CASE Disc!Fail
    <3>1. answered(404) \/ answered(500)
      BY <2>8 DEF Disc!Fail, Disc!Answer
    <3> QED
      BY <3>1, Zenon
  <2> HIDE DEF rest, went, answered, served
  <2> QED
    BY <2>1, <2>2, <2>3, <2>4, <2>5, <2>6, <2>7, <2>8 DEF Disc!Next, PlatformChanges, Changes
<1>5. /\ proxy' \in {"app", "instance", "app_again", "routes", "domains", "forward", "done"}
      /\ status' \in {0, 200, 400, 404, 500}
      /\ from' \in (Disc!Guids \cup {0}) \X Disc!InstanceIDs
      /\ (status' = 0 <=> proxy' # "done")
  <2>1. /\ proxy \in {"app", "instance", "app_again", "routes", "domains", "forward", "done"}
        /\ status \in {0, 200, 400, 404, 500}
        /\ from \in (Disc!Guids \cup {0}) \X Disc!InstanceIDs
        /\ (status = 0 <=> proxy # "done")
    BY Zenon DEF Disc!TypeOK
  <2> DEFINE typed ==
        /\ proxy' \in {"app", "instance", "app_again", "routes", "domains", "forward", "done"}
        /\ status' \in {0, 200, 400, 404, 500}
        /\ from' \in (Disc!Guids \cup {0}) \X Disc!InstanceIDs
        /\ (status' = 0 <=> proxy' # "done")
  <2>2. ASSUME rest PROVE typed
    BY <2>1, <2>2
  <2>3. ASSUME NEW to \in {"instance", "app_again", "routes", "domains", "forward"}, went(to)
        PROVE  /\ proxy' \in {"app", "instance", "app_again", "routes", "domains", "forward"}
               /\ status' = 0 /\ UNCHANGED from
    BY <2>1, <2>3, Zenon
  <2>4. ASSUME NEW code \in {400, 404, 500}, answered(code)
        PROVE  /\ proxy' = "done" /\ status' \in {400, 404, 500}
               /\ from' \in (Disc!Guids \cup {0}) \X Disc!InstanceIDs
    <3>1. Disc!Nobody \in (Disc!Guids \cup {0}) \X Disc!InstanceIDs
      BY AppFacts DEF Disc!Nobody, Disc!InstanceIDs, Disc!NotANumber
    <3> QED
      BY <2>4, <3>1
  <2>5. ASSUME served
        PROVE  /\ proxy' = "done" /\ status' = 200
               /\ from' \in (Disc!Guids \cup {0}) \X Disc!InstanceIDs
    <3>1. app # Disc!NoApp
      BY <2>5 DEF FoundInv
    <3>2. app.Guid \in Disc!Guids
      BY <3>1, DiscFacts, AppFacts
    <3>3. instance \in Disc!InstanceIDs
      BY DEF Disc!TypeOK
    <3> QED
      BY <2>5, <3>2, <3>3 DEF Disc!AppInstance
  <2> HIDE DEF rest, went, answered, served
  <2>7. ASSUME \E to \in {"instance", "app_again", "routes", "domains", "forward"} : went(to)
        PROVE  typed
    <3>1. proxy' # "done" /\ status' = 0
      BY <2>3, <2>7
    <3> QED
      BY <2>1, <2>3, <2>7, <3>1
  <2>8. ASSUME (\E code \in {400, 404, 500} : answered(code)) \/ served
        PROVE  typed
    <3>1. proxy' = "done" /\ status' \in {200, 400, 404, 500}
      BY <2>4, <2>5, <2>8
    <3>2. from' \in (Disc!Guids \cup {0}) \X Disc!InstanceIDs
      BY <2>4, <2>5, <2>8
    <3> QED
      BY <3>1, <3>2
  <2>6. typed
    <3> HIDE DEF typed
    <3> QED
      BY <1>4, <2>2, <2>7, <2>8
  <2> QED
    BY <2>6
<1>6. app' \in Disc!App \cup {Disc!NoApp}
  <2>1. app \in Disc!App \cup {Disc!NoApp}
    BY DEF Disc!TypeOK
  <2>2. CASE Disc!LookUp
    <3>1. app' = Disc!GetSpaceAppByName(name)
      BY <2>2 DEF Disc!LookUp
    <3> QED
      BY <3>1, DiscFacts DEF Disc!GetSpaceAppByName, Disc!appAccessAllowed
  <2>3. Disc!LookUp \/ UNCHANGED app
    BY DEF Disc!Next, Disc!Delete, Disc!Create, Disc!Scale, Disc!Run, Disc!Change, Disc!MetricsDiscovery,
       Disc!ParseInstance, Disc!LookUpAgain, Disc!GetAppRoutes, Disc!getRouteDomain,
       Disc!SkipRoute, Disc!HaveURLs, Disc!ForwardRequestToURL, Disc!Fail, Disc!Done, Disc!vars
  <2> QED
    BY <2>1, <2>2, <2>3
<1>7. proxy' = "forward" => app' # Disc!NoApp /\ left' = {} /\ urls' # <<>>
  <2>1. proxy' = "forward" => app' # Disc!NoApp
    BY DEF FoundInv
  <2>2. CASE Disc!HaveURLs
    BY <2>1, <2>2 DEF Disc!HaveURLs, Disc!SomeURL, Disc!Answer
  <2>3. CASE proxy = "forward" /\ UNCHANGED <<urls, left>>
    BY <2>1, <2>3 DEF Disc!TypeOK
  <2>4. \/ proxy' # "forward" \/ Disc!HaveURLs
        \/ proxy = "forward" /\ UNCHANGED <<urls, left>>
    <3>1. CASE UNCHANGED <<proxy, urls, left>>
      BY <3>1
    <3>2. CASE Disc!LookUp \/ Disc!ParseInstance \/ Disc!LookUpAgain \/ Disc!GetAppRoutes
      <4>1. proxy' \in {"instance", "app_again", "routes", "domains", "done"}
        BY <3>2, Zenon DEF Disc!LookUp, Disc!ParseInstance, Disc!LookUpAgain,
           Disc!GetAppRoutes, Disc!Go, Disc!Answer
      <4> QED
        BY <4>1
    <3>3. CASE Disc!ForwardRequestToURL \/ Disc!Fail
      <4>1. proxy' = "done"
        BY <3>3, Zenon DEF Disc!ForwardRequestToURL, Disc!Fail, Disc!Answer
      <4> QED
        BY <4>1
    <3>4. CASE \E r \in Routes : Disc!getRouteDomain(r) \/ Disc!SkipRoute(r)
      BY <3>4 DEF Disc!getRouteDomain, Disc!SkipRoute
    <3> QED
      BY <3>1, <3>2, <3>3, <3>4 DEF Disc!Next, Disc!Delete, Disc!Create, Disc!Scale, Disc!Run,
         Disc!Change, Disc!MetricsDiscovery, Disc!Done, Disc!vars
  <2> QED
    BY <2>2, <2>3, <2>4
<1> QED
  BY <1>1, <1>2, <1>3, <1>5, <1>6, <1>7, Zenon DEF Disc!TypeOK

(* A listed target is one of the instances of the application that is      *)
(* listed, and the handler finds the same as long as nothing changes.      *)
LEMMA ListedStep ==
  ASSUME Disc!FiniteAssumption, Disc!RoutesAssumption, Disc!BoundsAssumption, Disc!TypeOK,
         FoundInv, RoutesInv, ListedInv, [Disc!Next]_(Disc!vars)
  PROVE  ListedInv'
<1> USE DEF Disc!platform, Disc!request, Disc!work, Disc!reply
<1> DEFINE routesOf == routes[apps[name].Guid]
           found == {urls[i] : i \in 1 .. Len(urls)}
           hosts == HostsOf(routesOf)
<1>1. CASE ~calm'
  BY <1>1, Zenon DEF ListedInv
<1>2. CASE calm' /\ Disc!MetricsDiscovery
  <2>1. /\ targets' = {name} \X Disc!InstancesOf(name) /\ proxy' = "app"
        /\ UNCHANGED <<apps, name, instance>>
    BY <1>2 DEF Disc!MetricsDiscovery
  <2>2. SUFFICES ASSUME instance \in Disc!InstancesOf(name)
                 PROVE  ListedInv'
    BY <2>1 DEF ListedInv
  <2>3. Disc!GetSpaceAppByName(name) # Disc!NoApp
    <3>1. 0 .. 0 - 1 = {}
      OBVIOUS
    <3> QED
      BY <2>2, <3>1, AppFacts DEF Disc!InstancesOf
  <2>4. name \in AppNames /\ apps[name] # Disc!NoApp
    BY <2>3 DEF Disc!GetSpaceAppByName, Disc!appAccessAllowed
  <2>5. instance \in 0 .. apps[name].Instances - 1
    BY <2>2, <2>4 DEF Disc!InstancesOf, Disc!GetSpaceAppByName, Disc!appAccessAllowed
  <2> QED
    BY <2>1, <2>4, <2>5 DEF ListedInv
<1>3. CASE calm' /\ ~Disc!MetricsDiscovery
  <2>1. ~PlatformChanges
    BY <1>3 DEF PlatformChanges, Changes, Disc!Delete, Disc!Create, Disc!Scale, Disc!Run, Disc!Change
  <2>2. UNCHANGED <<apps, routes, name, instance, targets>> /\ calm
    <3>1. UNCHANGED targets /\ calm' = calm
      BY <1>3, <2>1 DEF PlatformChanges, Changes, Disc!Next, Disc!LookUp,
         Disc!ParseInstance, Disc!LookUpAgain, Disc!GetAppRoutes, Disc!getRouteDomain,
         Disc!SkipRoute, Disc!HaveURLs, Disc!ForwardRequestToURL, Disc!Fail, Disc!Done, Disc!vars
    <3> QED
      BY <1>3, <2>1, <3>1, HandlerStep
  <2>15. Excused' <=> Excused
    BY <2>2, Zenon DEF Excused, Disc!Behind
  <2> SUFFICES ASSUME <<name, instance>> \in targets
               PROVE  /\ proxy' # "app" => app' = apps[name]
                      /\ proxy' \in {"routes", "domains", "forward"} =>
                           HostsOf(left)' \cup found' = hosts
                      /\ proxy' = "done" => status' = 200 \/ Excused
    <3>1. <<name, instance>> \in targets =>
            /\ name \in AppNames /\ apps[name] # Disc!NoApp
            /\ instance \in 0 .. apps[name].Instances - 1
      BY <2>2 DEF ListedInv
    <3> QED
      BY <2>2, <2>15, <3>1 DEF ListedInv, HostsOf
  <2>3. /\ name \in AppNames /\ apps[name] # Disc!NoApp
        /\ instance \in 0 .. apps[name].Instances - 1
        /\ proxy # "app" => app = apps[name]
        /\ proxy \in {"routes", "domains", "forward"} => HostsOf(left) \cup found = hosts
        /\ proxy = "done" => status = 200 \/ Excused
    BY <2>2 DEF ListedInv
  <2>4. Disc!GetSpaceAppByName(name) = apps[name]
    BY <2>3 DEF Disc!GetSpaceAppByName, Disc!appAccessAllowed
  <2> HIDE DEF routesOf, hosts
  <2>5. CASE UNCHANGED <<proxy, app, urls, left, status>>
    BY <2>3, <2>5 DEF HostsOf
  <2>6. CASE Disc!LookUp
    BY <2>3, <2>4, <2>6 DEF Disc!LookUp, Disc!Go
  <2>7. CASE Disc!ParseInstance
    <3>1. instance # Disc!NotANumber
      BY <2>3, AppFacts, DiscFacts DEF Disc!NotANumber
    <3> QED
      BY <2>3, <2>7, <3>1 DEF Disc!ParseInstance, Disc!Go
  <2>8. CASE Disc!LookUpAgain
    <3>1. proxy' = "routes" /\ left' = routesOf /\ UNCHANGED <<app, urls>> /\ proxy = "app_again"
      BY <2>3, <2>4, <2>8 DEF Disc!LookUpAgain, Disc!Go, routesOf
    <3>2. found' = {}
      <4>1. urls' = <<>>
        BY <3>1 DEF RoutesInv
      <4> QED
        BY <4>1
    <3> QED
      BY <3>1, <3>2, <2>3 DEF HostsOf, hosts
  <2>9. CASE Disc!GetAppRoutes
    BY <2>3, <2>9 DEF Disc!GetAppRoutes, Disc!Go, HostsOf
  <2>10. ASSUME NEW r \in Routes, Disc!getRouteDomain(r)
         PROVE  /\ proxy = "domains" /\ proxy' = "domains" /\ app' = app
                /\ HostsOf(left)' \cup found' = HostsOf(left) \cup found
    <3>1. /\ r \in left /\ urls' = Append(urls, r.host) /\ left' = left \ {r}
          /\ proxy = "domains" /\ proxy' = "domains" /\ app' = app
      BY <2>10 DEF Disc!getRouteDomain, Disc!URL
    <3>2. urls \in Seq(Hosts) /\ r.host \in Hosts
      <4>1. urls \in Seq(Hosts)
        BY Zenon DEF Disc!TypeOK
      <4> QED
        BY <4>1 DEF Disc!RoutesAssumption
    <3>3. /\ Len(urls) \in Nat /\ Len(urls') = Len(urls) + 1
          /\ \A i \in 1 .. Len(urls) : urls'[i] = urls[i]
          /\ urls'[Len(urls) + 1] = r.host
      BY <3>1, <3>2
    <3>4. found' = found \cup {r.host}
      BY <3>3
    <3>5. HostsOf(left) = HostsOf(left)' \cup {r.host}
      BY <3>1 DEF HostsOf
    <3> HIDE DEF found
    <3> QED
      BY <3>1, <3>4, <3>5
  <2>11. CASE Disc!HaveURLs
    <3>1. proxy = "domains" /\ left = {} /\ UNCHANGED <<app, urls, left>>
      BY <2>11 DEF Disc!HaveURLs
    <3>2. CASE urls = <<>>
      <4>1. found = {}
        BY <3>2
      <4>2. proxy' = "done"
        BY <2>11, <3>2 DEF Disc!HaveURLs, Disc!SomeURL, Disc!Answer
      <4>3. routesOf = {}
        BY <2>3, <3>1, <4>1 DEF HostsOf, hosts
      <4>4. Excused
        BY <4>3, Zenon DEF Excused, routesOf
      <4> QED
        BY <2>3, <3>1, <4>2, <4>4
    <3>3. CASE urls # <<>>
      <4>1. proxy' = "forward"
        BY <2>11, <3>3 DEF Disc!HaveURLs, Disc!SomeURL, Disc!Go
      <4> QED
        BY <2>3, <3>1, <4>1 DEF HostsOf
    <3> QED
      BY <3>2, <3>3
  <2>12. CASE Disc!ForwardRequestToURL
    <3>1. proxy = "forward" /\ left = {} /\ urls # <<>> /\ urls \in Seq(Hosts) /\ app = apps[name]
      BY <2>3, <2>12 DEF Disc!ForwardRequestToURL, Disc!TypeOK
    <3>2. 1 \in 1 .. Len(urls)
      BY <3>1
    <3>3. HostsOf(left) = {} /\ urls[1] \in found
      BY <3>1, <3>2 DEF HostsOf
    <3>4. PICK r \in routesOf : r.host = urls[1]
      BY <2>3, <3>1, <3>3 DEF HostsOf, hosts
    <3>5. r \in Routes
      <4>1. routes \in [Disc!Guids -> SUBSET Routes] /\ apps[name].Guid \in Disc!Guids
        BY <2>3, DiscFacts, AppFacts DEF Disc!TypeOK
      <4> QED
        BY <3>4, <4>1 DEF routesOf
    <3>6. ASSUME ~Excused PROVE Disc!Routed(urls[1], app.Guid, instance)
      <4>1. /\ r.path = "none" /\ Disc!Behind(r.host, "metrics") = {}
            /\ instance \in apps[name].Running
        BY <2>3, <3>4, <3>6 DEF Excused, routesOf
      <4>2. r = [host |-> r.host, path |-> "none"]
        BY <3>5, <4>1 DEF Disc!RoutesAssumption
      <4>3. name \in Disc!Behind(r.host, "none")
        BY <2>3, <3>4, <4>1, <4>2, DiscFacts DEF Disc!Behind, routesOf
      <4> QED
        BY <3>1, <3>4, <4>1, <4>3 DEF Disc!Routed, Disc!LedTo
    <3>7. proxy' = "done" /\ (~Excused => status' = 200) /\ app' = app
      BY <2>12, <3>6 DEF Disc!ForwardRequestToURL, Disc!AppInstance, Disc!Answer
    <3> QED
      BY <3>1, <3>7
  <2>13. \/ UNCHANGED <<proxy, app, urls, left, status>>
         \/ Disc!LookUp \/ Disc!ParseInstance \/ Disc!LookUpAgain \/ Disc!GetAppRoutes
         \/ \E r \in Routes : Disc!getRouteDomain(r)
         \/ Disc!HaveURLs \/ Disc!ForwardRequestToURL
    <3>1. ~Disc!Fail /\ \A r \in Routes : ~Disc!SkipRoute(r)
      BY <1>3 DEF Disc!Fail, Disc!SkipRoute
    <3> QED
      BY <1>3, <2>1, <3>1 DEF Disc!Next, PlatformChanges, Changes, Disc!Done, Disc!vars
  <2>14. CASE \E r \in Routes : Disc!getRouteDomain(r)
    <3> HIDE DEF found
    <3> QED
      BY <2>3, <2>10, <2>14
  <2> QED
    BY <2>5, <2>6, <2>7, <2>8, <2>9, <2>11, <2>12, <2>13, <2>14
<1> QED
  BY <1>1, <1>2, <1>3

LEMMA DiscAlways ==
  ASSUME Disc!FiniteAssumption, Disc!RoutesAssumption, Disc!BoundsAssumption
  PROVE  Disc!Spec => []DiscInv
<1>1. Disc!Init => DiscInv
  BY DiscInit
<1>2. DiscInv /\ [Disc!Next]_(Disc!vars) => DiscInv'
  <2> SUFFICES ASSUME DiscInv, [Disc!Next]_(Disc!vars) PROVE DiscInv'
    OBVIOUS
  <2> USE DEF DiscInv
  <2>1. GuidsInv' /\ FoundInv' /\ RoutesInv' /\ ListedInv'
    BY GuidsStep, FoundStep, RoutesStep, ListedStep
  <2> QED
    BY <2>1, DiscTypeStep
<1> QED
  BY <1>1, <1>2, PTL DEF Disc!Spec

(* Metrics that are passed back come from the instance asked for of an     *)
(* application that has the name asked for, or had it: the two look-ups of *)
(* the handler and a platform that changes in between cannot make them     *)
(* another's.                                                              *)
THEOREM MetricsAreOwn == ASSUME PartsAssumption PROVE PartsSpec => []OwnMetrics
<1>1. Disc!FiniteAssumption /\ Disc!RoutesAssumption /\ Disc!BoundsAssumption
  BY DEF PartsAssumption
<1>2. Disc!Spec => []DiscInv
  BY <1>1, DiscAlways
<1>3. DiscInv => OwnMetrics
  BY DEF DiscInv, FoundInv, OwnMetrics, Disc!OwnMetrics, Disc!AppInstance
<1> QED
  BY <1>2, <1>3, PartsAreIndependent, PTL

(* While nothing changes or fails, a scrape of a target that discovery     *)
(* listed is answered by it, unless that instance is not running or the    *)
(* URL made of host and domain does not stand for the application's routes *)
(* (none, one with a path or port, or one beside a route to /metrics).     *)
THEOREM ListedTargetsAnswer == ASSUME PartsAssumption PROVE PartsSpec => []ListedAreServed
<1>1. Disc!FiniteAssumption /\ Disc!RoutesAssumption /\ Disc!BoundsAssumption
  BY DEF PartsAssumption
<1>2. Disc!Spec => []DiscInv
  BY <1>1, DiscAlways
<1>3. DiscInv => ListedAreServed
  BY DEF DiscInv, ListedInv, Excused, ListedAreServed, Disc!ListedAreServed
<1> QED
  BY <1>2, <1>3, PartsAreIndependent, PTL

------------------------------------------------------------------------------
(* Lifecycle: what LifecycleProofs proves of it alone.                     *)
LP == INSTANCE LifecycleProofs

(* The Lifecycle that LifecycleProofs extends is that of Parts.            *)
LEMMA SameLifecycle ==
  /\ Life!Init <=> LP!Init
  /\ Life!Next <=> LP!Next
  /\ Life!vars = LP!vars
  /\ Life!RequestsAssumption <=> LP!RequestsAssumption
<1>1. Life!Init <=> LP!Init
  BY DEF
     Life!Commands, LP!Commands, Life!Servers, LP!Servers, Life!Workers,
     LP!Workers, Life!Parts, LP!Parts, Life!Detached, LP!Detached,
     Life!Init, LP!Init
<1>2. Life!vars = LP!vars
  BY DEF
     Life!process, LP!process, Life!parts, LP!parts, Life!serving,
     LP!serving, Life!vars, LP!vars
<1>3. Life!Next <=> LP!Next
  BY Zenon DEF
     Life!Commands, LP!Commands, Life!Servers, LP!Servers, Life!Workers,
     LP!Workers, Life!Parts, LP!Parts, Life!Detached, LP!Detached,
     Life!Inits, LP!Inits, Life!Startup, LP!Startup, Life!process,
     LP!process, Life!parts, LP!parts, Life!serving, LP!serving, Life!vars,
     LP!vars, Life!Ending, LP!Ending, Life!Init, LP!Init, Life!Running,
     LP!Running, Life!Starting, LP!Starting, Life!Advance, LP!Advance,
     Life!Exit, LP!Exit, Life!AddPart, LP!AddPart, Life!start, LP!start,
     Life!AppInit, LP!AppInit, Life!StartHistoricDataCollector,
     LP!StartHistoricDataCollector, Life!CutRequests, LP!CutRequests,
     Life!StartFails, LP!StartFails, Life!Wait, LP!Wait, Life!Signal,
     LP!Signal, Life!Kill, LP!Kill, Life!Move, LP!Move, Life!RunWorker,
     LP!RunWorker, Life!Work, LP!Work, Life!Worked, LP!Worked,
     Life!StopWorker, LP!StopWorker, Life!Listen, LP!Listen,
     Life!ListenFails, LP!ListenFails, Life!Stopping, LP!Stopping,
     Life!Drained, LP!Drained, Life!Drain, LP!Drain, Life!DrainTimeout,
     LP!DrainTimeout, Life!Arrive, LP!Arrive, Life!Answer, LP!Answer,
     Life!Deferred, LP!Deferred, Life!Shutdown, LP!Shutdown, Life!Defer,
     LP!Defer, Life!Sleep, LP!Sleep, Life!Wake, LP!Wake, Life!StopMetrics,
     LP!StopMetrics, Life!MainStep, LP!MainStep, Life!PartStep, LP!PartStep,
     Life!Step, LP!Step, Life!Ended, LP!Ended, Life!Next, LP!Next
<1>4. Life!RequestsAssumption <=> LP!RequestsAssumption
  BY DEF Life!RequestsAssumption, LP!RequestsAssumption
<1> QED
  BY <1>1, <1>2, <1>3, <1>4

LEMMA SameProperties == (Life!InOrder <=> LP!InOrder) /\ (Life!TypeOK <=> LP!TypeOK)
<1>1. Life!InOrder <=> LP!InOrder
  BY Zenon DEF
     Life!Commands, LP!Commands, Life!Servers, LP!Servers, Life!Workers,
     LP!Workers, Life!Parts, LP!Parts, Life!Detached, LP!Detached,
     Life!Inits, LP!Inits, Life!Startup, LP!Startup, Life!Ending, LP!Ending,
     Life!Initialised, LP!Initialised, Life!CleanExit, LP!CleanExit,
     Life!AcceptedAreAnswered, LP!AcceptedAreAnswered, Life!RunsInitialised,
     LP!RunsInitialised, Life!InOrder, LP!InOrder
<1>2. Life!TypeOK <=> LP!TypeOK
  <2>1. \A S : Life!Cardinality(S) = LP!Cardinality(S)
    <3>1. ASSUME NEW S PROVE Life!Cardinality(S) = LP!Cardinality(S)
      BY Zenon DEF Life!Cardinality, LP!Cardinality
    <3> QED
      BY <3>1
  <2> QED
    BY <2>1, Zenon DEF
     Life!Commands, LP!Commands, Life!Servers, LP!Servers, Life!Workers,
     LP!Workers, Life!Parts, LP!Parts, Life!Detached, LP!Detached,
     Life!Inits, LP!Inits, Life!Startup, LP!Startup, Life!Ending, LP!Ending,
     Life!TypeOK, LP!TypeOK
<1> QED
  BY <1>1, <1>2

LEMMA LifeSpec == Life!Spec => LP!Spec
<1>1. (Life!Init => LP!Init) /\ ([Life!Next]_(Life!vars) => [LP!Next]_(LP!vars))
  <2>1. UNCHANGED Life!vars => UNCHANGED LP!vars
    BY DEF
     Life!process, LP!process, Life!parts, LP!parts, Life!serving,
     LP!serving, Life!vars, LP!vars
  <2> QED
    BY <2>1, SameLifecycle
<1> QED
  BY <1>1, PTL DEF Life!Spec, LP!Spec

(* A process starts its workers and the collector of historic data after   *)
(* Init, its API answers what it has accepted, unless its drain runs out   *)
(* or it is killed, and it reports success only when every part that is    *)
(* waited for is done: beside the other components as alone.               *)
THEOREM ProcessesInOrder == ASSUME PartsAssumption PROVE PartsSpec => []InOrder
<1>1. LP!RequestsAssumption
  BY SameLifecycle DEF PartsAssumption
<1>2. LP!Spec => []LP!InOrder
  BY <1>1, LP!LifeInOrder
<1>3. LP!InOrder => InOrder
  BY SameProperties DEF InOrder
<1> QED
  BY <1>2, <1>3, LifeSpec, PartsAreIndependent, PTL

------------------------------------------------------------------------------
(* All types.                                                              *)
AuthInv == Auth!TypeOK /\ TokenInv /\ RolesInv /\ GrantInv

LEMMA AuthAlways == ASSUME Auth!BoundsAssumption PROVE Auth!Spec => []AuthInv
<1>1. Auth!Init => AuthInv
  BY AuthTypeInit, TokenInit, RolesInit, GrantInit DEF AuthInv
<1>2. AuthInv /\ [Auth!Next]_(Auth!vars) => AuthInv'
  <2> SUFFICES ASSUME AuthInv, [Auth!Next]_(Auth!vars) PROVE AuthInv'
    OBVIOUS
  <2> USE DEF AuthInv
  <2>1. TokenInv' /\ RolesInv' /\ GrantInv'
    BY TokenStep, RolesStep, GrantStep
  <2> QED
    BY <2>1, AuthTypeStep
<1> QED
  BY <1>1, <1>2, PTL DEF Auth!Spec

(* Every variable of a part keeps to its type.                             *)
THEOREM TypesCorrect == ASSUME PartsAssumption PROVE PartsSpec => []TypesOK
<1>1. /\ Auth!BoundsAssumption /\ Life!RequestsAssumption
      /\ Disc!FiniteAssumption /\ Disc!RoutesAssumption /\ Disc!BoundsAssumption
      /\ Reads!BoundsAssumption /\ Reads!ConfigsAssumption
  BY DEF PartsAssumption
<1>2. Auth!Spec => []AuthInv
  BY <1>1, AuthAlways
<1>3. LP!Spec => []LP!TypeOK
  BY <1>1, SameLifecycle, LP!TypeCorrect
<1>4. Disc!Spec => []DiscInv
  BY <1>1, DiscAlways
<1>5. Reads!Spec => []ReadsInv
  BY <1>1, ReadsAlways
<1>6. AuthInv /\ LP!TypeOK /\ DiscInv /\ ReadsInv => TypesOK
  BY SameProperties DEF AuthInv, DiscInv, ReadsInv, TypesOK
<1> QED
  BY <1>2, <1>3, <1>4, <1>5, <1>6, LifeSpec, PartsAreIndependent, PTL
==============================================================================
