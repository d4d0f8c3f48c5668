------------------------------ MODULE MCPricing ------------------------------
(* Instances of Pricing for TLC: an old and a new configuration file, and  *)
(* two that are wrong.                                                     *)
EXTENDS Deployment, TLC

CONSTANTS p1, p2,          \* model values: processes
          old, new, sparse, early \* model values: configuration files

OneProcess == {p1}
TwoProcesses == {p1, p2}
OldAndNew == {old, new}
OldNewEarly == {old, new, early}
OldAndSparse == {old, sparse}
ProcessSymmetry == Permutations(Processes)

Rate(code, from) == [code |-> code, from |-> from]
Part(vat, currency) == [vat |-> vat, currency |-> currency]
Plan(guid, from, ps) == [guid |-> guid, from |-> from, parts |-> ps]
Standard == Part("Standard", "GBP")
Dollar == Part("Standard", "USD")
Event(guid, span) == [guid |-> guid, span |-> span]

(* The VAT rate changes at 1, the dollar begins at 1 and changes at 2.     *)
VatRates ==
  (old :> {Rate("Standard", 0)})
  @@ (new :> {Rate("Standard", 0), Rate("Standard", 1)})
  @@ (sparse :> {Rate("Standard", 0)})
  @@ (early :> {Rate("Standard", 0)})
CurrencyRates ==
  (old :> {Rate("GBP", 0)})
  @@ (new :> {Rate("GBP", 0), Rate("USD", 1), Rate("USD", 2)})
  @@ (sparse :> {Rate("GBP", 0)})
  @@ (early :> {Rate("GBP", 0), Rate("USD", 1)})

(* The new file changes app's plan at 1 and knows db from 1 on; the sparse *)
(* one has an app plan without components and no db.  The early one prices *)
(* db in dollars before there is a rate for them.                          *)
PlanFiles ==
  (old :> {Plan("app", 0, {Standard}), Plan("db", 0, {Standard})})
  @@ (new :> {Plan("app", 0, {Standard}), Plan("app", 1, {Standard, Dollar}),
              Plan("db", 1, {Dollar})})
  @@ (sparse :> {Plan("app", 0, {})})
  @@ (early :> {Plan("app", 0, {Standard}), Plan("db", 0, {Dollar})})

Events == {Event("app", 0 .. 2), Event("db", 0 .. 1), Event("db", 0 .. 0)}
NewOnly == {new}
NoFile == {}
=============================================================================
