----------------------------- MODULE PricingReads -----------------------------
(***************************************************************************)
(* What the API says of the pricing configuration: GetVATRates,            *)
(* GetCurrencyRates and GetPricingPlans (eventstore/) behind /vat_rates,   *)
(* /currency_rates and /pricing_plans, while Init replaces the tables.     *)
(*                                                                         *)
(* The three tables are histories alike, of which one is chosen: a row     *)
(* has a code (or plan) and the day from which it is valid.  Plans have    *)
(* components besides.                                                     *)
(***************************************************************************)
EXTENDS Integers

CONSTANTS
  Codes,       \* codes of rates, GUIDs of plans
  Components,  \* names of components
  Days,        \* bound: number of days
  Configs      \* bound: what configuration files make of the table

BoundsAssumption == Days \in Nat

Malformed == -1   \* a string that is no date
Dates == {Malformed} \cup 0 .. Days

Row == [code : Codes, from : 0 .. Days]

(* Components go with a plan and its first day.                            *)
ConfigsAssumption ==
  \A config \in Configs :
    config.rows \subseteq Row /\ config.parts \subseteq config.rows \X Components

Tables == {"vat_rates", "currency_rates", "pricing_plans"}

VARIABLES
  table,   \* which of the three is looked at
  rows,    \* its rows
  parts,   \* pricing_plan_components: pairs of a row's key and a component
  filter,  \* the range of the last request
  answer   \* what it was answered, until the table is replaced, and whether
           \* all rows were read for it, which no reply shows

vars == <<table, rows, parts, filter, answer>>

None == [start |-> Malformed, stop |-> Malformed]

NoAnswer == [status |-> 0, list |-> {}, whole |-> TRUE]

Init ==
  /\ table \in Tables
  /\ rows = {}
  /\ parts = {}
  /\ filter = None
  /\ answer = NoAnswer

(* A starting process replaces the table in one transaction.               *)
Reconfigure(config) ==
  /\ rows' = config.rows
  /\ parts' = IF table = "pricing_plans" THEN config.parts ELSE {}
  /\ filter' = None
  /\ answer' = NoAnswer
  /\ UNCHANGED table

(* Mutant of Later: lead() over the whole table instead of the code.       *)
LaterOfAny(r, s) == r.from < s.from

Later(r, s) == s.code = r.code /\ r.from < s.from

(* tstzrange(valid_from, lead(valid_from, 1, 'infinity') over (partition   *)
(* by code order by valid_from)) && tstzrange(start, stop).                *)
Overlaps(r, start, stop) ==
  /\ start < stop /\ r.from < stop
  /\ \A s \in rows : Later(r, s) => start < s.from

PartOf(p, r) == p[1] = r

(* A left join: a plan without components has one with nothing in it.      *)
Null == "null"

ComponentsOf(r) ==
  LET own == {p[2] : p \in {q \in parts : PartOf(q, r)}}
  IN IF own = {} /\ table = "pricing_plans" THEN {Null} ELSE own

(* TimeRangeFilter.Validate wants two dates.  A range that ends before it  *)
(* begins is an error of the database; both are "internal server error".   *)
Refused(f) == Malformed \in {f.start, f.stop} \/ f.stop < f.start

Chosen(f) == {r \in rows : Overlaps(r, f.start, f.stop)}

(* What the loop over the rows, which come in the order of their days, may *)
(* have read when it ends: an error after the first row ends it as the     *)
(* last row does, for none of the readers asks rows.Err().                 *)
Readings(f) ==
  {read \in SUBSET Chosen(f) :
     /\ read = {} => Chosen(f) = {}
     /\ \A r \in read, s \in Chosen(f) \ read : r.from =< s.from}

Asked(f) == filter' = f /\ UNCHANGED <<table, rows, parts>>

Get(f) ==
  /\ Asked(f)
  /\ ~Refused(f)
  /\ \E read \in Readings(f) :
       answer' = [status |-> 200,
                  list |-> {[row |-> r, components |-> ComponentsOf(r)] : r \in read},
                  whole |-> read = Chosen(f)]

(* Refused, or an error before the first row.                              *)
GetFails(f) ==
  /\ Asked(f)
  /\ answer' = [status |-> 500, list |-> {}, whole |-> TRUE]

Next ==
  \/ \E config \in Configs : Reconfigure(config)
  \/ \E start, stop \in Dates :
       LET f == [start |-> start, stop |-> stop] IN Get(f) \/ GetFails(f)

Spec == Init /\ [][Next]_vars

------------------------------------------------------------------------------
TypeOK ==
  /\ table \in Tables
  /\ rows \subseteq Row
  /\ parts \subseteq rows \X Components
  /\ filter \in [start : Dates, stop : Dates]
  /\ answer.status \in {0, 200, 500} /\ answer.whole \in BOOLEAN
  /\ \A entry \in answer.list :
       entry.row \in rows /\ entry.components \subseteq Components \cup {Null}
  /\ answer.status = 200 => filter.start =< filter.stop /\ filter.start # Malformed

(* The rate or plan of a code on a day: the last that has begun.           *)
InForce(r, day) ==
  /\ r.from =< day
  /\ \A s \in rows : s.code = r.code /\ s.from =< day => s.from =< r.from

(* A range is answered with rates (plans) that are in force on one of its  *)
(* days and no others, and with all of them, of every code, if all rows    *)
(* could be read: the lead() that bounds a row's validity agrees with      *)
(* which row is the last to have begun.  A version of a plan that has      *)
(* components is listed with its own, not with those of the versions       *)
(* before and after it.                                                    *)
ListsWhatIsInForce ==
  answer.status = 200 =>
    LET listed == {entry.row : entry \in answer.list}
        due == {r \in rows : \E day \in filter.start .. filter.stop - 1 : InForce(r, day)}
    IN /\ listed \subseteq due
       /\ answer.whole => listed = due
       /\ \A entry \in answer.list :
            LET own == {name \in Components : <<entry.row, name>> \in parts}
            IN own # {} => entry.components = own
==============================================================================
