------------------------------ MODULE Deployment ------------------------------
(***************************************************************************)
(* The collector as it is deployed: one instance (manifest-collector.yml), *)
(* which a deployment replaces either by stopping the old process before   *)
(* the new one starts or, in a rolling deployment, after.                  *)
(***************************************************************************)
EXTENDS Pricing

(* The rates that dummy rows refer to are configured for all usage, as in  *)
(* the configuration of the README.                                        *)
ASSUME DummyRatesAssumption ==
  \A c \in Configs, u \in Usage : \A t \in u.span :
    /\ HasRate(StandardPart.vat, t, RateRows(VatRatesOf[c], c))
    /\ HasRate(StandardPart.currency, t, RateRows(CurrencyRatesOf[c], c))

(* Whether deployments start a process before the last one is down; if     *)
(* not, one process runs at a time, with the same file or another.         *)
VARIABLE overlap

DeployInit == Init /\ overlap \in BOOLEAN

DeployNext ==
  /\ Next
  /\ UNCHANGED overlap
  /\ overlap \/ \A p, q \in Processes : pc'[p] # "down" /\ pc'[q] # "down" => p = q

DeploySpec == DeployInit /\ [][DeployNext]_<<vars, overlap>>

(* Dummy plans fill the gaps while one process runs at a time.             *)
DummiesFillTheGaps == [][~overlap => GapsFilled]_<<vars, overlap>>
===============================================================================
