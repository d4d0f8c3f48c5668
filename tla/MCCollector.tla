----------------------------- MODULE MCCollector -----------------------------
(* Instances of Collector for TLC.                                         *)
EXTENDS Collector, TLC

CONSTANTS c1, c2  \* model values: two collectors

TwoCollectors == {c1, c2}
OneCollector == {c1}

CollectorSymmetry == Permutations(Collectors)
==============================================================================
