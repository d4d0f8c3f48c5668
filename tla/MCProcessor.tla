----------------------------- MODULE MCProcessor -----------------------------
(* Instances of Loop for TLC.  In a behaviour one of the two views (shown) *)
(* goes its way, and the other rests: they would only interleave.          *)
EXTENDS Loop, TLC

CONSTANTS
  Shown,      \* the views that are shown
  p1, p2, p3  \* model values: three processors

VARIABLE shown

MCVars == <<shown, vars, lockVars>>

ThreeProcessors == {p1, p2, p3}
TwoProcessors == {p1, p2}
OneProcessor == {p1}

ProcessorSymmetry == Permutations(TwoProcessors)

ShowTransactions == shown = "transactions" /\ UNCHANGED <<shown, lockVars>>
ShowLocks == shown = "locks" /\ UNCHANGED <<shown, vars>>

MCInit == shown \in Shown /\ Init /\ Locks!Init
MCNext == (ShowTransactions /\ Next) \/ (ShowLocks /\ Locks!Next)
MCSpec == MCInit /\ [][MCNext]_MCVars

(* Each view with its own fairness.                                        *)
MCFairSpec ==
  /\ MCSpec
  /\ (shown = "transactions" /\ Fairness) \/ (shown = "locks" /\ Locks!Fairness)
==============================================================================
