--------------------------------- MODULE Loop --------------------------------
(***************************************************************************)
(* The loop of Refresh and ConsolidateAll in two views: what its           *)
(* transactions read and write (Processor), and the locks that their       *)
(* statements take (TableLocks), with variables of their own.              *)
(***************************************************************************)
EXTENDS Processor

CONSTANTS
  Contenders,  \* TableLocks: Processors
  NumKeys      \* TableLocks: NumMonths

VARIABLES at, shared, owned, keys, due, done, view

Locks == INSTANCE TableLocks WITH
  Processors <- Contenders, NumMonths <- NumKeys,
  pc <- at, todo <- due, history <- done

lockVars == <<at, shared, owned, keys, due, done, view>>

ASSUME LocksAssumption == Locks!MonthsAssumption

------------------------------------------------------------------------------
(* The properties of TableLocks.                                           *)

(* A consolidation is in no circle of transactions that wait for each      *)
(* other's tables or months, so that it is not broken off at another's     *)
(* expense.                                                                *)
ConsolidationInNoCircle == Locks!ConsolidationInNoCircle

(* A consolidation, which has no timeout, waits for no lock for ever.      *)
ConsolidationEnds == Locks!ConsolidationEnds
==============================================================================
