---------------------------- MODULE MCUsageEvents ----------------------------
(* Instances of UsageEvents for TLC.                                       *)
EXTENDS UsageEvents, TLC

CONSTANTS
  app, service, smoke,  \* model values: resources
  p1, p2                \* model values: processes

TwoProcesses == {p1, p2}
ProcessSymmetry == Permutations(Processes)

EveryKind == {app, service, smoke}
OnlySmoke == {smoke}

(* The one task is of an acceptance test.                                  *)
StatesOf ==
  [r \in Resources |->
     CASE r = app -> {"STARTED", "STOPPED", "STAGING_STARTED",
                      "STAGING_STOPPED", "BUILDPACK_SET"}
       [] r = service -> {"CREATED", "UPDATED", "DELETED"}
       [] r = smoke -> {"TASK_STARTED", "TASK_STOPPED"}]
==============================================================================
