------------------------------ MODULE EventFeed ------------------------------
(***************************************************************************)
(* What the collection of usage events promises, without saying how: the   *)
(* raw event table is at all times a gap-free copy of the beginning of the *)
(* Cloud Foundry usage event log.  An event may be copied only together    *)
(* with (or after) every earlier event that the log will ever show.        *)
(*                                                                         *)
(* The log belongs to the Cloud Controller: an event gets its position     *)
(* (auto-increment id) when its transaction inserts it and becomes visible *)
(* or vanishes when that transaction ends, so positions do not become      *)
(* visible in order.                                                       *)
(***************************************************************************)
EXTENDS Naturals

CONSTANT MaxEvents  \* how many positions of the log are considered

Event == 1 .. MaxEvents

VARIABLES status,   \* status[e]: "none", "open", "committed" or "aborted"
          stored    \* the events in the raw event table

vars == <<status, stored>>

Visible == {e \in Event : status[e] = "committed"}

Init == /\ status = [e \in Event |-> "none"]
        /\ stored = {}

Insert(e) == /\ status[e] = "none"
             /\ \A f \in Event : f < e => status[f] # "none"
             /\ status' = [status EXCEPT ![e] = "open"]
             /\ UNCHANGED stored

End(e) == /\ status[e] = "open"
          /\ \E r \in {"committed", "aborted"} :
                status' = [status EXCEPT ![e] = r]
          /\ UNCHANGED stored

(* The table takes some more visible events, and with each of them every   *)
(* earlier event that was not rolled back.                                 *)
Replicate(more) ==
  /\ more \subseteq Visible
  /\ stored' = stored \cup more
  /\ \A e \in more, f \in Event :
       f < e => f \in stored' \/ status[f] = "aborted"
  /\ UNCHANGED status

Next == \/ \E e \in Event : Insert(e) \/ End(e)
        \/ \E more \in SUBSET Event : Replicate(more)

Spec == Init /\ [][Next]_vars
==============================================================================
