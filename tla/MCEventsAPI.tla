----------------------------- MODULE MCEventsAPI -----------------------------
(* An instance of EventsAPI for TLC.                                       *)
EXTENDS EventsAPI

CONSTANTS bills, usage, forecast  \* model values: requests

Clients == {{bills, forecast}, {usage}}

Endpoints ==
  bills :> "billable" @@ usage :> "usage" @@ forecast :> "forecast"

(* Months of three days, except that the second has two.                   *)
MonthStarts == <<0, 3, 5, 8>>

(* Bills from the middle of the first month to the end of the second.      *)
Ranges == bills :> <<1, 5>> @@ usage :> <<0, 4>> @@ forecast :> <<0, 4>>

(* Event 1 is used across the turn of the month, event 2, a task, after    *)
(* it; event 3 is simulated and belongs to the dummy organisation.         *)
Spans == <<<<2, 4>>, <<3, 4>>, <<0, 2>>>>
Organisations == <<"real", "real", "dummy">>
Asked == bills :> {} @@ usage :> {} @@ forecast :> {"dummy"}
==============================================================================
