------------------------------- MODULE Watch -------------------------------
(***************************************************************************)
(* What the three load watchdogs promise of their timer: once it is kicked *)
(* it is armed or being handled until it is closed, each expiry counts     *)
(* once, and after closing only a kick that came meanwhile can be met.     *)
(***************************************************************************)
EXTENDS Integers

CONSTANTS
    CountMod,    \* the range of the count of timeouts
    Silent       \* the counts after which the watch is given up

VARIABLES
    stage,       \* new, on, closing, off
    armed,
    handling,    \* a timeout is being handled
    count,
    rearmed      \* it was kicked while it was closing

vars == <<stage, armed, handling, count, rearmed>>

Init ==
    /\ stage = "new" /\ count = 0
    /\ armed = FALSE /\ handling = FALSE /\ rearmed = FALSE

\* Opening may fail; it does not arm the timer yet.
Open ==
    /\ stage = "new" /\ stage' \in {"on", "off"}
    /\ UNCHANGED <<armed, handling, count, rearmed>>

Kick ==
    /\ stage \in {"on", "closing"}
    /\ armed' = TRUE
    /\ rearmed' = (rearmed \/ stage = "closing")
    /\ UNCHANGED <<stage, handling, count>>

Expire ==
    /\ armed /\ ~handling
    /\ armed' = FALSE
    /\ count' = (count + 1) % CountMod
    /\ handling' = (count' \notin Silent)
    /\ UNCHANGED <<stage, rearmed>>

\* What handles a timeout arms the timer again.
Handled ==
    /\ handling
    /\ handling' = FALSE /\ armed' = TRUE
    /\ UNCHANGED <<stage, count, rearmed>>

\* Closing waits for a timeout that is being handled and takes the timer off ...
Close ==
    /\ stage = "on" /\ ~handling
    /\ stage' = "closing" /\ armed' = FALSE
    /\ UNCHANGED <<handling, count, rearmed>>

\* ... and then ends the kicks.
Closed ==
    /\ stage = "closing" /\ stage' = "off"
    /\ UNCHANGED <<armed, handling, count, rearmed>>

\* Only a timer that was kicked too late can expire with nobody there to handle it.
Lost ==
    /\ stage = "off" /\ rearmed /\ armed
    /\ armed' = FALSE
    /\ UNCHANGED <<stage, handling, count, rearmed>>

Next == Open \/ Kick \/ Expire \/ Handled \/ Close \/ Closed \/ Lost

Spec == Init /\ [][Next]_vars
=============================================================================
