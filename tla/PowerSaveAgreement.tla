------------------------- MODULE PowerSaveAgreement -------------------------
(***************************************************************************)
(* What the power save of the WLAN station promises, without callers,      *)
(* locks, queues and flags.  The host knows whether the device sleeps,     *)
(* until it asks it to sleep or to wake; the device obeys a request once;  *)
(* the host knows again when it takes the confirm of that request, unless  *)
(* it asks anew in the same moment.  A request may be lost, and a confirm  *)
(* be taken for none, and then the host never knows again.                 *)
(***************************************************************************)
VARIABLES
    belief,  \* of the host: the device is "awake", "asleep", or "unsure"
    asked,   \* the request under way: "sleep", "wake", or "none"
    obeyed,  \* the device has obeyed it, the confirm is on its way
    asleep   \* the device sleeps

vars == <<belief, asked, obeyed, asleep>>

Known == IF asleep THEN "asleep" ELSE "awake"

Init == belief = "awake" /\ asked = "none" /\ ~obeyed /\ ~asleep

\* The host asks; a request of "none" is one that was lost.
Ask ==
    /\ belief # "unsure" /\ belief' = "unsure"
    /\ asked = "none" /\ asked' \in {"sleep", "wake", "none"}
    /\ UNCHANGED <<obeyed, asleep>>

Obey ==
    /\ ~obeyed /\ obeyed' = TRUE
    /\ asked # "none" /\ asleep' = (asked = "sleep")
    /\ UNCHANGED <<belief, asked>>

\* The host takes the confirm and knows, or asks anew, or has learnt nothing.
TakeConfirm ==
    /\ obeyed /\ obeyed' = FALSE
    /\ \/ belief' = Known /\ asked' = "none"
       \/ belief' = "unsure" /\ asked' \in {"sleep", "wake", "none"}
    /\ UNCHANGED asleep

Next == Ask \/ Obey \/ TakeConfirm

Spec == Init /\ [][Next]_vars
=============================================================================
