--------------------------- MODULE SleepHandshake ---------------------------
(***************************************************************************)
(* What the common HAL promises the device and the WLAN protocol about     *)
(* sleep, without threads, locks, queues and flags.  The device asks for   *)
(* sleep; the host may answer, once; when the answer reaches the device it *)
(* sleeps until it wakes by itself.  From the answer on until the device   *)
(* wakes no technology is let onto the bus, and the device never falls     *)
(* asleep in the middle of a WLAN frame.                                   *)
(***************************************************************************)
CONSTANT Tech

VARIABLES
    phase,   \* "awake", "requested", "answered", "asleep"
    open,    \* the technologies that may transmit
    writing  \* a WLAN frame is being written to the device

vars == <<phase, open, writing>>

TypeOK ==
    /\ phase \in {"awake", "requested", "answered", "asleep"}
    /\ open \subseteq Tech
    /\ writing \in BOOLEAN

Init == phase = "awake" /\ open = {} /\ writing = FALSE

Move(from, to) == phase = from /\ phase' = to /\ UNCHANGED <<open, writing>>

RequestSleep == Move("awake", "requested")
Answer       == Move("requested", "answered")
LoseAnswer   == Move("answered", "requested")
Sleep        == ~writing /\ Move("answered", "asleep")
Wake         == Move("asleep", "awake")

Grant(t) ==
    /\ phase \in {"awake", "requested"}
    /\ open' = open \cup {t}
    /\ UNCHANGED <<phase, writing>>

Revoke(t) == open' = open \ {t} /\ UNCHANGED <<phase, writing>>

BeginWrite ==
    /\ phase # "asleep"
    /\ writing' = TRUE
    /\ UNCHANGED <<phase, open>>

EndWrite == writing' = FALSE /\ UNCHANGED <<phase, open>>

Next ==
    \/ RequestSleep \/ Answer \/ LoseAnswer \/ Sleep \/ Wake
    \/ \E t \in Tech : Grant(t) \/ Revoke(t)
    \/ BeginWrite \/ EndWrite

Spec == Init /\ [][Next]_vars
=============================================================================
