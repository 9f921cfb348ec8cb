----------------------------- MODULE DriverLife -----------------------------
(***************************************************************************)
(* What the life of a protocol driver on the card promises, without        *)
(* threads, locks and messages.  It has one instance at a time: created,   *)
(* published at home, started while the firmware is up, killed, freed, and *)
(* never used again.  The firmware goes down only under a started instance *)
(* and comes up only when there is none; a packet is read by the instance  *)
(* at home, while the firmware is up.  Only after a user has asked for an  *)
(* insertion or a removal may all of this break, and then for good.        *)
(***************************************************************************)
CONSTANTS Instances, None

VARIABLES
    instance,  \* of each: "unborn", "raw", "ready", "dead" or "freed"
    home,      \* the instance published last, or None
    active,    \* the driver is in use
    up,        \* the firmware is up
    reader,    \* the instance that is reading a packet, or None
    asked,     \* a user has asked
    broken

vars == <<instance, home, active, up, reader, asked, broken>>

Alive == {i \in Instances : instance[i] \notin {"unborn", "freed"}}
At(i, stage) == i # None /\ instance[i] = stage
Becomes(i, stage) == instance' = [instance EXCEPT ![i] = stage]

Init == /\ instance = [i \in Instances |-> "unborn"] /\ home = None
        /\ ~active /\ ~up /\ reader = None /\ ~asked /\ ~broken

Create == /\ ~active /\ Alive = {}
          /\ \E i \in Instances : At(i, "unborn") /\ Becomes(i, "raw")
          /\ UNCHANGED <<home, active, up, reader>>

Publish == /\ ~active
           /\ \E i \in Instances : At(i, "raw") /\ home' = i
           /\ UNCHANGED <<instance, active, up, reader>>

Activate == /\ ~active /\ active' /\ up /\ At(home, "raw")
            /\ UNCHANGED <<instance, home, up, reader>>

\* The instance starts; when it cannot, the driver is out of use again.
Start == /\ active /\ up /\ At(home, "raw")
         /\ \/ active' /\ Becomes(home, "ready")
            \/ ~active' /\ UNCHANGED instance
         /\ UNCHANGED <<home, up, reader>>

\* A removal waits for the packet that is being read.
GoDown == /\ active /\ up /\ ~up' /\ At(home, "ready") /\ reader = None
          /\ UNCHANGED <<instance, home, active, reader>>

Kill == /\ active /\ At(home, "ready") /\ reader = None
        /\ Becomes(home, "dead")
        /\ UNCHANGED <<home, active, up, reader>>

\* A killed instance is freed, and one that did not start, read or not.
Free == /\ \E i \in Instances :
              /\ At(i, "dead") \/ (~active /\ At(i, "raw"))
              /\ Becomes(i, "freed")
              /\ reader' = IF reader = i THEN None ELSE reader
        /\ UNCHANGED <<home, active, up>>

Deactivate == /\ active /\ ~active' /\ Alive = {}
              /\ UNCHANGED <<instance, home, up, reader>>

Unpublish == /\ ~active /\ Alive = {}
             /\ home' = None
             /\ UNCHANGED <<instance, active, up, reader>>

ComeUp == /\ ~up /\ up' /\ ~active /\ Alive = {}
          /\ UNCHANGED <<instance, home, active, reader>>

StartReading == /\ reader = None /\ reader' = home
                /\ active /\ up /\ (At(home, "raw") \/ At(home, "ready"))
                /\ UNCHANGED <<instance, home, active, up>>

StopReading == /\ reader # None /\ reader' = None
               /\ UNCHANGED <<instance, home, active, up>>

Live == \/ Create \/ Publish \/ Activate \/ Start \/ GoDown \/ Kill \/ Free
        \/ Deactivate \/ Unpublish \/ ComeUp \/ StartReading \/ StopReading

Ask == asked' /\ UNCHANGED <<instance, home, active, up, reader>>

Next == \/ ~broken /\ ~broken' /\ (Ask \/ (Live /\ UNCHANGED asked))
        \/ asked' /\ broken'

Spec == Init /\ [][Next]_vars
=============================================================================
