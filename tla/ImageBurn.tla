----------------------------- MODULE ImageBurn -----------------------------
(***************************************************************************)
(* What loading an image into the flash promises, without registers,       *)
(* commands and timers.  The image is checked once, unless it is to be     *)
(* replaced anyway; only an image that failed its check is replaced: it    *)
(* is erased, then burned chunk by chunk in the order of the image, at     *)
(* most two chunks being held by the device.  The device boots once, after *)
(* the burning: from flash only what is whole, or was not found damaged.   *)
(***************************************************************************)
EXTENDS Naturals

VARIABLES
    size,     \* chunks in the image
    replace,  \* the image is replaced without a check
    verdict,  \* of the check: "none" before it, "pass", "fail" or "unknown"
    burned,   \* chunks in flash, the first ones of the image
    held,     \* the chunks after them that the device holds
    booted,   \* "none", or from "flash" or "ram"
    status    \* what is reported: "none" before, "SUCCESS" or "FAILURE"

vars == <<size, replace, verdict, burned, held, booted, status>>

Whole   == burned = size /\ held = 0
MayBurn == booted = "none" /\ (replace \/ verdict = "fail")

Init == /\ size \in Nat \ {0} /\ replace \in BOOLEAN
        /\ verdict = "none" /\ burned \in {0, size} /\ held = 0
        /\ booted = "none" /\ status = "none"

Check == /\ verdict = "none" /\ ~replace
         /\ verdict' \in {"pass", "fail", "unknown"}
         /\ verdict' = "pass" => Whole
         /\ UNCHANGED <<size, replace, burned, held, booted, status>>

Erase == /\ MayBurn /\ held = 0
         /\ burned' = 0
         /\ UNCHANGED <<size, replace, verdict, held, booted, status>>

Hold == /\ MayBurn
        /\ held < 2 /\ burned + held < size
        /\ held' = held + 1
        /\ UNCHANGED <<size, replace, verdict, burned, booted, status>>

Burn == /\ MayBurn
        /\ held > 0 /\ held' = held - 1
        /\ burned' = burned + 1
        /\ UNCHANGED <<size, replace, verdict, booted, status>>

\* Also after a failure was reported: the device may be late.
Boot == /\ booted = "none" /\ held = 0
        /\ booted' \in {"flash", "ram"}
        /\ booted' = "flash" => Whole \/ verdict = "unknown"
        /\ UNCHANGED <<size, replace, verdict, burned, held, status>>

Report == /\ status = "none"
          /\ status' \in {"SUCCESS", "FAILURE"}
          /\ status' = "SUCCESS" /\ verdict = "fail" => Whole
          /\ UNCHANGED <<size, replace, verdict, burned, held, booted>>

Next == Check \/ Erase \/ Hold \/ Burn \/ Boot \/ Report

Spec == Init /\ [][Next]_vars
=============================================================================
