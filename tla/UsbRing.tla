------------------------------- MODULE UsbRing -------------------------------
(***************************************************************************)
(* What the USB transmit ring promises, without threads, searches and      *)
(* flags: a circular buffer that two clients fill and the bus empties in   *)
(* order.  The data client has a window of blocks, the acknowledgement a   *)
(* block of its own; a block is used when it is free and follows the last  *)
(* one; what is counted as pending is counted off only after the bus is    *)
(* done with it.  A failure stops the clients for good.                    *)
(***************************************************************************)
EXTENDS Integers

CONSTANTS Size, Window, NoSlot

VARIABLES
    busy,     \* the blocks in use
    next,     \* the block behind the last one used
    count,    \* blocks on the bus
    counted,  \* blocks counted as pending
    ack,      \* the block of the acknowledgement on the bus, or NoSlot
    broken

vars == <<busy, next, count, counted, ack, broken>>

Oldest == IF count <= next THEN next - count ELSE next - count + Size
Data   == count - (IF ack = NoSlot THEN 0 ELSE 1)

Init == /\ busy = {} /\ next = 1 /\ count = 0 /\ counted = 0
        /\ ack = NoSlot /\ ~broken

\* A submission that fails uses up its block.
Submit(newAck) ==
    /\ ~broken
    /\ next \notin busy
    /\ busy' = busy \cup {next}
    /\ next' = IF next + 1 = Size THEN 0 ELSE next + 1
    /\ counted' = counted + 1
    /\ \/ count' = count + 1 /\ ack' = newAck /\ ~broken'
       \/ UNCHANGED <<count, ack>> /\ broken'

SubmitData == Data < Window /\ Submit(ack)
SubmitAck  == ack = NoSlot /\ Submit(next)

\* A completion may report a failure.
Complete ==
    /\ count > 0
    /\ count' = count - 1
    /\ \E s \in busy : /\ broken \/ s = Oldest
                       /\ busy' = busy \ {s}
                       /\ ack' = IF s = ack THEN NoSlot ELSE ack
    /\ broken => broken'
    /\ UNCHANGED <<next, counted>>

CountOff ==
    /\ counted > count
    /\ counted' = counted - 1
    /\ UNCHANGED <<busy, next, count, ack, broken>>

Next == SubmitData \/ SubmitAck \/ Complete \/ CountOff

Spec == Init /\ [][Next]_vars
=============================================================================
