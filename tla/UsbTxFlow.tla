------------------------------ MODULE UsbTxFlow ------------------------------
(***************************************************************************)
(* WLAN transmission over USB: the ring of MAX_TX_URB request blocks that  *)
(* wlan_usb_card_write fills and wlan_usb_tx_done_handler empties, and the *)
(* flow control between the handler and the WLAN thread                    *)
(* (onebox_core_wlan.c, onebox_dev_ops.c, onebox_pktpro.c): the thread     *)
(* stops at BUFFER_FULL pending blocks after setting pkt_write_pending,    *)
(* and the handler that finds the flag set and the ring emptied far enough *)
(* clears it and wakes the thread.                                         *)
(*                                                                         *)
(* A write is one step: writers hold transmit_lock and the handler only    *)
(* frees blocks.  The bus completes the blocks of an endpoint in order.    *)
(* The coex thread writes its sleep ack into the same ring without looking *)
(* at the count, one ack at a time.                                        *)
(***************************************************************************)
EXTENDS Integers, Sequences

CONSTANTS
    MAX_TX_URB,   \* request blocks in the ring, a power of two (16)
    BUFFER_FULL,  \* pending blocks at which the thread stops (15)
    McastMax,     \* multicast frames after one beacon (4)
    QueueBound,   \* bound: packets that wait in the host queues
    Faults        \* bound: which of "error", "submit" may happen

BUFFER_FREE == MAX_TX_URB - 6
Slots == 0 .. MAX_TX_URB - 1

ASSUME ConstantsAssumption ==
    /\ MAX_TX_URB \in Nat /\ MAX_TX_URB > 6
    /\ BUFFER_FULL \in 1 .. MAX_TX_URB - 1
    /\ McastMax \in Nat /\ QueueBound \in Nat
    /\ Faults \subseteq {"error", "submit"}

VARIABLES
    queue,              \* packets in the host queues
    scheduler_event,    \* the WLAN thread's event
    beacon_event, mcast_left,
    wpc,                \* where the WLAN thread is
    urb_in_use, write_urb, tx_pending_urb_cnt, write_fail,
    inflight,           \* submitted blocks, oldest first
    pkt_write_pending,
    hpc,                \* where the completion handler is
    ack_slot,           \* block of the ack on the bus, or NoSlot
    cpc                 \* where the coex thread is

NoSlot == MAX_TX_URB

ring   == <<urb_in_use, write_urb, tx_pending_urb_cnt, write_fail, inflight>>
source == <<queue, scheduler_event, beacon_event, mcast_left>>
coex   == <<ack_slot, cpc>>
vars == <<source, wpc, ring, pkt_write_pending, hpc, coex>>

-----------------------------------------------------------------------------
\* wlan_usb_card_write

\* Mutant of Next1: the ring never wraps to its first block.
NextStuck(s) == IF s + 1 = MAX_TX_URB THEN s ELSE s + 1

\* (write_urb + 1) & (MAX_TX_URB - 1)
Next1(s) == (s + 1) % MAX_TX_URB

\* "Urb over write issue": the search starts behind the next block, does not
\* wrap, and leaves out the last block.
Found(s) ==
    {i \in Slots : /\ s < i /\ i < MAX_TX_URB - 1
                   /\ ~urb_in_use[i]
                   /\ \A j \in Slots : s < j /\ j < i => urb_in_use[j]}

\* The blocks the write may take.
Taken == IF ~urb_in_use[Next1(write_urb)] THEN {Next1(write_urb)}
                                          ELSE Found(Next1(write_urb))

\* Mutant of Submit: the block is not counted.
SubmitUncounted(s) ==
    /\ urb_in_use' = [urb_in_use EXCEPT ![s] = TRUE]
    /\ write_urb' = s
    /\ inflight' = Append(inflight, s)
    /\ UNCHANGED <<tx_pending_urb_cnt, write_fail>>

\* A block that is submitted, or whose submission fails.
Submit(s) ==
    /\ urb_in_use' = [urb_in_use EXCEPT ![s] = TRUE]
    /\ write_urb' = s
    /\ tx_pending_urb_cnt' = tx_pending_urb_cnt + 1
    /\ \/ /\ inflight' = Append(inflight, s)
          /\ UNCHANGED write_fail
       \/ /\ "submit" \in Faults
          /\ write_fail' = TRUE
          /\ UNCHANGED inflight

\* The packet is not written.  (The caller leaves freeing it to the completion
\* handler, which never sees it.)
NotWritten ==
    /\ write_fail \/ Taken = {}
    /\ write_urb' = IF write_fail THEN write_urb ELSE Next1(write_urb)
    /\ UNCHANGED <<urb_in_use, tx_pending_urb_cnt, write_fail, inflight>>

\* onebox_wlan_usb_card_write
Write ==
    \/ ~write_fail /\ \E s \in Taken : Submit(s)
    \/ NotWritten

-----------------------------------------------------------------------------
\* The WLAN thread

Full == tx_pending_urb_cnt >= BUFFER_FULL

WlanWake ==
    /\ wpc = "idle"
    /\ scheduler_event
    /\ scheduler_event' = FALSE
    /\ wpc' = "top"
    /\ UNCHANGED <<queue, beacon_event, mcast_left, ring, pkt_write_pending, hpc,
                   coex>>

\* sdio_scheduler_thread: a due beacon needs a free block, and a vap that still
\* sends beacons, else it is dropped.
WlanTop ==
    /\ wpc = "top"
    /\ beacon_event' = (beacon_event /\ Full)
    /\ \/ ~beacon_event         /\ wpc' = "loop"
       \/ beacon_event /\ Full  /\ wpc' = "stop"
       \/ beacon_event /\ ~Full /\ wpc' \in {"beacon", "loop"}
    /\ UNCHANGED <<queue, scheduler_event, mcast_left, ring, pkt_write_pending,
                   hpc, coex>>

\* send_beacon; multicast frames follow a DTIM beacon.
WlanBeacon ==
    /\ wpc = "beacon"
    /\ Write
    /\ mcast_left' \in 0 .. McastMax
    /\ wpc' = "mcast"
    /\ UNCHANGED <<queue, scheduler_event, beacon_event, pkt_write_pending, hpc,
                   coex>>

\* Mutant of WlanMcast: the frames after a beacon go out at a full ring too.
McastUnchecked ==
    /\ wpc = "mcast"
    /\ wpc' = IF mcast_left = 0 THEN "loop" ELSE "mwrite"
    /\ UNCHANGED <<source, ring, pkt_write_pending, hpc, coex>>

WlanMcast ==
    /\ wpc = "mcast"
    /\ wpc' = IF mcast_left = 0 THEN "loop" ELSE IF Full THEN "mstop" ELSE "mwrite"
    /\ UNCHANGED <<source, ring, pkt_write_pending, hpc, coex>>

WlanMcastWrite ==
    /\ wpc = "mwrite"
    /\ Write
    /\ mcast_left' = mcast_left - 1
    /\ wpc' = "mcast"
    /\ UNCHANGED <<queue, scheduler_event, beacon_event, pkt_write_pending, hpc,
                   coex>>

\* core_qos_processor: the loop ends for a beacon, with no packet, or at a
\* full ring.
WlanLoop ==
    /\ wpc = "loop"
    /\ wpc' = IF beacon_event \/ queue = 0 THEN "idle"
              ELSE IF Full THEN "stop" ELSE "write"
    /\ UNCHANGED <<source, ring, pkt_write_pending, hpc, coex>>

\* Mutant of WlanStop: the thread waits without telling the handler.
StopUnseen ==
    /\ wpc \in {"stop", "mstop"}
    /\ wpc' = IF wpc = "stop" THEN "idle" ELSE "loop"
    /\ UNCHANGED <<source, ring, pkt_write_pending, hpc, coex>>

\* Under usb_wlan_coex_write_pending, after the count was read outside it.
WlanStop ==
    /\ wpc \in {"stop", "mstop"}
    /\ pkt_write_pending' = TRUE
    /\ wpc' = IF wpc = "stop" THEN "idle" ELSE "loop"
    /\ UNCHANGED <<source, ring, hpc, coex>>

\* A packet leaves the queue and is written.
WlanWrite ==
    /\ wpc = "write"
    /\ Write
    /\ queue' = queue - 1
    /\ wpc' = "loop"
    /\ UNCHANGED <<scheduler_event, beacon_event, mcast_left, pkt_write_pending,
                   hpc, coex>>

\* A packet of a deleted vap or station, or without transmit access: freed.
WlanDrop ==
    /\ wpc = "write"
    /\ queue' = queue - 1
    /\ wpc' = "loop"
    /\ UNCHANGED <<scheduler_event, beacon_event, mcast_left, ring,
                   pkt_write_pending, hpc, coex>>

-----------------------------------------------------------------------------
\* wlan_usb_tx_done_handler

\* The block is free again at once.  After an error the handler goes no
\* further: the count keeps the block.
DoneBlock ==
    /\ hpc = "idle"
    /\ inflight # << >>
    /\ urb_in_use' = [urb_in_use EXCEPT ![Head(inflight)] = FALSE]
    /\ inflight' = Tail(inflight)
    /\ ack_slot' = IF ack_slot = Head(inflight) THEN NoSlot ELSE ack_slot
    /\ \/ /\ hpc' = "dec"
          /\ UNCHANGED write_fail
       \/ /\ "error" \in Faults
          /\ hpc' = hpc
          /\ write_fail' = TRUE
    /\ UNCHANGED <<source, wpc, write_urb, tx_pending_urb_cnt, pkt_write_pending,
                   cpc>>

\* Mutant of DoneCount: the count is not taken down.
DoneNoCount ==
    /\ hpc = "dec"
    /\ hpc' = "lock"
    /\ UNCHANGED <<source, wpc, ring, pkt_write_pending, coex>>

\* The count, then the packet is freed.
DoneCount ==
    /\ hpc = "dec"
    /\ tx_pending_urb_cnt' = tx_pending_urb_cnt - 1
    /\ hpc' = "lock"
    /\ UNCHANGED <<source, wpc, urb_in_use, write_urb, write_fail, inflight,
                   pkt_write_pending, coex>>

\* Mutant of DoneRestart: the flag is cleared, the thread sleeps on.
RestartSilent ==
    /\ hpc = "lock"
    /\ hpc' = "idle"
    /\ pkt_write_pending' = (pkt_write_pending /\ tx_pending_urb_cnt > BUFFER_FREE)
    /\ UNCHANGED <<source, wpc, ring, coex>>

\* Under usb_wlan_coex_write_pending.
DoneRestart ==
    /\ hpc = "lock"
    /\ hpc' = "idle"
    /\ IF pkt_write_pending /\ tx_pending_urb_cnt <= BUFFER_FREE
       THEN pkt_write_pending' = FALSE /\ scheduler_event' = TRUE
       ELSE UNCHANGED <<pkt_write_pending, scheduler_event>>
    /\ UNCHANGED <<queue, beacon_event, mcast_left, wpc, ring, coex>>

-----------------------------------------------------------------------------
\* The coex thread's sleep ack, the producers, the beacon interrupt

\* Mutant of AckWrite: further acks are not held back.
AckAgain ==
    /\ cpc = "idle"
    /\ ~write_fail /\ \E s \in Taken : Submit(s) /\ ack_slot' = s
    /\ cpc' = "written"
    /\ UNCHANGED <<source, wpc, pkt_write_pending, hpc>>

\* The next ack answers a request the device makes after it has this one.
AckDue == cpc = "idle" /\ ack_slot = NoSlot

AckWrite ==
    /\ AckDue
    /\ \/ /\ ~write_fail
          /\ \E s \in Taken : /\ Submit(s)
                              /\ ack_slot' = IF write_fail' THEN NoSlot ELSE s
       \/ NotWritten /\ UNCHANGED ack_slot
    /\ cpc' = "written"
    /\ UNCHANGED <<source, wpc, pkt_write_pending, hpc>>

\* coex_pkt_processor looks at the packet once more: is it a COEX_Q one?
AckCheckType ==
    /\ cpc = "written"
    /\ cpc' = "idle"
    /\ UNCHANGED <<source, wpc, ring, pkt_write_pending, hpc, ack_slot>>

QueuePkt ==
    /\ queue < QueueBound
    /\ queue' = queue + 1
    /\ scheduler_event' = TRUE
    /\ UNCHANGED <<beacon_event, mcast_left, wpc, ring, pkt_write_pending, hpc,
                   coex>>

\* The device's beacon interrupt.
RxBeaconEvent ==
    /\ ~beacon_event
    /\ beacon_event' = TRUE
    /\ scheduler_event' = TRUE
    /\ UNCHANGED <<queue, mcast_left, wpc, ring, pkt_write_pending, hpc, coex>>

-----------------------------------------------------------------------------
Init ==
    /\ queue = 0 /\ scheduler_event = FALSE
    /\ beacon_event = FALSE /\ mcast_left = 0
    /\ wpc = "idle"
    /\ urb_in_use = [s \in Slots |-> FALSE]
    /\ write_urb = 0 /\ tx_pending_urb_cnt = 0
    /\ write_fail = FALSE /\ inflight = << >>
    /\ pkt_write_pending = FALSE
    /\ hpc = "idle"
    /\ ack_slot = NoSlot /\ cpc = "idle"

WlanStep ==
    \/ WlanWake \/ WlanTop \/ WlanBeacon \/ WlanMcast \/ WlanMcastWrite
    \/ WlanLoop \/ WlanStop \/ WlanWrite \/ WlanDrop
HandlerStep == DoneBlock \/ DoneCount \/ DoneRestart
CoexStep == AckWrite \/ AckCheckType

Next == WlanStep \/ HandlerStep \/ CoexStep \/ QueuePkt \/ RxBeaconEvent

Spec == Init /\ [][Next]_vars

\* The thread runs when it can and the bus completes what was submitted.
FairSpec == Spec /\ WF_vars(WlanStep) /\ WF_vars(HandlerStep)
                 /\ WF_vars(AckCheckType)

-----------------------------------------------------------------------------
TypeOK ==
    /\ queue \in Nat /\ mcast_left \in 0 .. McastMax
    /\ scheduler_event \in BOOLEAN /\ beacon_event \in BOOLEAN
    /\ wpc \in {"idle", "top", "beacon", "mcast", "mwrite", "mstop", "loop",
                "stop", "write"}
    /\ urb_in_use \in [Slots -> BOOLEAN] /\ write_urb \in Slots
    /\ tx_pending_urb_cnt \in Nat /\ write_fail \in BOOLEAN
    /\ inflight \in Seq(Slots)
    /\ pkt_write_pending \in BOOLEAN
    /\ hpc \in {"idle", "dec", "lock"}
    /\ ack_slot \in Slots \cup {NoSlot} /\ cpc \in {"idle", "written"}

Writing == wpc \in {"beacon", "mwrite", "write"}

\* A block is never reused while the bus still has it: whoever may write next,
\* the WLAN thread that has read the count or the coex thread that has not,
\* finds the next block of the ring free ("Urb over write issue" is never met).
NextBlockFree ==
    ~write_fail /\ (Writing \/ AckDue)
        => ~urb_in_use[Next1(write_urb)]

\* The count the flow control reads never falls short of what the bus has,
\* although blocks are freed before they are counted off and some never are.
CountCovers == tx_pending_urb_cnt >= Len(inflight)

\* A thread that sleeps over packets or over a beacon has left the flag that
\* makes the handler wake it.
Asleep  == wpc = "idle" /\ ~scheduler_event
Stopped == Asleep /\ (queue > 0 \/ beacon_event)
StoppedIsPending == Stopped => pkt_write_pending

\* A thread stopped while the ring is fuller than BUFFER_FREE runs again: the
\* completions that are left wake it.  (A failed write stops USB for good.)
Restarts == Stopped /\ tx_pending_urb_cnt > BUFFER_FREE ~> ~Stopped \/ write_fail

\* The strengthening behind TypeOK, CountCovers and StoppedIsPending.  A block
\* the handler has not counted off yet is still counted; the thread writes only
\* what it has seen; and past its look at the beacon the thread still has the
\* signal of a beacon that comes later.
FlowInv ==
    /\ TypeOK
    /\ StoppedIsPending
    /\ tx_pending_urb_cnt >= Len(inflight) + (IF hpc = "dec" THEN 1 ELSE 0)
    /\ wpc = "mwrite" => mcast_left > 0
    /\ wpc = "write" => queue > 0
    /\ beacon_event /\ wpc \notin {"idle", "top", "stop"} => scheduler_event

\* Behind NextBlockFree: the bus has blocks in use, each once; until a write
\* fails they are all the blocks in use, one behind the other up to write_urb;
\* and the WLAN thread has put no more of them there than its limit, with one
\* ack besides.
RingInv ==
    /\ \A i \in DOMAIN inflight :
           /\ urb_in_use[inflight[i]]
           /\ \A j \in DOMAIN inflight : inflight[i] = inflight[j] => i = j
    /\ ~write_fail => \A s \in Slots :
           urb_in_use[s] => \E i \in DOMAIN inflight : inflight[i] = s
    /\ ~write_fail => \A i \in DOMAIN inflight :
           LET behind == Len(inflight) - i
           IN  inflight[i] = IF behind <= write_urb THEN write_urb - behind
                                           ELSE write_urb - behind + MAX_TX_URB
    /\ Len(inflight) + (IF Writing THEN 1 ELSE 0)
           <= BUFFER_FULL + (IF ack_slot = NoSlot THEN 0 ELSE 1)

IInv == FlowInv /\ RingInv

-----------------------------------------------------------------------------
\* The search for a block, the flags and the handler keep the promise of
\* UsbRing.
Ring == INSTANCE UsbRing
            WITH Size <- MAX_TX_URB, Window <- BUFFER_FULL,
                 busy <- {s \in Slots : urb_in_use[s]},
                 next <- Next1(write_urb), count <- Len(inflight),
                 counted <- tx_pending_urb_cnt, ack <- ack_slot,
                 broken <- write_fail

\* The two writers and the handler implement a circular buffer: every write
\* uses the block behind the last one, which is free; the data stays within
\* BUFFER_FULL blocks beside one ack; blocks come back in the order they were
\* used; the count goes down only for blocks the bus has done with.
KeepsRing == Ring!Spec
=============================================================================
