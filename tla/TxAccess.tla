------------------------------ MODULE TxAccess ------------------------------
(***************************************************************************)
(* The ultra-low-power (ULP) sleep handshake of the OneBox common HAL and  *)
(* the arbitration of transmit access between the protocols that share     *)
(* the bus: onebox_common_pwr_mngr.c, the coex thread and send_pkt_to_coex *)
(* of onebox_common_tx.c, the deferred receive worker's handling of        *)
(* ULP_SLEEP_NOTIFY, and the part of the WLAN thread (core_qos_processor)  *)
(* that asks for access and sends through send_pkt_to_coex.                *)
(*                                                                         *)
(* Threads: "coex" (coex_transmit_thread), "wlan" (sdio_scheduler_thread), *)
(* "rx" (deferred_rx_packet_parser on the one-thread work queue).  Each    *)
(* access to a field that another thread writes without a lock is a step   *)
(* of its own; a region under tx_access_lock is one step, because every    *)
(* field it writes besides the flags is written only under that lock.      *)
(* The exception is the grant loop, whose order of writes is visible.      *)
(***************************************************************************)
EXTENDS Naturals, Sequences, FiniteSets

CONSTANTS
    ActiveTechs,  \* technologies whose drv_state is MODULE_ACTIVE
    QueueBound,   \* bound: packets a producer keeps in one queue
    AllocMayFail, \* onebox_alloc_skb may return NULL in send_ulp_sleep_ack
    WriteMayFail  \* onebox_host_intf_write_pkt may fail

\* techs[MAX_IDS]: WLAN_ID 0, BT_ID 1, ZB_ID 2
MAX_IDS == 3
WLAN_ID == 0
BT_ID   == 1
ZB_ID   == 2
Tech    == 0 .. MAX_IDS - 1

ASSUME ConstantsAssumption ==
    /\ ActiveTechs \subseteq Tech
    /\ QueueBound \in Nat \ {0}
    /\ AllocMayFail \in BOOLEAN
    /\ WriteMayFail \in BOOLEAN

VARIABLES
    tx_intention,         \* techs[t].tx_intention
    tx_access,            \* techs[t].tx_access
    deregister_flags,     \* techs[t].deregister_flags: a thread waits
    common_hal_tx_access,
    sleep_entry_recvd,
    ulp_sleep_ack_sent,
    tx_access_lock,       \* the thread that holds the semaphore, or "free"
    transmit_lock,        \* the thread that holds the semaphore, or "free"
    coex_queues,          \* packets in COEX_Q (sleep acks), BT_Q, ZIGB_Q
    thread_event,         \* the coex thread's event is signalled
    cpc, cq, ulp_sleep_ack,       \* coex thread: pc, queue at hand, local
    wpc, host_tx_queue, scheduler_event, \* WLAN thread: pc, packets, event
    rpc, proto_id, deferred_rx_queue,    \* worker: pc, loop index, messages
    fw                    \* the device: "awake", "requested" or "asleep"

shared   == <<tx_intention, tx_access, deregister_flags>>
common   == <<common_hal_tx_access, sleep_entry_recvd, ulp_sleep_ack_sent>>
queues   == <<coex_queues, thread_event>>
coexvars == <<cpc, cq, ulp_sleep_ack>>
wlanvars == <<wpc, host_tx_queue, scheduler_event>>
rxvars   == <<rpc, proto_id, deferred_rx_queue>>
vars == <<shared, common, tx_access_lock, transmit_lock, queues, coexvars,
          wlanvars, rxvars, fw>>

Threads == {"coex", "wlan", "rx"}
CoexPC  == {"idle", "pick", "relIntention", "relAccess", "relUpdate",
            "check", "request", "recheck", "arm", "wait",
            "dequeue", "write", "written"}
WlanPC  == {"idle", "check", "request", "recheck", "arm", "wait",
            "loop", "write", "relAccess", "relUpdate"}
RxPC    == {"idle", "grantFlag", "grantAccess"}
Notify  == {"entry", "exit"}

\* The soft queues; WLAN_Q and VIP_Q packets bypass them (send_pkt_to_coex).
COEX_Q == "COEX_Q"
BT_Q   == "BT_Q"
ZIGB_Q == "ZIGB_Q"
INVALID_QUEUE == "INVALID_QUEUE"
SoftQ  == {COEX_Q, BT_Q, ZIGB_Q}
QueueOf(t) == IF t = BT_ID THEN BT_Q ELSE ZIGB_Q
TechOf(q)  == IF q = BT_Q THEN BT_ID ELSE ZB_ID

-----------------------------------------------------------------------------
\* onebox_common_pwr_mngr.c

protocol_tx_access == \E t \in ActiveTechs : tx_intention[t]

\* Mutants of send_ulp_sleep_ack: the coex thread is not woken; the flag that
\* remembers the ack is not set.
SleepAckUnsignalled ==
    /\ ulp_sleep_ack_sent' = TRUE
    /\ coex_queues' = [coex_queues EXCEPT ![COEX_Q] = @ + 1]
    /\ UNCHANGED thread_event

SleepAckForgotten ==
    /\ coex_queues' = [coex_queues EXCEPT ![COEX_Q] = @ + 1]
    /\ thread_event' = TRUE
    /\ UNCHANGED ulp_sleep_ack_sent

\* Queue the CONFIRM on COEX_Q and wake the coex thread; on a failed
\* allocation nothing at all is changed.
send_ulp_sleep_ack ==
    \/ /\ ulp_sleep_ack_sent' = TRUE
       /\ coex_queues' = [coex_queues EXCEPT ![COEX_Q] = @ + 1]
       /\ thread_event' = TRUE
    \/ /\ AllocMayFail
       /\ UNCHANGED <<ulp_sleep_ack_sent, queues>>

\* Mutants of update_tx_status: access is given although an ack is out; a
\* protocol that gives up its intention acks although an ack is out.
UpdateGrantsAfterAck(t) ==
    /\ tx_access_lock = "free"
    /\ tx_access' = IF tx_intention[t] /\ common_hal_tx_access
                    THEN [tx_access EXCEPT ![t] = TRUE] ELSE tx_access
    /\ UNCHANGED <<common_hal_tx_access, sleep_entry_recvd, tx_access_lock,
                   transmit_lock, ulp_sleep_ack_sent, queues>>

UpdateAcksTwice(t) ==
    /\ tx_access_lock = "free"
    /\ IF ~tx_intention[t] /\ sleep_entry_recvd /\ ~protocol_tx_access
       THEN send_ulp_sleep_ack
       ELSE UNCHANGED <<ulp_sleep_ack_sent, queues>>
    /\ UNCHANGED <<tx_access, common_hal_tx_access, sleep_entry_recvd,
                   tx_access_lock, transmit_lock>>

\* update_tx_status for a technology that is not MODULE_REMOVED, as one step
\* under tx_access_lock.  Changes tx_access, ulp_sleep_ack_sent, the queues.
update_tx_status(t) ==
    /\ tx_access_lock = "free"
    /\ \/ /\ tx_intention[t]
          /\ tx_access' = IF common_hal_tx_access /\ ~ulp_sleep_ack_sent
                          THEN [tx_access EXCEPT ![t] = TRUE]
                          ELSE tx_access
          /\ UNCHANGED <<ulp_sleep_ack_sent, queues>>
       \/ /\ ~tx_intention[t]
          /\ sleep_entry_recvd /\ ~ulp_sleep_ack_sent /\ ~protocol_tx_access
          /\ send_ulp_sleep_ack
          /\ UNCHANGED tx_access
       \/ /\ ~tx_intention[t]
          /\ ~sleep_entry_recvd \/ ulp_sleep_ack_sent \/ protocol_tx_access
          /\ UNCHANGED <<tx_access, ulp_sleep_ack_sent, queues>>
    /\ UNCHANGED <<common_hal_tx_access, sleep_entry_recvd,
                   tx_access_lock, transmit_lock>>

-----------------------------------------------------------------------------
\* The worker: process_ulp_sleep_notify -> sleep_entry_recvd, sleep_exit_recvd

Received(m) == /\ rpc = "idle"
               /\ deferred_rx_queue # <<>>
               /\ Head(deferred_rx_queue) = m
               /\ tx_access_lock = "free"
               /\ deferred_rx_queue' = Tail(deferred_rx_queue)

\* Sleep entry, no active protocol intends to transmit: answer it.
RxEntryAck ==
    /\ Received("entry")
    /\ ~protocol_tx_access
    /\ sleep_entry_recvd' = TRUE
    /\ send_ulp_sleep_ack
    /\ UNCHANGED <<shared, common_hal_tx_access, tx_access_lock, transmit_lock,
                   coexvars, wlanvars, rpc, proto_id, fw>>

\* Sleep entry, some protocol intends to transmit: keep the bus, and walk the
\* waiting protocols still holding tx_access_lock.
RxEntryRefuse ==
    /\ Received("entry")
    /\ protocol_tx_access
    /\ sleep_entry_recvd' = TRUE
    /\ common_hal_tx_access' = TRUE
    /\ ulp_sleep_ack_sent' = FALSE
    /\ tx_access_lock' = "rx"
    /\ rpc' = "grantFlag"
    /\ proto_id' = 0
    /\ UNCHANGED <<shared, transmit_lock, queues, coexvars, wlanvars, fw>>

\* Mutant of RxExit: sleep_entry_recvd survives the exit.
RxExitKeepsEntry ==
    /\ Received("exit")
    /\ common_hal_tx_access' = TRUE
    /\ ulp_sleep_ack_sent' = FALSE
    /\ rpc' = "grantFlag"
    /\ proto_id' = 0
    /\ UNCHANGED <<shared, sleep_entry_recvd, tx_access_lock, transmit_lock,
                   queues, coexvars, wlanvars, fw>>

\* Sleep exit: reopen the bus under the lock, walk the waiters after it.
RxExit ==
    /\ Received("exit")
    /\ sleep_entry_recvd' = FALSE
    /\ common_hal_tx_access' = TRUE
    /\ ulp_sleep_ack_sent' = FALSE
    /\ rpc' = "grantFlag"
    /\ proto_id' = 0
    /\ UNCHANGED <<shared, tx_access_lock, transmit_lock, queues, coexvars,
                   wlanvars, fw>>

\* The end of the loop body for proto_id: on to the next protocol, or out,
\* releasing tx_access_lock if this is the loop of sleep_entry_recvd.
NextProto ==
    IF proto_id < MAX_IDS - 1
    THEN /\ rpc' = "grantFlag"
         /\ proto_id' = proto_id + 1
         /\ UNCHANGED tx_access_lock
    ELSE /\ rpc' = "idle"
         /\ proto_id' = 0
         /\ tx_access_lock' = IF tx_access_lock = "rx" THEN "free"
                                                       ELSE tx_access_lock

\* First write of the loop body: deregister_flags = 0 ...
RxGrantFlag ==
    /\ rpc = "grantFlag"
    /\ IF deregister_flags[proto_id] /\ proto_id \in ActiveTechs
       THEN /\ deregister_flags' = [deregister_flags EXCEPT ![proto_id] = FALSE]
            /\ rpc' = "grantAccess"
            /\ UNCHANGED <<proto_id, tx_access_lock>>
       ELSE /\ NextProto
            /\ UNCHANGED deregister_flags
    /\ UNCHANGED <<tx_intention, tx_access, common, transmit_lock, queues,
                   coexvars, wlanvars, deferred_rx_queue, fw>>

\* ... and then tx_access = 1 and wake_up.
RxGrantAccess ==
    /\ rpc = "grantAccess"
    /\ tx_access' = [tx_access EXCEPT ![proto_id] = TRUE]
    /\ NextProto
    /\ UNCHANGED <<tx_intention, deregister_flags, common, transmit_lock,
                   queues, coexvars, wlanvars, deferred_rx_queue, fw>>

-----------------------------------------------------------------------------
\* The coex thread: coex_transmit_thread, coex_pkt_processor

CoexGoto(from, to) == cpc = from /\ cpc' = to

\* Woken: reset the event, enter coex_pkt_processor with ulp_sleep_ack = 0.
CoexWake ==
    /\ CoexGoto("idle", "pick")
    /\ thread_event
    /\ thread_event' = FALSE
    /\ ulp_sleep_ack' = FALSE
    /\ UNCHANGED <<shared, common, tx_access_lock, transmit_lock, coex_queues,
                   cq, wlanvars, rxvars, fw>>

\* coex_get_queue_num: COEX_Q before BT_Q before ZIGB_Q.
coex_get_queue_num ==
    CASE coex_queues[COEX_Q] > 0 -> COEX_Q
      [] coex_queues[COEX_Q] = 0 /\ coex_queues[BT_Q] > 0 -> BT_Q
      [] coex_queues[COEX_Q] = 0 /\ coex_queues[BT_Q] = 0
           /\ coex_queues[ZIGB_Q] > 0 -> ZIGB_Q
      [] OTHER -> INVALID_QUEUE

\* Nothing left: BT then ZB give up their access (default_ps_en is set by
\* bt_insert and zigb_insert), then the thread waits for its event.
FirstRelease == IF BT_ID \in ActiveTechs THEN BT_Q
                ELSE IF ZB_ID \in ActiveTechs THEN ZIGB_Q ELSE INVALID_QUEUE
NextRelease(q) == IF q = BT_Q /\ ZB_ID \in ActiveTechs THEN ZIGB_Q
                                                       ELSE INVALID_QUEUE

CoexPick ==
    /\ cpc = "pick"
    /\ LET q == coex_get_queue_num IN
         \/ /\ q = COEX_Q
            /\ cpc' = "dequeue" /\ cq' = q
         \/ /\ q \in {BT_Q, ZIGB_Q}
            /\ cpc' = "check" /\ cq' = q
         \/ /\ q = INVALID_QUEUE
            /\ cq' = FirstRelease
            /\ cpc' = IF cq' = INVALID_QUEUE THEN "idle" ELSE "relIntention"
    /\ UNCHANGED <<shared, common, tx_access_lock, transmit_lock, queues,
                   ulp_sleep_ack, wlanvars, rxvars, fw>>

CoexReleaseIntention ==
    /\ CoexGoto("relIntention", "relAccess")
    /\ tx_intention' = [tx_intention EXCEPT ![TechOf(cq)] = FALSE]
    /\ UNCHANGED <<tx_access, deregister_flags, common, tx_access_lock,
                   transmit_lock, queues, cq, ulp_sleep_ack, wlanvars, rxvars,
                   fw>>

CoexReleaseAccess ==
    /\ CoexGoto("relAccess", "relUpdate")
    /\ tx_access' = [tx_access EXCEPT ![TechOf(cq)] = FALSE]
    /\ UNCHANGED <<tx_intention, deregister_flags, common, tx_access_lock,
                   transmit_lock, queues, cq, ulp_sleep_ack, wlanvars, rxvars,
                   fw>>

CoexReleaseUpdate ==
    /\ cpc = "relUpdate"
    /\ update_tx_status(TechOf(cq))
    /\ cq' = NextRelease(cq)
    /\ cpc' = IF cq' = INVALID_QUEUE THEN "idle" ELSE "relIntention"
    /\ UNCHANGED <<tx_intention, deregister_flags, ulp_sleep_ack, wlanvars,
                   rxvars, fw>>

\* A BT or ZigBee packet is next and its protocol may have no access.
CoexCheck ==
    /\ cpc = "check"
    /\ LET t == TechOf(cq) IN
         IF tx_access[t]
         THEN cpc' = "dequeue" /\ UNCHANGED tx_intention
         ELSE cpc' = "request" /\ tx_intention' = [tx_intention EXCEPT ![t] = TRUE]
    /\ UNCHANGED <<tx_access, deregister_flags, common, tx_access_lock,
                   transmit_lock, queues, cq, ulp_sleep_ack, wlanvars, rxvars,
                   fw>>

CoexRequest ==
    /\ CoexGoto("request", "recheck")
    /\ update_tx_status(TechOf(cq))
    /\ UNCHANGED <<tx_intention, deregister_flags, cq, ulp_sleep_ack, wlanvars,
                   rxvars, fw>>

CoexRecheck ==
    /\ cpc = "recheck"
    /\ cpc' = IF tx_access[TechOf(cq)] THEN "dequeue" ELSE "arm"
    /\ UNCHANGED <<shared, common, tx_access_lock, transmit_lock, queues, cq,
                   ulp_sleep_ack, wlanvars, rxvars, fw>>

CoexArm ==
    /\ CoexGoto("arm", "wait")
    /\ deregister_flags' = [deregister_flags EXCEPT ![TechOf(cq)] = TRUE]
    /\ UNCHANGED <<tx_intention, tx_access, common, tx_access_lock,
                   transmit_lock, queues, cq, ulp_sleep_ack, wlanvars, rxvars,
                   fw>>

\* wait_event_timeout saw deregister_flags == 0: go on, without a second look
\* at tx_access.
CoexWoken ==
    /\ CoexGoto("wait", "dequeue")
    /\ ~deregister_flags[TechOf(cq)]
    /\ UNCHANGED <<shared, common, tx_access_lock, transmit_lock, queues, cq,
                   ulp_sleep_ack, wlanvars, rxvars, fw>>

\* 3000 ms are over: return, leaving packet, intention and flag as they are.
CoexTimeout ==
    /\ CoexGoto("wait", "idle")
    /\ deregister_flags[TechOf(cq)]
    /\ UNCHANGED <<shared, common, tx_access_lock, transmit_lock, queues, cq,
                   ulp_sleep_ack, wlanvars, rxvars, fw>>

\* Dequeue, take transmit_lock, note in ulp_sleep_ack that this is an ack.
CoexDequeue ==
    /\ CoexGoto("dequeue", "write")
    /\ transmit_lock = "free"
    /\ transmit_lock' = "coex"
    /\ coex_queues' = [coex_queues EXCEPT ![cq] = @ - 1]
    /\ ulp_sleep_ack' = (ulp_sleep_ack \/ cq = COEX_Q)
    /\ UNCHANGED <<shared, common, tx_access_lock, thread_event, cq, wlanvars,
                   rxvars, fw>>

\* write_pkt: a device that gets the ack of its request goes to sleep.
CoexWrite ==
    /\ CoexGoto("write", "written")
    /\ \/ fw' = IF cq = COEX_Q THEN "asleep" ELSE fw
       \/ WriteMayFail /\ UNCHANGED fw
    /\ UNCHANGED <<shared, common, tx_access_lock, transmit_lock, queues, cq,
                   ulp_sleep_ack, wlanvars, rxvars>>

\* Mutant of CoexWritten: the bus stays open after the ack.
WrittenLeavesBusOpen ==
    /\ CoexGoto("written", "pick")
    /\ tx_access_lock = "free"
    /\ transmit_lock' = "free"
    /\ UNCHANGED <<shared, common, tx_access_lock, queues, cq, ulp_sleep_ack,
                   wlanvars, rxvars, fw>>

\* Under tx_access_lock: after an ack, close the bus; then release
\* transmit_lock and free the packet.
CoexWritten ==
    /\ CoexGoto("written", "pick")
    /\ tx_access_lock = "free"
    /\ IF ulp_sleep_ack /\ sleep_entry_recvd
       THEN ulp_sleep_ack_sent' = TRUE /\ common_hal_tx_access' = FALSE
       ELSE UNCHANGED <<ulp_sleep_ack_sent, common_hal_tx_access>>
    /\ transmit_lock' = "free"
    /\ UNCHANGED <<shared, sleep_entry_recvd, tx_access_lock, queues, cq,
                   ulp_sleep_ack, wlanvars, rxvars, fw>>

-----------------------------------------------------------------------------
\* The WLAN thread: sdio_scheduler_thread, core_qos_processor

WlanGoto(from, to) == wpc = from /\ wpc' = to

WlanWake ==
    /\ WlanGoto("idle", "check")
    /\ scheduler_event
    /\ scheduler_event' = FALSE
    /\ UNCHANGED <<shared, common, tx_access_lock, transmit_lock, queues,
                   coexvars, host_tx_queue, rxvars, fw>>

WlanCheck ==
    /\ wpc = "check"
    /\ IF tx_access[WLAN_ID]
       THEN wpc' = "loop" /\ UNCHANGED tx_intention
       ELSE /\ wpc' = "request"
            /\ tx_intention' = [tx_intention EXCEPT ![WLAN_ID] = TRUE]
    /\ UNCHANGED <<tx_access, deregister_flags, common, tx_access_lock,
                   transmit_lock, queues, coexvars, host_tx_queue,
                   scheduler_event, rxvars, fw>>

WlanRequest ==
    /\ WlanGoto("request", "recheck")
    /\ update_tx_status(WLAN_ID)
    /\ UNCHANGED <<tx_intention, deregister_flags, coexvars, host_tx_queue,
                   scheduler_event, rxvars, fw>>

WlanRecheck ==
    /\ wpc = "recheck"
    /\ wpc' = IF tx_access[WLAN_ID] THEN "loop" ELSE "arm"
    /\ UNCHANGED <<shared, common, tx_access_lock, transmit_lock, queues,
                   coexvars, host_tx_queue, scheduler_event, rxvars, fw>>

WlanArm ==
    /\ WlanGoto("arm", "wait")
    /\ deregister_flags' = [deregister_flags EXCEPT ![WLAN_ID] = TRUE]
    /\ UNCHANGED <<tx_intention, tx_access, common, tx_access_lock,
                   transmit_lock, queues, coexvars, host_tx_queue,
                   scheduler_event, rxvars, fw>>

\* Woken within 6000 ms: unlike the coex thread it looks at tx_access again.
WlanWoken ==
    /\ wpc = "wait"
    /\ ~deregister_flags[WLAN_ID]
    /\ wpc' = IF tx_access[WLAN_ID] THEN "loop" ELSE "idle"
    /\ UNCHANGED <<shared, common, tx_access_lock, transmit_lock, queues,
                   coexvars, host_tx_queue, scheduler_event, rxvars, fw>>

WlanTimeout ==
    /\ WlanGoto("wait", "idle")
    /\ deregister_flags[WLAN_ID]
    /\ UNCHANGED <<shared, common, tx_access_lock, transmit_lock, queues,
                   coexvars, host_tx_queue, scheduler_event, rxvars, fw>>

\* Mutant of WlanSend: only the protocol's own access is tested.
SendIgnoresCommonAccess ==
    /\ wpc = "loop"
    /\ host_tx_queue > 0
    /\ transmit_lock = "free"
    /\ host_tx_queue' = host_tx_queue - 1
    /\ IF tx_access[WLAN_ID]
       THEN wpc' = "write" /\ transmit_lock' = "wlan"
       ELSE UNCHANGED <<wpc, transmit_lock>>
    /\ UNCHANGED <<shared, common, tx_access_lock, queues, coexvars,
                   scheduler_event, rxvars, fw>>

\* One packet: send_pkt_to_coex takes transmit_lock and tests both accesses;
\* without them it drops the packet and still returns success.
WlanSend ==
    /\ wpc = "loop"
    /\ host_tx_queue > 0
    /\ transmit_lock = "free"
    /\ host_tx_queue' = host_tx_queue - 1
    /\ IF tx_access[WLAN_ID] /\ common_hal_tx_access
       THEN wpc' = "write" /\ transmit_lock' = "wlan"
       ELSE UNCHANGED <<wpc, transmit_lock>>
    /\ UNCHANGED <<shared, common, tx_access_lock, queues, coexvars,
                   scheduler_event, rxvars, fw>>

WlanWrite ==
    /\ WlanGoto("write", "loop")
    /\ transmit_lock' = "free"
    /\ UNCHANGED <<shared, common, tx_access_lock, queues, coexvars,
                   host_tx_queue, scheduler_event, rxvars, fw>>

\* The loop ends (empty queues, a full device buffer, a beacon); PS_STATE is
\* that of the station's power save machine, here any.
WlanLoopEnd ==
    /\ wpc = "loop"
    /\ \E in_pwr_save \in BOOLEAN :
         IF in_pwr_save
         THEN /\ wpc' = "relAccess"
              /\ tx_intention' = [tx_intention EXCEPT ![WLAN_ID] = FALSE]
         ELSE wpc' = "idle" /\ UNCHANGED tx_intention
    /\ UNCHANGED <<tx_access, deregister_flags, common, tx_access_lock,
                   transmit_lock, queues, coexvars, host_tx_queue,
                   scheduler_event, rxvars, fw>>

WlanReleaseAccess ==
    /\ WlanGoto("relAccess", "relUpdate")
    /\ tx_access' = [tx_access EXCEPT ![WLAN_ID] = FALSE]
    /\ UNCHANGED <<tx_intention, deregister_flags, common, tx_access_lock,
                   transmit_lock, queues, coexvars, host_tx_queue,
                   scheduler_event, rxvars, fw>>

WlanReleaseUpdate ==
    /\ WlanGoto("relUpdate", "idle")
    /\ update_tx_status(WLAN_ID)
    /\ UNCHANGED <<tx_intention, deregister_flags, coexvars, host_tx_queue,
                   scheduler_event, rxvars, fw>>

-----------------------------------------------------------------------------
\* The users of the driver, and the device

\* send_bt_pkt, send_zigb_pkt -> send_pkt_to_coex: queue and signal.
SendPkt(t) ==
    /\ t \in ActiveTechs \ {WLAN_ID}
    /\ coex_queues[QueueOf(t)] < QueueBound
    /\ coex_queues' = [coex_queues EXCEPT ![QueueOf(t)] = @ + 1]
    /\ thread_event' = TRUE
    /\ UNCHANGED <<shared, common, tx_access_lock, transmit_lock, coexvars,
                   wlanvars, rxvars, fw>>

\* The network stack queues a WLAN frame and signals the WLAN thread.
SendWlanPkt ==
    /\ WLAN_ID \in ActiveTechs
    /\ host_tx_queue < QueueBound
    /\ host_tx_queue' = host_tx_queue + 1
    /\ scheduler_event' = TRUE
    /\ UNCHANGED <<shared, common, tx_access_lock, transmit_lock, queues,
                   coexvars, wpc, rxvars, fw>>

\* The device asks for sleep once and waits for the answer; it wakes on its
\* own (a beacon, a timer) and says so.
FwRequestSleep ==
    /\ fw = "awake"
    /\ fw' = "requested"
    /\ deferred_rx_queue' = Append(deferred_rx_queue, "entry")
    /\ UNCHANGED <<shared, common, tx_access_lock, transmit_lock, queues,
                   coexvars, wlanvars, rpc, proto_id>>

FwWake ==
    /\ fw = "asleep"
    /\ fw' = "awake"
    /\ deferred_rx_queue' = Append(deferred_rx_queue, "exit")
    /\ UNCHANGED <<shared, common, tx_access_lock, transmit_lock, queues,
                   coexvars, wlanvars, rpc, proto_id>>

-----------------------------------------------------------------------------

\* The state after bring-up: the card readies have been handled
\* (common_hal_fsm is COMMON_HAL_TX_ACCESS) and the bus is open.
Init ==
    /\ tx_intention = [t \in Tech |-> FALSE]
    /\ tx_access = [t \in Tech |-> FALSE]
    /\ deregister_flags = [t \in Tech |-> FALSE]
    /\ common_hal_tx_access = TRUE
    /\ sleep_entry_recvd = FALSE
    /\ ulp_sleep_ack_sent = FALSE
    /\ tx_access_lock = "free"
    /\ transmit_lock = "free"
    /\ coex_queues = [q \in SoftQ |-> 0]
    /\ thread_event = FALSE
    /\ cpc = "idle" /\ cq = INVALID_QUEUE /\ ulp_sleep_ack = FALSE
    /\ wpc = "idle" /\ host_tx_queue = 0 /\ scheduler_event = FALSE
    /\ rpc = "idle" /\ proto_id = 0 /\ deferred_rx_queue = <<>>
    /\ fw = "awake"

RxStep == RxEntryAck \/ RxEntryRefuse \/ RxExit \/ RxGrantFlag \/ RxGrantAccess

CoexStep ==
    \/ CoexWake \/ CoexPick
    \/ CoexReleaseIntention \/ CoexReleaseAccess \/ CoexReleaseUpdate
    \/ CoexCheck \/ CoexRequest \/ CoexRecheck \/ CoexArm
    \/ CoexWoken \/ CoexTimeout
    \/ CoexDequeue \/ CoexWrite \/ CoexWritten

WlanStep ==
    \/ WlanWake \/ WlanCheck \/ WlanRequest \/ WlanRecheck \/ WlanArm
    \/ WlanWoken \/ WlanTimeout \/ WlanSend \/ WlanWrite
    \/ WlanLoopEnd \/ WlanReleaseAccess \/ WlanReleaseUpdate

EnvStep == (\E t \in Tech : SendPkt(t)) \/ SendWlanPkt

FwStep == FwRequestSleep \/ FwWake

Next == RxStep \/ CoexStep \/ WlanStep \/ EnvStep \/ FwStep

Spec == Init /\ [][Next]_vars

\* Every runnable kernel thread is scheduled again and down() is first come
\* first served, so a thread that can go on again and again does (SF for the
\* steps that take a semaphore).  Users and the device's wish to sleep are
\* not fair; a device that sleeps wakes.
Fairness ==
    /\ WF_vars(RxStep) /\ SF_vars(RxEntryAck \/ RxEntryRefuse \/ RxExit)
    /\ WF_vars(CoexStep)
    /\ SF_vars(CoexRequest \/ CoexReleaseUpdate \/ CoexDequeue \/ CoexWritten)
    /\ WF_vars(WlanStep)
    /\ SF_vars(WlanRequest \/ WlanReleaseUpdate \/ WlanSend)
    /\ WF_vars(FwWake)

FairSpec == Spec /\ Fairness

-----------------------------------------------------------------------------
\* The type invariant.
TypeOK ==
    /\ tx_intention \in [Tech -> BOOLEAN]
    /\ tx_access \in [Tech -> BOOLEAN]
    /\ deregister_flags \in [Tech -> BOOLEAN]
    /\ common_hal_tx_access \in BOOLEAN
    /\ sleep_entry_recvd \in BOOLEAN
    /\ ulp_sleep_ack_sent \in BOOLEAN
    /\ tx_access_lock \in {"free", "rx"}
    /\ transmit_lock \in {"free", "coex", "wlan"}
    /\ coex_queues \in [SoftQ -> Nat]
    /\ thread_event \in BOOLEAN
    /\ cpc \in CoexPC
    /\ cq \in SoftQ \cup {INVALID_QUEUE}
    /\ ulp_sleep_ack \in BOOLEAN
    /\ wpc \in WlanPC
    /\ host_tx_queue \in Nat
    /\ scheduler_event \in BOOLEAN
    /\ rpc \in RxPC
    /\ proto_id \in Tech
    /\ deferred_rx_queue \in Seq(Notify)
    /\ fw \in {"awake", "requested", "asleep"}

\* Sleep acks on their way: queued, or dequeued and not yet written.
AckInHand == cpc = "write" /\ cq = COEX_Q
AckOut    == coex_queues[COEX_Q] > 0 \/ AckInHand

\* The host has at most one sleep ack on its way, and only to a device that
\* waits for one: an ack is never sent twice for a request nor survives it.
OneAckPerRequest ==
    /\ AckOut => fw = "requested" /\ sleep_entry_recvd /\ ulp_sleep_ack_sent
    /\ coex_queues[COEX_Q] <= 1
    /\ AckInHand => coex_queues[COEX_Q] = 0

\* A WLAN frame is never written to a sleeping device: the tests of
\* send_pkt_to_coex under transmit_lock are enough, although the access
\* bits are changed by the worker and the coex thread without that lock.
WlanWritesAwake == wpc = "write" => fw # "asleep"

\* "Sleep ack is queued cant give access" (onebox_common_pwr_mngr.c:262):
\* while an ack is queued or sent no step gives a technology access.
Granted(t) == ~tx_access[t] /\ tx_access'[t]
NoGrantAfterAck ==
    [][ulp_sleep_ack_sent \/ fw = "asleep" => \A t \in Tech : ~Granted(t)]_vars

\* A queued sleep ack is eventually written, even when the coex thread is
\* waiting for the access of BT or ZigBee when the ack is queued.
AckGetsWritten == AckOut ~> ~AckOut

-----------------------------------------------------------------------------
\* The strengthening that makes the properties above inductive.

\* Where the two ends of the handshake can be, by what is on the way between
\* them; a request the host knows and has not answered is really waiting.
HandshakeInv ==
    /\ fw = "awake"     => deferred_rx_queue \in {<<>>, <<"exit">>}
    /\ fw = "requested" => deferred_rx_queue \in
                               {<<>>, <<"entry">>, <<"exit", "entry">>}
    /\ fw = "asleep"    => /\ deferred_rx_queue = <<>> /\ rpc = "idle"
                           /\ sleep_entry_recvd /\ ulp_sleep_ack_sent
    /\ fw = "awake" /\ deferred_rx_queue = <<>> => ~sleep_entry_recvd
    /\ deferred_rx_queue = <<"entry">> => ~sleep_entry_recvd
    /\ sleep_entry_recvd /\ ~ulp_sleep_ack_sent
         => fw = "requested" /\ deferred_rx_queue = <<>>
    /\ AckOut => deferred_rx_queue = <<>>

\* While the worker walks the waiters no ack is sent, either because it holds
\* the lock or because no sleep entry is pending.
GrantLoopInv ==
    /\ tx_access_lock = "rx" => rpc # "idle"
    /\ rpc # "idle" => /\ ~ulp_sleep_ack_sent
                       /\ tx_access_lock = "rx" \/ ~sleep_entry_recvd

\* Who holds transmit_lock, and what the coex thread is about to dequeue.
TransmitInv ==
    /\ transmit_lock = "wlan" <=> wpc = "write"
    /\ transmit_lock = "coex" <=> cpc \in {"write", "written"}
    /\ cpc \in {"check", "request", "recheck", "arm", "wait",
                "relIntention", "relAccess", "relUpdate"} => cq \in {BT_Q, ZIGB_Q}
    /\ cpc \in {"dequeue", "write", "written"} => cq \in SoftQ
    /\ cpc \in {"check", "request", "recheck", "arm", "wait", "dequeue"}
         => coex_queues[cq] > 0
    /\ AckInHand => ulp_sleep_ack

\* The bus is open under a sleeping device only for the moment between the
\* write of the ack and the end of the coex thread's transmit_lock region.
ClosedBusInv ==
    fw = "asleep" /\ common_hal_tx_access => cpc = "written" /\ ulp_sleep_ack

IInv == /\ TypeOK /\ OneAckPerRequest /\ WlanWritesAwake
        /\ HandshakeInv /\ GrantLoopInv /\ TransmitInv /\ ClosedBusInv

-----------------------------------------------------------------------------
\* The host and the device together keep the promise of SleepHandshake.
Phase == IF fw = "requested" /\ AckOut THEN "answered" ELSE fw
Open  == {t \in Tech : tx_access[t]}

Handshake == INSTANCE SleepHandshake
                 WITH phase <- Phase, open <- Open, writing <- (wpc = "write")

\* The threads implement the handshake: an answer is given once per request
\* and only it puts the device to sleep, no access is given out between the
\* answer and the wake-up, the device does not fall asleep under a WLAN frame.
KeepsHandshake == Handshake!Spec

-----------------------------------------------------------------------------
\* What the code means to guarantee and does not (violation run).

\* Every packet queued for BT is eventually taken off its queue.
BtQueueDrains == coex_queues[BT_Q] > 0 ~> coex_queues[BT_Q] = 0
=============================================================================
