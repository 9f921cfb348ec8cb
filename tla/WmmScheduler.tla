---------------------------- MODULE WmmScheduler ----------------------------
(***************************************************************************)
(* The WLAN thread's choice of the next packet on SDIO:                    *)
(* core_determine_hal_queue (onebox_core_wmm.c) as core_qos_processor      *)
(* (onebox_core_wlan.c) and sdio_scheduler_thread (onebox_dev_ops.c) call  *)
(* it, with the blocking of the station's and the access point's queues,   *)
(* the device's buffer status, the producers, and the event that wakes the *)
(* thread.  Transmit access, asked for before the loop, is in TxAccess.    *)
(*                                                                         *)
(* One call of core_determine_hal_queue is up to three steps, because      *)
(* packets are queued while it runs: the scan for the least back-off       *)
(* ("choose"), the update of the back-offs ("adjust"), and the look at the *)
(* chosen queue ("decide").  Within a step every queue length is read      *)
(* once, so an enqueue can be put before or after the step.  A producer    *)
(* queues and signals in two steps.                                        *)
(***************************************************************************)
EXTENDS Integers, FiniteSets

CONSTANTS
    Burst,        \* Burst[q]: what pkt_cnt is set to for VI_Q_STA, VO_Q_STA
    OrgChoices,   \* values core_wme_update may give wme_org_q
    Used,         \* bound: queues the producers use
    Counted,      \* bound: queues whose turns are counted
    QueueBound,   \* bound: packets the producers keep in one queue
    Producers,    \* bound: producers between queueing and signalling
    Updates,      \* bound: updates of the WME parameters
    Interference  \* bound: which events of the surroundings may happen

\* enum EDCA_QUEUE (BK, BE, VI, VO; stations 0..3, access points 4..7)
NUM_EDCA_QUEUES    == 8
NO_STA_DATA_QUEUES == 4
MGMT_SOFT_Q        == 8
VI_Q_STA == 2
VO_Q_STA == 3
\* A queue nobody uses never contends; queue 0 is the scan's first answer.
EDCA    == {q \in 0 .. NUM_EDCA_QUEUES - 1 : q \in Used \/ q = 0}
Queues  == EDCA \cup {MGMT_SOFT_Q}
\* A back-off fits uint8 min: at most (15/2 + 15) * 9 + 16.
Weight  == 0 .. 255

ASSUME ConstantsAssumption ==
    /\ Burst \in [{VI_Q_STA, VO_Q_STA} -> 0 .. 255]
    /\ OrgChoices \subseteq [EDCA -> Weight]
    /\ Used \subseteq 0 .. MGMT_SOFT_Q
    /\ Counted \subseteq EDCA
    /\ QueueBound \in Nat
    /\ Producers \in Nat
    /\ Updates \in Nat
    /\ Interference \subseteq {"beacon", "full", "block"}

VARIABLES
    host_tx_queue,    \* packets in each soft queue
    scheduler_event,  \* sdio_scheduler_event is signalled
    to_signal,        \* producers that have queued and not yet signalled
    beacon_event, buffer_full, mgmt_buffer_full,
    sta_data_block, block_ap_queues,
    wme_org_q, per_q_wt, pkt_contended, selected_qnum, pkt_cnt,
    wme_next,         \* what an update of the parameters does next to a queue
    wme_new,          \* the values it stores
    updates,          \* updates still to come
    pc, q_num, min, fresh_contention,
    left,             \* history: why the thread last left its loop
    turns             \* history: turns[i][j], the choices of j while i waits

events  == <<scheduler_event, to_signal>>
device  == <<beacon_event, buffer_full, mgmt_buffer_full>>
blocks  == <<sta_data_block, block_ap_queues>>
surroundings == <<host_tx_queue, events, device, blocks>>
update  == <<wme_next, wme_new, updates>>
contention == <<wme_org_q, per_q_wt, pkt_contended, update>>
backoff == <<contention, turns>>
burst   == <<selected_qnum, pkt_cnt>>
locals  == <<q_num, min, fresh_contention>>
vars == <<surroundings, backoff, burst, pc, locals, left>>

\* The thread leaves the loop of core_qos_processor and waits for its event.
Leave(why) == pc' = "idle" /\ left' = why

\* What the device's buffer status register may say.
Status == IF "full" \in Interference THEN BOOLEAN ELSE {FALSE}

-----------------------------------------------------------------------------
\* core_determine_hal_queue

\* Management frames come first.
SelectMgmt ==
    /\ pc = "select" /\ ~beacon_event
    /\ host_tx_queue[MGMT_SOFT_Q] > 0
    /\ pc' = "gate"
    /\ q_num' = MGMT_SOFT_Q
    /\ UNCHANGED <<surroundings, backoff, burst, min, fresh_contention, left>>

\* The rest of a VO or VI burst, without a look at the queue.
SelectBurst ==
    /\ pc = "select" /\ ~beacon_event
    /\ host_tx_queue[MGMT_SOFT_Q] = 0
    /\ pkt_cnt # 0
    /\ pc' = "gate"
    /\ pkt_cnt' = pkt_cnt - 1
    /\ q_num' = selected_qnum
    /\ UNCHANGED <<surroundings, backoff, selected_qnum, min, fresh_contention, left>>

\* Mutant of Contenders: the length of the queue is not looked at.
ContendersEmpty == {i \in EDCA : pkt_contended[i]}

Contenders == {i \in EDCA : pkt_contended[i] /\ host_tx_queue[i] > 0}

\* The scan keeps the first of the least.
Before(wt, i, j) == wt[i] < wt[j] \/ (wt[i] = wt[j] /\ i <= j)
IsLeast(q) ==
    /\ q \in Contenders
    /\ \A j \in Contenders : Before(per_q_wt, q, j)

\* GET_QUEUE_NUM: queue 0 if no queue contends.  min survives the goto.
Choose ==
    /\ \/ pc = "choose"
       \/ /\ pc = "select" /\ ~beacon_event
          /\ host_tx_queue[MGMT_SOFT_Q] = 0
          /\ pkt_cnt = 0
    /\ pc' = "adjust"
    /\ \/ \E q \in EDCA : /\ IsLeast(q)
                          /\ q_num' = q
                          /\ min' = per_q_wt[q]
       \/ /\ Contenders = {}
          /\ q_num' = 0
          /\ min' = IF pc = "select" THEN 0 ELSE min
    /\ fresh_contention' = FALSE
    /\ UNCHANGED <<surroundings, backoff, burst, left>>

\* Mutant of Lowered: waiting queues do not come nearer.
NotLowered(w) == w

Lowered(w) == IF w > min THEN w - min ELSE 0

\* The chosen queue contends afresh; contending queues come nearer by min;
\* queues that have no packets do not contend.
Adjust ==
    /\ pc = "adjust"
    /\ pc' = "decide"
    /\ LET contended == [pkt_contended EXCEPT ![q_num] = FALSE]
           full(i)   == host_tx_queue[i] > 0
       IN /\ per_q_wt' = [i \in EDCA |-> IF ~full(i) THEN 0
                                         ELSE IF contended[i]
                                              THEN Lowered(per_q_wt[i])
                                              ELSE wme_org_q[i]]
          /\ pkt_contended' = [i \in EDCA |-> full(i)]
          /\ fresh_contention' = \E i \in EDCA : full(i) /\ ~contended[i]
    /\ UNCHANGED <<surroundings, wme_org_q, update, burst, q_num, min, left, turns>>

\* Nothing in the chosen queue, but some queue contends afresh: goto.
DecideAgain ==
    /\ pc = "decide"
    /\ host_tx_queue[q_num] = 0
    /\ fresh_contention
    /\ pc' = "choose"
    /\ UNCHANGED <<surroundings, backoff, burst, locals, left>>

\* Mutant of DecideInvalid: the second look is forgotten.
DecideInvalidEarly ==
    /\ pc = "decide"
    /\ host_tx_queue[q_num] = 0
    /\ Leave("empty")
    /\ UNCHANGED <<surroundings, backoff, burst, locals>>

\* INVALID_QUEUE: core_qos_processor returns and the thread waits.
DecideInvalid ==
    /\ pc = "decide"
    /\ host_tx_queue[q_num] = 0
    /\ ~fresh_contention
    /\ Leave("empty")
    /\ UNCHANGED <<surroundings, backoff, burst, locals>>

\* Mutant of BurstLength: the burst is not cut to the packets there are.
BurstUncut(q) == IF Burst[q] = 0 THEN 0 ELSE Burst[q] - 1

\* pkt_cnt for a burst of q, cut to the packets there are, this one taken off.
BurstLength(q) ==
    LET n == IF host_tx_queue[q] <= Burst[q] THEN host_tx_queue[q] ELSE Burst[q]
    IN IF n = 0 THEN 0 ELSE n - 1

\* An update of the WME parameters is under way.
Updating == \E q \in EDCA : wme_next[q] # "done"

\* A queue waits while it contends with packets, until it is chosen.  A turn
\* of j is one choice, of a packet or a burst, whatever becomes of it.  Turns
\* are counted from the end of the last update of the parameters.
Chosen(q) == pc = "decide" /\ pc' = "gate" /\ q_num = q
CountTurns ==
    turns' = [i \in Counted |-> [j \in Counted |->
                IF Updating' \/ i \notin Contenders' \/ Chosen(i) THEN 0
                ELSE IF Chosen(j) THEN turns[i][j] + 1 ELSE turns[i][j]]]

DecideQueue ==
    /\ pc = "decide"
    /\ host_tx_queue[q_num] > 0
    /\ pc' = "gate"
    /\ selected_qnum' = q_num
    /\ pkt_cnt' = IF q_num \in {VI_Q_STA, VO_Q_STA} THEN BurstLength(q_num)
                                                    ELSE pkt_cnt
    /\ UNCHANGED <<surroundings, contention, locals, left>>
    /\ CountTurns

-----------------------------------------------------------------------------
\* sdio_scheduler_thread and core_qos_processor

\* The event, or the end of the 2 ms wait while the device is full.
Wake ==
    /\ pc = "idle"
    /\ scheduler_event \/ buffer_full \/ (beacon_event /\ mgmt_buffer_full)
    /\ pc' = "top"
    /\ scheduler_event' = FALSE
    /\ UNCHANGED <<host_tx_queue, to_signal, device, blocks, backoff, burst,
                   locals, left>>

\* A due beacon goes out before anything else; loading it reads the status.
LoadBeacon ==
    /\ pc = "top"
    /\ beacon_event /\ ~mgmt_buffer_full
    /\ pc' = "select"
    /\ beacon_event' = FALSE
    /\ mgmt_buffer_full' \in Status /\ buffer_full' \in Status
    /\ UNCHANGED <<host_tx_queue, events, blocks, backoff, burst, locals, left>>

NoBeacon ==
    /\ pc = "top"
    /\ ~beacon_event \/ mgmt_buffer_full
    /\ pc' = "select"
    /\ UNCHANGED <<surroundings, backoff, burst, locals, left>>

\* Top of the loop: a beacon has become due.
BeaconBreak ==
    /\ pc = "select"
    /\ beacon_event
    /\ Leave("beacon")
    /\ UNCHANGED <<surroundings, backoff, burst, locals>>

\* As the code writes it: the access point's test leaves out queue 4.
Blocked(q) ==
    \/ sta_data_block /\ q < NO_STA_DATA_QUEUES
    \/ block_ap_queues /\ q > NO_STA_DATA_QUEUES /\ q < MGMT_SOFT_Q

GateBlocked ==
    /\ pc = "gate"
    /\ Blocked(q_num)
    /\ Leave("blocked")
    /\ UNCHANGED <<surroundings, backoff, burst, locals>>

\* The status register says that the device has no room for this packet.
GateFull ==
    /\ pc = "gate"
    /\ ~Blocked(q_num)
    /\ mgmt_buffer_full' \in Status /\ buffer_full' \in Status
    /\ mgmt_buffer_full' \/ (buffer_full' /\ q_num # MGMT_SOFT_Q)
    /\ Leave("full")
    /\ UNCHANGED <<host_tx_queue, events, beacon_event, blocks, backoff, burst,
                   locals>>

GatePass ==
    /\ pc = "gate"
    /\ ~Blocked(q_num)
    /\ buffer_full' \in Status
    /\ buffer_full' => q_num = MGMT_SOFT_Q
    /\ mgmt_buffer_full' = FALSE
    /\ pc' = "dequeue"
    /\ UNCHANGED <<host_tx_queue, events, beacon_event, blocks, backoff, burst,
                   locals, left>>

\* core_dequeue_pkt.  The packet is sent or dropped and the loop goes on;
\* "NETBUF is NULL" ends it, although other queues may have packets.
Dequeue ==
    /\ pc = "dequeue"
    /\ IF host_tx_queue[q_num] > 0
       THEN /\ host_tx_queue' = [host_tx_queue EXCEPT ![q_num] = @ - 1]
            /\ pc' = "select"
            /\ left' = left
       ELSE /\ Leave("null")
            /\ host_tx_queue' = host_tx_queue
    /\ UNCHANGED <<events, device, blocks, contention, burst, locals>>
    /\ CountTurns

-----------------------------------------------------------------------------
\* The producers, the device and the station's state changes

Queue(q) ==
    /\ host_tx_queue[q] < QueueBound
    /\ to_signal < Producers
    /\ host_tx_queue' = [host_tx_queue EXCEPT ![q] = @ + 1]
    /\ to_signal' = to_signal + 1
    /\ scheduler_event' = scheduler_event

\* core_xmit, onebox_send_mgmt_pkt, onebox_send_internal_mgmt_frame: queue,
QueuePkt(q) ==
    /\ q \in Used
    /\ Queue(q)
    /\ UNCHANGED <<device, blocks, backoff, burst, pc, locals, left>>

\* then signal.
schedule_pkt_for_tx ==
    /\ to_signal > 0
    /\ to_signal' = to_signal - 1
    /\ scheduler_event' = TRUE
    /\ UNCHANGED <<host_tx_queue, device, blocks, backoff, burst, pc, locals, left>>

\* Mutant of RxBeaconEvent: the thread is not told.
RxBeaconSilent ==
    /\ "beacon" \in Interference
    /\ ~block_ap_queues
    /\ beacon_event' = TRUE
    /\ UNCHANGED <<host_tx_queue, events, buffer_full, mgmt_buffer_full,
                   blocks, backoff, burst, pc, locals, left>>

\* The device's beacon interrupt.
RxBeaconEvent ==
    /\ "beacon" \in Interference
    /\ ~block_ap_queues
    /\ to_signal < Producers
    /\ beacon_event' = TRUE
    /\ to_signal' = to_signal + 1
    /\ UNCHANGED <<host_tx_queue, scheduler_event, buffer_full, mgmt_buffer_full,
                   blocks, backoff, burst, pc, locals, left>>

\* Mutant of wlan_update_buf_status: the flags change, the thread sleeps on.
UpdateSilently ==
    /\ "full" \in Interference
    /\ mgmt_buffer_full' \in Status /\ buffer_full' \in Status
    /\ UNCHANGED <<host_tx_queue, events, beacon_event, blocks, backoff, burst,
                   pc, locals, left>>

\* The device's buffer interrupt, from the interrupt thread.
wlan_update_buf_status ==
    /\ "full" \in Interference
    /\ mgmt_buffer_full' \in Status /\ buffer_full' \in Status
    /\ scheduler_event' = TRUE
    /\ UNCHANGED <<host_tx_queue, to_signal, beacon_event, blocks, backoff, burst,
                   pc, locals, left>>

\* onebox_send_block_unblock: the frame to the device is a management frame.
BlockUnblock(sta, ap) ==
    /\ "block" \in Interference
    /\ Queue(MGMT_SOFT_Q)
    /\ sta_data_block' = sta
    /\ block_ap_queues' = ap
    /\ UNCHANGED <<device, backoff, burst, pc, locals, left>>

StaDisconnected == ~sta_data_block /\ BlockUnblock(TRUE, block_ap_queues)
StaConnected    == BlockUnblock(FALSE, FALSE)
\* onebox_scan_start with an access point running.
ScanStart       == BlockUnblock(TRUE, TRUE)
\* traffic_timer_callback: "Need to Unblock only AP queues".
TrafficTimer    == sta_data_block /\ block_ap_queues /\ BlockUnblock(TRUE, FALSE)

\* onebox_set_contention_vals, from another thread and without a lock that the
\* WLAN thread takes.  Entry by entry it stores wme_org_q, copies it to per_q_wt
\* (memcpy) and clears pkt_contended (memset).  Scan and update of the thread are
\* one step each although they go through the queues as well: that the steps
\* for different queues come in any order stands for every interleaving of the
\* two.  The frame core_wme_update sends at the end is a QueuePkt(MGMT_SOFT_Q).
core_wme_update ==
    /\ updates > 0 /\ ~Updating
    /\ updates' = updates - 1
    /\ wme_new' \in OrgChoices
    /\ wme_next' = [q \in EDCA |-> "store"]
    /\ UNCHANGED <<surroundings, wme_org_q, per_q_wt, pkt_contended, burst, pc,
                   locals, left>>
    /\ CountTurns

Does(q, step, then) ==
    /\ wme_next[q] = step
    /\ wme_next' = [wme_next EXCEPT ![q] = then]
    /\ UNCHANGED <<surroundings, wme_new, updates, burst, pc, fresh_contention,
                   left, turns>>

StoreOrg(q) ==
    /\ Does(q, "store", "copy")
    /\ wme_org_q' = [wme_org_q EXCEPT ![q] = wme_new[q]]
    /\ UNCHANGED <<per_q_wt, pkt_contended, q_num, min>>

\* The scan compares per_q_wt of its choice, looks at the queue and then reads
\* per_q_wt again for min: with a new value in between it goes on from that.
ScanOnFrom(q) ==
    /\ pc = "adjust" /\ q_num = q /\ q \in Contenders
    /\ \E j \in Contenders :
          /\ j >= q
          /\ \A i \in Contenders : i >= q => Before(per_q_wt', j, i)
          /\ q_num' = j
          /\ min' = per_q_wt'[j]

\* Adjust may have read the old value and then overwrites the new one.
CopyWt(q) ==
    /\ Does(q, "copy", "clear")
    /\ \/ per_q_wt' = [per_q_wt EXCEPT ![q] = wme_org_q[q]]
       \/ pc = "decide" /\ per_q_wt' = per_q_wt
    /\ UNCHANGED <<q_num, min>> \/ ScanOnFrom(q)
    /\ UNCHANGED <<wme_org_q, pkt_contended>>

\* Mutant of ClearContended: the memset is forgotten.
KeepContended(q) ==
    /\ Does(q, "clear", "done")
    /\ UNCHANGED <<wme_org_q, per_q_wt, pkt_contended, q_num, min>>

ClearContended(q) ==
    /\ Does(q, "clear", "done")
    /\ pkt_contended' = [pkt_contended EXCEPT ![q] = FALSE]
    /\ UNCHANGED <<wme_org_q, per_q_wt, q_num, min>>

WmeStep == \E q \in EDCA : StoreOrg(q) \/ CopyWt(q) \/ ClearContended(q)

-----------------------------------------------------------------------------
Init ==
    /\ host_tx_queue = [q \in Queues |-> 0]
    /\ scheduler_event = FALSE /\ to_signal = 0
    /\ beacon_event = FALSE /\ buffer_full = FALSE /\ mgmt_buffer_full = FALSE
    /\ sta_data_block = FALSE /\ block_ap_queues = FALSE
    /\ wme_org_q \in OrgChoices /\ per_q_wt = wme_org_q /\ wme_new = wme_org_q
    /\ wme_next = [i \in EDCA |-> "done"] /\ updates = Updates
    /\ pkt_contended = [i \in EDCA |-> FALSE]
    /\ selected_qnum = 0 /\ pkt_cnt = 0
    /\ pc = "idle" /\ left = "empty"
    /\ q_num = 0 /\ min = 0 /\ fresh_contention = FALSE
    /\ turns = [i \in Counted |-> [j \in Counted |-> 0]]

ThreadStep ==
    \/ Wake \/ LoadBeacon \/ NoBeacon \/ BeaconBreak
    \/ SelectMgmt \/ SelectBurst
    \/ Choose \/ Adjust \/ DecideAgain \/ DecideInvalid \/ DecideQueue
    \/ GateBlocked \/ GateFull \/ GatePass \/ Dequeue

EnvStep ==
    \/ \E q \in Queues : QueuePkt(q)
    \/ schedule_pkt_for_tx
    \/ RxBeaconEvent \/ wlan_update_buf_status
    \/ StaDisconnected \/ StaConnected \/ ScanStart \/ TrafficTimer
    \/ core_wme_update \/ WmeStep

Next == ThreadStep \/ EnvStep

Spec == Init /\ [][Next]_vars

\* The thread and the producer that has queued are scheduled whenever they
\* can run; producers owe no packet and the device owes nothing.
FairSpec == Spec /\ WF_vars(ThreadStep) /\ WF_vars(schedule_pkt_for_tx)

-----------------------------------------------------------------------------
TypeOK ==
    /\ host_tx_queue \in [Queues -> Nat]
    /\ scheduler_event \in BOOLEAN /\ to_signal \in Nat
    /\ beacon_event \in BOOLEAN
    /\ buffer_full \in BOOLEAN /\ mgmt_buffer_full \in BOOLEAN
    /\ sta_data_block \in BOOLEAN /\ block_ap_queues \in BOOLEAN
    /\ wme_org_q \in [EDCA -> Weight] /\ per_q_wt \in [EDCA -> Weight]
    /\ pkt_contended \in [EDCA -> BOOLEAN]
    /\ wme_next \in [EDCA -> {"store", "copy", "clear", "done"}]
    /\ wme_new \in [EDCA -> Weight] /\ updates \in Nat
    /\ selected_qnum \in EDCA /\ pkt_cnt \in 0 .. 255
    /\ pc \in {"idle", "top", "select", "choose", "adjust", "decide", "gate",
               "dequeue"}
    /\ q_num \in Queues /\ min \in Weight /\ fresh_contention \in BOOLEAN
    /\ left \in {"empty", "beacon", "blocked", "full", "null"}
    /\ turns \in [Counted -> [Counted -> Nat]]

\* The queue core_determine_hal_queue returns holds a packet, also when it
\* only counts down a burst without looking: the loop never ends on "NETBUF
\* is NULL" with packets waiting elsewhere (onebox_core_wlan.c:234-238).
ChosenHasPacket ==
    /\ pc \in {"gate", "dequeue"} => host_tx_queue[q_num] > 0
    /\ left # "null"

\* The thread waits with no event set and no producer about to set it.
Asleep == pc = "idle" /\ ~scheduler_event /\ to_signal = 0

\* No wake-up is lost.  A thread that found nothing to send sleeps over empty
\* queues only, one that stopped at a block sleeps no longer than a block
\* lasts, one that stopped at a full device no longer than the flags say
\* full, and a due beacon is left only to a full device, which is polled.
SleepsWithReason ==
    Asleep =>
      /\ left = "empty"   => \A q \in Queues : host_tx_queue[q] = 0
      /\ left = "blocked" => sta_data_block \/ block_ap_queues
      /\ left = "full"    => buffer_full \/ mgmt_buffer_full
      /\ beacon_event     => mgmt_buffer_full

\* The first turn of j may be due already when i begins to wait; every later
\* one costs j its whole back-off, and i comes nearer by as much.  So j has
\* at most 1 + wme_org_q[i] / wme_org_q[j] turns before i, whatever packets
\* are queued and wherever in a call of core_determine_hal_queue.  An update of
\* the parameters breaks this only while it lasts: what the thread made of
\* half-stored values does not outlive the memset.
Proportional ==
    \A i, j \in Counted :
        turns[i][j] > 0 => (turns[i][j] - 1) * wme_org_q[j] <= wme_org_q[i]

\* No access category starves: a waiting packet's queue is chosen in the end
\* (no management traffic, nothing blocked), also when the WME parameters are
\* replaced meanwhile, but not for ever again.
Served(q) == pc = "dequeue" /\ q_num = q
NoStarvation == \A q \in Used : host_tx_queue[q] > 0 ~> Served(q)

-----------------------------------------------------------------------------
\* Strengthening

\* Packets of the burst that is still to come are in the queue.
BurstInv ==
    /\ pkt_cnt > 0 => host_tx_queue[selected_qnum] >= pkt_cnt
    /\ pc \in {"gate", "dequeue"} /\ q_num = selected_qnum
         => host_tx_queue[q_num] > pkt_cnt
    /\ pc \in {"adjust", "decide"} => q_num \in EDCA /\ pkt_cnt = 0
    /\ pc = "choose" => pkt_cnt = 0

\* What the steps of one call have seen of the queues.  A packet they have
\* not seen sets the event after the thread has reset it.
Signalled == scheduler_event \/ to_signal > 0
SeenInv ==
    /\ pc \in {"choose", "adjust", "decide"} /\ host_tx_queue[MGMT_SOFT_Q] > 0
         => Signalled
    /\ pc = "adjust" /\ host_tx_queue[q_num] = 0 /\ ~Signalled
         => Contenders = {}
    /\ pc = "decide" /\ host_tx_queue[q_num] = 0 /\ ~fresh_contention
       /\ ~Signalled
         => \A i \in EDCA : host_tx_queue[i] = 0
    /\ pc \in {"choose", "adjust", "decide", "gate", "dequeue"} /\ beacon_event
         => Signalled
    /\ pc = "select" /\ beacon_event => Signalled \/ mgmt_buffer_full

\* What j has been lowered by since its last turn.
Gone(j) == IF pkt_contended[j] THEN wme_org_q[j] - per_q_wt[j] ELSE 0

\* What the turns of j before i have cost it, the first one aside.
Drawn(i, j) == (turns[i][j] - 1) * wme_org_q[j]

\* A queue is just being chosen: its back-off is drawn already.
Choosing(q) == pc = "decide" /\ q_num = q

\* A queue that counts turns was seen by the scan under way, and the choice
\* still stands.
ScanInv ==
    \A i, j \in Counted : turns[i][j] > 0 =>
        /\ i \in Contenders
        /\ pc = "adjust" => /\ min <= per_q_wt[i]
                            /\ pkt_contended[q_num]
                            /\ min = per_q_wt[q_num]

\* What i has still to be lowered by, what j was lowered by since its last
\* turn, and the cost of j's turns never exceed the first back-off of i.
BudgetInv ==
    \A i, j \in Counted : turns[i][j] > 0 /\ ~Choosing(i) =>
        Drawn(i, j) + Gone(j) + per_q_wt[i]
            + (IF Choosing(j) THEN wme_org_q[j] ELSE 0) <= wme_org_q[i]

\* What an update leaves behind for a queue it has done with.
WeightsInv ==
    /\ \A i \in EDCA : wme_next[i] = "done" /\ pkt_contended[i]
                          => per_q_wt[i] <= wme_org_q[i]
    /\ pc = "decide" /\ wme_next[q_num] = "done" => Gone(q_num) = 0

CountsInv == ScanInv /\ BudgetInv /\ Proportional
TurnsInv  == CountsInv /\ (Updating => \A i, j \in Counted : turns[i][j] = 0)

IInv == /\ TypeOK /\ ChosenHasPacket /\ SleepsWithReason /\ BurstInv /\ SeenInv
        /\ WeightsInv /\ TurnsInv

=============================================================================
