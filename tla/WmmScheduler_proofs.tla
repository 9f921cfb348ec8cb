------------------------ MODULE WmmScheduler_proofs ------------------------
(***************************************************************************)
(* Proofs about WmmScheduler, for every set of back-offs and burst         *)
(* lengths, every number of producers and every queue bound.               *)
(*                                                                         *)
(* IInv is inductive.  ChosenHasPacket rests on BurstInv: the packets a    *)
(* burst still counts on are in the queue, since only the thread dequeues. *)
(* SleepsWithReason rests on SeenInv: what the scan missed was queued      *)
(* after the thread reset its event, so a signal is on its way.  Each      *)
(* conjunct has a lemma with one step per action or group of like actions. *)
(*                                                                         *)
(* Proportional rests on CountsInv: a call lowers a queue that waits by    *)
(* exactly min, and every other one by at most as much, while the turn it  *)
(* grants costs the queue it grants it to a whole back-off.  It holds from *)
(* the end of an update of the parameters on because of WeightsInv: what   *)
(* the call under way had read before the update does not outlive it.      *)
(***************************************************************************)
EXTENDS WmmScheduler, TLAPS

USE DEF events, device, blocks, update, contention, backoff, burst, locals,
        surroundings, vars, Leave

-----------------------------------------------------------------------------
\* The queues and the ranges that the steps use.
LEMMA Ranges ==
  /\ EDCA \subseteq Queues
  /\ \A q \in Queues : q \in EDCA \/ q = MGMT_SOFT_Q
  /\ MGMT_SOFT_Q \in Queues /\ MGMT_SOFT_Q \notin EDCA
  /\ 0 \in EDCA /\ EDCA \subseteq Nat
  /\ 0 \in Weight
  /\ \A w, m \in Weight : (IF w > m THEN w - m ELSE 0) \in Weight
<1>1. /\ EDCA \subseteq Queues
      /\ \A q \in Queues : q \in EDCA \/ q = MGMT_SOFT_Q
      /\ MGMT_SOFT_Q \in Queues
  BY DEF Queues
<1>2. MGMT_SOFT_Q \notin EDCA /\ 0 \in EDCA /\ EDCA \subseteq Nat
  BY DEF EDCA, NUM_EDCA_QUEUES, MGMT_SOFT_Q
<1>3. 0 \in Weight /\ \A w, m \in Weight : (IF w > m THEN w - m ELSE 0) \in Weight
  <2>1. ASSUME NEW w \in 0 .. 255, NEW m \in 0 .. 255
        PROVE  (IF w > m THEN w - m ELSE 0) \in 0 .. 255
    OBVIOUS
  <2>2. 0 \in 0 .. 255
    OBVIOUS
  <2>3. QED
    BY <2>1, <2>2, Zenon DEF Weight
<1>4. QED
  BY <1>1, <1>2, <1>3

\* A burst that starts now is cut to the packets there are, less the first.
LEMMA BurstCut ==
  ASSUME NEW q \in {VI_Q_STA, VO_Q_STA},
         host_tx_queue[q] \in Nat
  PROVE  /\ BurstLength(q) \in 0 .. 255
         /\ host_tx_queue[q] > 0 => BurstLength(q) < host_tx_queue[q]
<1>1. Burst[q] \in 0 .. 255
  BY ConstantsAssumption
<1>2. QED
  BY <1>1 DEF BurstLength

\* Turns are numbers, also after a step that counts them.
LEMMA TurnsTyped ==
  ASSUME turns \in [Counted -> [Counted -> Nat]], CountTurns
  PROVE  turns' \in [Counted -> [Counted -> Nat]]
<1>1. \A i, j \in Counted :
         (IF Updating' \/ i \notin Contenders' \/ Chosen(i) THEN 0
          ELSE IF Chosen(j) THEN turns[i][j] + 1 ELSE turns[i][j]) \in Nat
  OBVIOUS
<1>2. QED
  BY <1>1 DEF CountTurns

\* What a store of an update leaves alone; a scan that goes on from the new
\* back-off of its choice ends at a queue that contends.
LEMMA WmeQuiet ==
  ASSUME WmeStep
  PROVE  /\ UNCHANGED <<surroundings, burst, pc, fresh_contention, left, turns>>
         /\ Updating
         /\ \/ q_num' = q_num
            \/ /\ pc = "adjust" /\ q_num' \in EDCA
               /\ host_tx_queue[q_num'] > 0
         /\ pkt_contended \in [EDCA -> BOOLEAN] => Contenders' \subseteq Contenders
<1>1. PICK q \in EDCA : StoreOrg(q) \/ CopyWt(q) \/ ClearContended(q)
  BY DEF WmeStep
<1>2. CASE StoreOrg(q)
  BY <1>2 DEF StoreOrg, Does, Updating, Contenders
<1>3. CASE CopyWt(q)
  BY <1>3 DEF CopyWt, ScanOnFrom, Does, Updating, Contenders
<1>4. CASE ClearContended(q)
  BY <1>4 DEF ClearContended, Does, Updating, Contenders
<1>5. QED
  BY <1>1, <1>2, <1>3, <1>4

\* Every step keeps the types; a queue that is chosen is an EDCA queue.
LEMMA TypeStep ==
  ASSUME IInv, [Next]_vars
  PROVE  TypeOK'
<1>0. TypeOK /\ BurstInv
  BY DEF IInv
<1> USE DEF TypeOK
<1>1. CASE Wake
  BY <1>0, <1>1 DEF Wake
<1>2. CASE LoadBeacon
  BY <1>0, <1>2 DEF LoadBeacon, Status
<1>3. CASE NoBeacon \/ BeaconBreak
  BY <1>0, <1>3 DEF NoBeacon, BeaconBreak
<1>4. CASE SelectMgmt
  BY <1>0, <1>4, Ranges DEF SelectMgmt
<1>5. CASE SelectBurst
  <2>1. pkt_cnt' \in 0 .. 255
    BY <1>0, <1>5 DEF SelectBurst
  <2>2. q_num' \in Queues
    BY <1>0, <1>5, Ranges DEF SelectBurst
  <2>3. QED
    BY <1>0, <1>5, <2>1, <2>2 DEF SelectBurst
<1>6. CASE Choose
  <2>1. q_num' \in Queues /\ min' \in Weight
    BY <1>0, <1>6, Ranges DEF Choose, IsLeast, Contenders
  <2>2. QED
    BY <1>0, <1>6, <2>1 DEF Choose
<1>7. CASE Adjust
  <2>1. \A i \in EDCA : Lowered(per_q_wt[i]) \in Weight
    BY <1>0, Ranges DEF Lowered
  <2>2. per_q_wt' \in [EDCA -> Weight]
    BY <1>0, <1>7, <2>1, Ranges DEF Adjust
  <2>3. pkt_contended' \in [EDCA -> BOOLEAN] /\ fresh_contention' \in BOOLEAN
    BY <1>7 DEF Adjust
  <2>4. QED
    BY <1>0, <1>7, <2>2, <2>3 DEF Adjust
<1>8. CASE DecideAgain \/ DecideInvalid
  BY <1>0, <1>8 DEF DecideAgain, DecideInvalid
<1>9. CASE DecideQueue
  <2>1. q_num \in EDCA
    BY <1>0, <1>9 DEF DecideQueue, BurstInv
  <2>2. pkt_cnt' \in 0 .. 255
    <3>1. q_num \in {VI_Q_STA, VO_Q_STA} => BurstLength(q_num) \in 0 .. 255
      BY <1>0, BurstCut
    <3>2. QED
      BY <1>0, <1>9, <3>1 DEF DecideQueue
  <2>3. QED
    BY <1>0, <1>9, <2>1, <2>2, TurnsTyped DEF DecideQueue
<1>10. CASE GateBlocked
  BY <1>0, <1>10 DEF GateBlocked
<1>11. CASE GateFull
  BY <1>0, <1>11 DEF GateFull, Status
<1>12. CASE GatePass
  BY <1>0, <1>12 DEF GatePass, Status
<1>13. CASE Dequeue
  <2>1. host_tx_queue' \in [Queues -> Nat]
    BY <1>0, <1>13 DEF Dequeue
  <2>2. QED
    BY <1>0, <1>13, <2>1, TurnsTyped DEF Dequeue
<1>14. ASSUME NEW q \in Queues, Queue(q)
       PROVE  /\ host_tx_queue' \in [Queues -> Nat]
              /\ scheduler_event' \in BOOLEAN /\ to_signal' \in Nat
  BY <1>0, <1>14 DEF Queue
<1>15. CASE \E q \in Queues : QueuePkt(q)
  <2>1. PICK q \in Queues : QueuePkt(q)
    BY <1>15
  <2>2. QED
    BY <1>0, <1>14, <2>1 DEF QueuePkt
<1>16. CASE StaDisconnected \/ StaConnected \/ ScanStart \/ TrafficTimer
  <2>1. PICK sta \in BOOLEAN, ap \in BOOLEAN : BlockUnblock(sta, ap)
    BY <1>0, <1>16 DEF StaDisconnected, StaConnected, ScanStart, TrafficTimer
  <2>2. QED
    BY <1>0, <1>14, <2>1, Ranges DEF BlockUnblock
<1>17. CASE schedule_pkt_for_tx
  BY <1>0, <1>17 DEF schedule_pkt_for_tx
<1>18. CASE RxBeaconEvent
  BY <1>0, <1>18 DEF RxBeaconEvent
<1>19. CASE wlan_update_buf_status
  BY <1>0, <1>19 DEF wlan_update_buf_status, Status
<1>20. CASE core_wme_update
  BY <1>0, <1>20, ConstantsAssumption, TurnsTyped DEF core_wme_update
<1>21. ASSUME NEW q \in EDCA, StoreOrg(q) \/ CopyWt(q) \/ ClearContended(q)
       PROVE  TypeOK'
  <2>1. wme_next' \in [EDCA -> {"store", "copy", "clear", "done"}]
    BY <1>0, <1>21 DEF StoreOrg, CopyWt, ClearContended, Does
  <2>2. CASE StoreOrg(q)
    BY <1>0, <2>1, <2>2 DEF StoreOrg, Does
  <2>3. CASE CopyWt(q)
    <3>1. per_q_wt' \in [EDCA -> Weight]
      BY <1>0, <2>3 DEF CopyWt
    <3>2. q_num' \in Queues /\ min' \in Weight
      BY <1>0, <2>3, <3>1, Ranges DEF CopyWt, ScanOnFrom, Contenders
    <3>3. UNCHANGED <<surroundings, wme_org_q, pkt_contended, wme_new, updates,
                      burst, pc, fresh_contention, left, turns>>
      BY <2>3 DEF CopyWt, Does
    <3>4. QED
      BY <1>0, <2>1, <3>1, <3>2, <3>3
  <2>4. CASE ClearContended(q)
    BY <1>0, <2>1, <2>4 DEF ClearContended, Does
  <2>5. QED
    BY <1>21, <2>2, <2>3, <2>4
<1>22. CASE WmeStep
  BY <1>21, <1>22 DEF WmeStep
<1>23. CASE UNCHANGED vars
  BY <1>0, <1>23
<1> HIDE DEF TypeOK
<1>24. QED
  BY <1>1, <1>2, <1>3, <1>4, <1>5, <1>6, <1>7, <1>8, <1>9, <1>10, <1>11,
     <1>12, <1>13, <1>15, <1>16, <1>17, <1>18, <1>19, <1>20, <1>22, <1>23
     DEF Next, ThreadStep, EnvStep

\* The chosen queue keeps its packet: only the thread dequeues.
LEMMA ChosenStep ==
  ASSUME IInv, [Next]_vars
  PROVE  ChosenHasPacket'
<1>0. /\ host_tx_queue \in [Queues -> Nat] /\ to_signal \in Nat
      /\ q_num \in Queues /\ selected_qnum \in EDCA /\ pkt_cnt \in Nat
      /\ ChosenHasPacket /\ BurstInv
  BY DEF IInv, TypeOK
<1> USE <1>0, Ranges DEF ChosenHasPacket, BurstInv
<1>1. CASE Wake
  BY <1>1 DEF Wake
<1>2. CASE LoadBeacon
  BY <1>2 DEF LoadBeacon
<1>3. CASE NoBeacon \/ BeaconBreak
  BY <1>3 DEF NoBeacon, BeaconBreak
<1>4. CASE SelectMgmt \/ SelectBurst
  BY <1>4 DEF SelectMgmt, SelectBurst
<1>5. CASE Choose
  BY <1>5 DEF Choose, IsLeast, Contenders
<1>6. CASE Adjust
  BY <1>6 DEF Adjust, Lowered
<1>7. CASE DecideAgain \/ DecideInvalid
  BY <1>7 DEF DecideAgain, DecideInvalid
<1>8. CASE DecideQueue
  BY <1>8 DEF DecideQueue, BurstLength
<1>9. CASE GateBlocked
  BY <1>9 DEF GateBlocked, Blocked
<1>10. CASE GateFull
  BY <1>10 DEF GateFull
<1>11. CASE GatePass
  BY <1>11 DEF GatePass
<1>12. CASE Dequeue
  BY <1>12 DEF Dequeue
<1>13. CASE \E q \in Queues : QueuePkt(q)
  BY <1>13 DEF QueuePkt, Queue
<1>14. CASE StaDisconnected \/ StaConnected \/ ScanStart \/ TrafficTimer
  BY <1>14 DEF StaDisconnected, StaConnected, ScanStart, TrafficTimer,
               BlockUnblock, Queue
<1>15. CASE schedule_pkt_for_tx
  BY <1>15 DEF schedule_pkt_for_tx
<1>16. CASE RxBeaconEvent
  BY <1>16 DEF RxBeaconEvent
<1>17. CASE wlan_update_buf_status
  BY <1>17 DEF wlan_update_buf_status
<1>18. CASE core_wme_update
  BY <1>18 DEF core_wme_update
<1>19. CASE WmeStep
  BY <1>19, WmeQuiet
<1>20. CASE UNCHANGED vars
  BY <1>20
<1>21. QED
  BY <1>1, <1>2, <1>3, <1>4, <1>5, <1>6, <1>7, <1>8, <1>9, <1>10, <1>11,
     <1>12, <1>13, <1>14, <1>15, <1>16, <1>17, <1>18, <1>19, <1>20
     DEF Next, ThreadStep, EnvStep

\* A burst is cut to the packets there are, and each is dequeued once.
LEMMA BurstStep ==
  ASSUME IInv, [Next]_vars
  PROVE  BurstInv'
<1>0. /\ host_tx_queue \in [Queues -> Nat] /\ to_signal \in Nat
      /\ q_num \in Queues /\ selected_qnum \in EDCA /\ pkt_cnt \in Nat
      /\ ChosenHasPacket /\ BurstInv
  BY DEF IInv, TypeOK
<1> USE <1>0, Ranges DEF ChosenHasPacket, BurstInv
<1>1. CASE Wake
  BY <1>1 DEF Wake
<1>2. CASE LoadBeacon
  BY <1>2 DEF LoadBeacon
<1>3. CASE NoBeacon \/ BeaconBreak
  BY <1>3 DEF NoBeacon, BeaconBreak
<1>4. CASE SelectMgmt \/ SelectBurst
  BY <1>4 DEF SelectMgmt, SelectBurst
<1>5. CASE Choose
  BY <1>5 DEF Choose, IsLeast, Contenders
<1>6. CASE Adjust
  BY <1>6 DEF Adjust, Lowered
<1>7. CASE DecideAgain \/ DecideInvalid
  BY <1>7 DEF DecideAgain, DecideInvalid
<1>8. CASE DecideQueue
  <2>1. q_num \in EDCA /\ host_tx_queue[q_num] > 0 /\ pkt_cnt = 0
    BY <1>8 DEF DecideQueue
  <2>2. q_num \in {VI_Q_STA, VO_Q_STA} => pkt_cnt' < host_tx_queue[q_num]
    BY <1>8, <2>1, BurstCut DEF DecideQueue
  <2>3. pkt_cnt' < host_tx_queue[q_num] /\ pkt_cnt' \in Nat
    BY <1>8, <2>1, <2>2, BurstCut DEF DecideQueue
  <2>4. QED
    BY <1>8, <2>1, <2>3 DEF DecideQueue
<1>9. CASE GateBlocked
  BY <1>9 DEF GateBlocked, Blocked
<1>10. CASE GateFull
  BY <1>10 DEF GateFull
<1>11. CASE GatePass
  BY <1>11 DEF GatePass
<1>12. CASE Dequeue
  BY <1>12 DEF Dequeue
<1>13. CASE \E q \in Queues : QueuePkt(q)
  BY <1>13 DEF QueuePkt, Queue
<1>14. CASE StaDisconnected \/ StaConnected \/ ScanStart \/ TrafficTimer
  BY <1>14 DEF StaDisconnected, StaConnected, ScanStart, TrafficTimer,
               BlockUnblock, Queue
<1>15. CASE schedule_pkt_for_tx
  BY <1>15 DEF schedule_pkt_for_tx
<1>16. CASE RxBeaconEvent
  BY <1>16 DEF RxBeaconEvent
<1>17. CASE wlan_update_buf_status
  BY <1>17 DEF wlan_update_buf_status
<1>18. CASE core_wme_update
  BY <1>18 DEF core_wme_update
<1>19. CASE WmeStep
  BY <1>19, WmeQuiet
<1>20. CASE UNCHANGED vars
  BY <1>20
<1>21. QED
  BY <1>1, <1>2, <1>3, <1>4, <1>5, <1>6, <1>7, <1>8, <1>9, <1>10, <1>11,
     <1>12, <1>13, <1>14, <1>15, <1>16, <1>17, <1>18, <1>19, <1>20
     DEF Next, ThreadStep, EnvStep

\* What the scan did not see has been, or will be, signalled.
LEMMA SeenStep ==
  ASSUME IInv, [Next]_vars
  PROVE  SeenInv'
<1>0. /\ host_tx_queue \in [Queues -> Nat] /\ to_signal \in Nat
      /\ q_num \in Queues /\ selected_qnum \in EDCA /\ pkt_cnt \in Nat
      /\ scheduler_event \in BOOLEAN /\ beacon_event \in BOOLEAN
      /\ pkt_contended \in [EDCA -> BOOLEAN]
      /\ SeenInv /\ BurstInv
  BY DEF IInv, TypeOK
<1> USE <1>0, Ranges DEF SeenInv, Signalled, Contenders, BurstInv
<1>1. CASE Wake
  BY <1>1 DEF Wake
<1>2. CASE LoadBeacon
  BY <1>2 DEF LoadBeacon
<1>3. CASE NoBeacon \/ BeaconBreak
  BY <1>3 DEF NoBeacon, BeaconBreak
<1>4. CASE SelectMgmt \/ SelectBurst
  BY <1>4 DEF SelectMgmt, SelectBurst
<1>5. CASE Choose
  BY <1>5 DEF Choose, IsLeast, Contenders
<1>6. CASE Adjust
  BY <1>6 DEF Adjust, Lowered
<1>7. CASE DecideAgain \/ DecideInvalid
  BY <1>7 DEF DecideAgain, DecideInvalid
<1>8. CASE DecideQueue
  BY <1>8 DEF DecideQueue, BurstLength
<1>9. CASE GateBlocked
  BY <1>9 DEF GateBlocked, Blocked
<1>10. CASE GateFull
  BY <1>10 DEF GateFull
<1>11. CASE GatePass
  BY <1>11 DEF GatePass
<1>12. CASE Dequeue
  BY <1>12 DEF Dequeue
<1>13. CASE \E q \in Queues : QueuePkt(q)
  BY <1>13 DEF QueuePkt, Queue
<1>14. CASE StaDisconnected \/ StaConnected \/ ScanStart \/ TrafficTimer
  BY <1>14 DEF StaDisconnected, StaConnected, ScanStart, TrafficTimer,
               BlockUnblock, Queue
<1>15. CASE schedule_pkt_for_tx
  BY <1>15 DEF schedule_pkt_for_tx
<1>16. CASE RxBeaconEvent
  BY <1>16 DEF RxBeaconEvent
<1>17. CASE wlan_update_buf_status
  BY <1>17 DEF wlan_update_buf_status
<1>18. CASE core_wme_update
  BY <1>18 DEF core_wme_update
<1>19. CASE WmeStep
  BY <1>19, WmeQuiet
<1>20. CASE UNCHANGED vars
  BY <1>20
<1>21. QED
  BY <1>1, <1>2, <1>3, <1>4, <1>5, <1>6, <1>7, <1>8, <1>9, <1>10, <1>11,
     <1>12, <1>13, <1>14, <1>15, <1>16, <1>17, <1>18, <1>19, <1>20
     DEF Next, ThreadStep, EnvStep

\* The thread leaves its loop for a reason that holds until it is signalled.
LEMMA SleepStep ==
  ASSUME IInv, [Next]_vars
  PROVE  SleepsWithReason'
<1>0. /\ host_tx_queue \in [Queues -> Nat] /\ to_signal \in Nat
      /\ q_num \in Queues /\ selected_qnum \in EDCA /\ pkt_cnt \in Nat
      /\ SleepsWithReason /\ SeenInv /\ BurstInv /\ ChosenHasPacket
  BY DEF IInv, TypeOK
<1> USE <1>0, Ranges DEF SleepsWithReason, Asleep, SeenInv, Signalled, BurstInv,
                      ChosenHasPacket
<1>1. CASE Wake
  BY <1>1 DEF Wake
<1>2. CASE LoadBeacon
  BY <1>2 DEF LoadBeacon
<1>3. CASE NoBeacon \/ BeaconBreak
  BY <1>3 DEF NoBeacon, BeaconBreak
<1>4. CASE SelectMgmt \/ SelectBurst
  BY <1>4 DEF SelectMgmt, SelectBurst
<1>5. CASE Choose
  BY <1>5 DEF Choose, IsLeast, Contenders
<1>6. CASE Adjust
  BY <1>6 DEF Adjust, Lowered
<1>7. CASE DecideAgain \/ DecideInvalid
  BY <1>7 DEF DecideAgain, DecideInvalid
<1>8. CASE DecideQueue
  BY <1>8 DEF DecideQueue, BurstLength
<1>9. CASE GateBlocked
  BY <1>9 DEF GateBlocked, Blocked
<1>10. CASE GateFull
  BY <1>10 DEF GateFull
<1>11. CASE GatePass
  BY <1>11 DEF GatePass
<1>12. CASE Dequeue
  BY <1>12 DEF Dequeue
<1>13. CASE \E q \in Queues : QueuePkt(q)
  BY <1>13 DEF QueuePkt, Queue
<1>14. CASE StaDisconnected \/ StaConnected \/ ScanStart \/ TrafficTimer
  BY <1>14 DEF StaDisconnected, StaConnected, ScanStart, TrafficTimer,
               BlockUnblock, Queue
<1>15. CASE schedule_pkt_for_tx
  BY <1>15 DEF schedule_pkt_for_tx
<1>16. CASE RxBeaconEvent
  BY <1>16 DEF RxBeaconEvent
<1>17. CASE wlan_update_buf_status
  BY <1>17 DEF wlan_update_buf_status
<1>18. CASE core_wme_update
  BY <1>18 DEF core_wme_update
<1>19. CASE WmeStep
  BY <1>19, WmeQuiet
<1>20. CASE UNCHANGED vars
  BY <1>20
<1>21. QED
  BY <1>1, <1>2, <1>3, <1>4, <1>5, <1>6, <1>7, <1>8, <1>9, <1>10, <1>11,
     <1>12, <1>13, <1>14, <1>15, <1>16, <1>17, <1>18, <1>19, <1>20
     DEF Next, ThreadStep, EnvStep

\* What an update leaves behind: the back-offs of the queues it has done with
\* are those of a contention that began after it, or are drawn afresh.
LEMMA WeightsStep ==
  ASSUME IInv, [Next]_vars
  PROVE  WeightsInv'
<1>0. /\ \A i \in EDCA : /\ wme_org_q[i] \in Nat /\ per_q_wt[i] \in Nat
                         /\ pkt_contended[i] \in BOOLEAN
      /\ pkt_contended \in [EDCA -> BOOLEAN] /\ min \in Nat
      /\ wme_next \in [EDCA -> {"store", "copy", "clear", "done"}]
      /\ WeightsInv /\ (pc \in {"adjust", "decide"} => q_num \in EDCA)
  <2>1. wme_org_q \in [EDCA -> Nat] /\ per_q_wt \in [EDCA -> Nat] /\ min \in Nat
    <3>1. Weight \subseteq Nat
      BY DEF Weight
    <3>2. QED
      BY <3>1 DEF IInv, TypeOK
  <2>2. QED
    BY <2>1 DEF IInv, TypeOK, BurstInv
<1>1. ASSUME UNCHANGED contention, pc' = "decide" => UNCHANGED <<pc, q_num>>
      PROVE  WeightsInv'
  BY <1>0, <1>1 DEF WeightsInv, Gone
<1>2. CASE ThreadStep
  <2>1. CASE Adjust
    <3> DEFINE contended == [pkt_contended EXCEPT ![q_num] = FALSE]
    <3>1. /\ q_num \in EDCA /\ q_num' = q_num /\ pc' = "decide"
          /\ UNCHANGED <<wme_org_q, wme_next>>
      BY <1>0, <2>1 DEF Adjust
    <3>2. ASSUME NEW i \in EDCA, pkt_contended'[i]
          PROVE  \/ per_q_wt'[i] = wme_org_q[i]
                 \/ /\ i # q_num /\ pkt_contended[i]
                    /\ per_q_wt'[i] = Lowered(per_q_wt[i])
      BY <1>0, <2>1, <3>1, <3>2 DEF Adjust
    <3>3. ASSUME NEW i \in EDCA, pkt_contended'[i], wme_next[i] = "done"
          PROVE  per_q_wt'[i] <= wme_org_q[i]
      <4>1. pkt_contended[i] => per_q_wt[i] <= wme_org_q[i]
        BY <1>0, <3>3 DEF WeightsInv
      <4>2. Lowered(per_q_wt[i]) <= per_q_wt[i] /\ Lowered(per_q_wt[i]) \in Nat
        BY <1>0 DEF Lowered
      <4>3. QED
        BY <1>0, <3>2, <3>3, <4>1, <4>2
    <3>4. Gone(q_num)' = 0
      BY <1>0, <3>1, <3>2 DEF Gone
    <3>5. QED
      BY <3>1, <3>3, <3>4 DEF WeightsInv
  <2>2. CASE ~Adjust
    <3>1. UNCHANGED contention /\ pc' # "decide"
      BY <1>2, <2>2 DEF ThreadStep, Wake, LoadBeacon, NoBeacon, BeaconBreak,
          SelectMgmt, SelectBurst, Choose, DecideAgain, DecideInvalid,
          DecideQueue, GateBlocked, GateFull, GatePass, Dequeue
    <3>2. QED
      BY <1>1, <3>1
  <2>3. QED
    BY <2>1, <2>2
<1>3. CASE core_wme_update
  <2>1. \A q \in EDCA : wme_next'[q] = "store"
    BY <1>3 DEF core_wme_update
  <2>2. pc' = pc /\ q_num' = q_num
    BY <1>3 DEF core_wme_update
  <2>3. QED
    BY <1>0, <2>1, <2>2 DEF WeightsInv
<1>4. CASE WmeStep
  <2>1. PICK q \in EDCA : StoreOrg(q) \/ CopyWt(q) \/ ClearContended(q)
    BY <1>4 DEF WmeStep
  <2>2. /\ pc' = pc /\ (pc = "decide" => q_num' = q_num)
        /\ \A i \in EDCA \ {q} : /\ wme_next'[i] = wme_next[i]
                                 /\ wme_org_q'[i] = wme_org_q[i]
                                 /\ per_q_wt'[i] = per_q_wt[i]
                                 /\ pkt_contended'[i] = pkt_contended[i]
    BY <1>0, <2>1 DEF StoreOrg, CopyWt, ScanOnFrom, ClearContended, Does,
                      IInv, TypeOK
  <2>3. wme_next'[q] # "done" \/ ~pkt_contended'[q]
    BY <1>0, <2>1 DEF StoreOrg, CopyWt, ClearContended, Does
  <2>4. QED
    BY <1>0, <2>2, <2>3 DEF WeightsInv, Gone
<1>5. CASE EnvStep /\ ~core_wme_update /\ ~WmeStep
  <2>1. UNCHANGED <<contention, pc, q_num>>
    BY <1>5 DEF EnvStep, QueuePkt, schedule_pkt_for_tx, RxBeaconEvent,
        wlan_update_buf_status, StaDisconnected, StaConnected, ScanStart,
        TrafficTimer, BlockUnblock
  <2>2. QED
    BY <1>1, <2>1
<1>6. CASE UNCHANGED vars
  BY <1>1, <1>6
<1>7. QED
  BY <1>2, <1>3, <1>4, <1>5, <1>6 DEF Next, EnvStep

-----------------------------------------------------------------------------
\* The turns

\* What TurnsInv and the types say of the numbers its steps add up.
LEMMA TurnTypes ==
  ASSUME IInv, ~Updating
  PROVE  /\ Counted \subseteq EDCA
         /\ \A j \in EDCA : /\ wme_org_q[j] \in Nat /\ per_q_wt[j] \in Nat
                            /\ pkt_contended[j] \in BOOLEAN
                            /\ pkt_contended[j] => per_q_wt[j] <= wme_org_q[j]
                            /\ Gone(j) \in Nat
         /\ pc = "decide" => Gone(q_num) = 0
         /\ min \in Nat
         /\ turns \in [Counted -> [Counted -> Nat]]
         /\ \A i, j \in Counted : turns[i][j] \in Nat /\ Drawn(i, j) \in Int
         /\ \A i \in Counted : i \notin Contenders =>
               \A j \in Counted : turns[i][j] = 0
<1> CountsInv /\ WeightsInv
  BY DEF IInv, TurnsInv
<1>1. Counted \subseteq EDCA
  BY ConstantsAssumption
<1>2. /\ wme_org_q \in [EDCA -> Weight] /\ per_q_wt \in [EDCA -> Weight]
      /\ pkt_contended \in [EDCA -> BOOLEAN] /\ min \in Weight
  BY DEF IInv, TypeOK
<1>3. Weight \subseteq Nat
  BY DEF Weight
<1>4. ASSUME NEW j \in EDCA
      PROVE  /\ wme_org_q[j] \in Nat /\ per_q_wt[j] \in Nat
             /\ pkt_contended[j] \in BOOLEAN /\ Gone(j) \in Nat
             /\ pkt_contended[j] => per_q_wt[j] <= wme_org_q[j]
  <2>1. wme_org_q[j] \in Nat /\ per_q_wt[j] \in Nat
    BY <1>2, <1>3
  <2>2. pkt_contended[j] => per_q_wt[j] <= wme_org_q[j]
    BY DEF WeightsInv, Updating
  <2>3. QED
    BY <1>2, <2>1, <2>2 DEF Gone
<1>5. turns \in [Counted -> [Counted -> Nat]]
  BY DEF IInv, TypeOK
<1>6. ASSUME NEW i \in Counted, NEW j \in Counted
      PROVE  /\ turns[i][j] \in Nat /\ Drawn(i, j) \in Int
             /\ i \notin Contenders => turns[i][j] = 0
  <2>1. turns[i][j] \in Nat
    BY <1>5
  <2>2. i \notin Contenders => turns[i][j] = 0
    BY <2>1 DEF CountsInv, ScanInv
  <2>3. wme_org_q[j] \in Nat
    BY <1>1, <1>4
  <2>4. QED
    BY <2>1, <2>2, <2>3 DEF Drawn
<1>7. pc = "decide" => Gone(q_num) = 0
  BY DEF WeightsInv, Updating, IInv, BurstInv
<1>8. QED
  BY <1>1, <1>2, <1>3, <1>4, <1>5, <1>6, <1>7

\* The steps outside adjust and decide, and those of other threads, that
\* leave the back-offs alone.
LEMMA TurnsQuiet ==
  ASSUME IInv, ~Updating, UNCHANGED backoff,
         Contenders \subseteq Contenders',
         \/ UNCHANGED <<pc, q_num, min>>
         \/ /\ pc' \notin {"adjust", "decide"}
            /\ pc = "decide" => host_tx_queue[q_num] = 0
  PROVE  CountsInv'
<1> CountsInv
  BY DEF IInv, TurnsInv
<1>2. \A j \in EDCA : Gone(j)' = Gone(j)
  BY DEF Gone
<1>3. \A i, j \in Counted : Drawn(i, j)' = Drawn(i, j)
  BY DEF Drawn
<1>5. ScanInv'
  BY DEF CountsInv, ScanInv
<1>6. BudgetInv'
  <2> SUFFICES ASSUME NEW i \in Counted, NEW j \in Counted,
                      turns[i][j] > 0, ~Choosing(i)'
               PROVE  (Drawn(i, j) + Gone(j) + per_q_wt[i]
                         + (IF Choosing(j) THEN wme_org_q[j] ELSE 0)
                           <= wme_org_q[i])'
    BY DEF BudgetInv
  <2>1. i \in Contenders
    BY DEF CountsInv, ScanInv
  <2>2. ~Choosing(i)
    BY <2>1 DEF Choosing, Contenders
  <2>3. Drawn(i, j) + Gone(j) + per_q_wt[i]
          + (IF Choosing(j) THEN wme_org_q[j] ELSE 0) <= wme_org_q[i]
    BY <2>2 DEF CountsInv, BudgetInv
  <2>4. (IF Choosing(j) THEN wme_org_q[j] ELSE 0)'
           <= (IF Choosing(j) THEN wme_org_q[j] ELSE 0)
    BY TurnTypes DEF Choosing
  <2>5. Gone(j)' = Gone(j) /\ Drawn(i, j)' = Drawn(i, j)
    BY <1>2, <1>3, TurnTypes
  <2>6. /\ Drawn(i, j) \in Int /\ Gone(j) \in Nat
        /\ per_q_wt[i] \in Nat /\ wme_org_q[i] \in Nat /\ wme_org_q[j] \in Nat
    BY TurnTypes
  <2>7. (IF Choosing(j) THEN wme_org_q[j] ELSE 0)' \in Nat
    BY <2>6 DEF Choosing
  <2>8. QED
    BY <2>3, <2>4, <2>5, <2>6, <2>7
<1>7. Proportional'
  BY DEF CountsInv, Proportional
<1>8. QED
  BY <1>5, <1>6, <1>7 DEF CountsInv

\* The scan: the least back-off is no greater than that of a waiting queue.
LEMMA TurnsChoose ==
  ASSUME IInv, ~Updating, Choose
  PROVE  CountsInv'
<1> CountsInv
  BY DEF IInv, TurnsInv
<1>1. Contenders' = Contenders /\ UNCHANGED backoff /\ pc' = "adjust"
  BY DEF Choose, Contenders
<1>2. turns' = turns
  BY <1>1
<1>4. ScanInv'
  <2> SUFFICES ASSUME NEW i \in Counted, NEW j \in Counted, turns[i][j] > 0
               PROVE  /\ i \in Contenders
                      /\ min' <= per_q_wt[i]
                      /\ pkt_contended[q_num'] /\ min' = per_q_wt[q_num']
    BY <1>1, <1>2 DEF ScanInv
  <2>1. i \in Contenders
    BY DEF CountsInv, ScanInv
  <2>2. PICK q \in EDCA : IsLeast(q) /\ q_num' = q /\ min' = per_q_wt[q]
    BY <2>1 DEF Choose
  <2>3. per_q_wt[q] <= per_q_wt[i]
    BY <2>1, <2>2, TurnTypes, Ranges DEF IsLeast, Before
  <2>4. QED
    BY <2>1, <2>2, <2>3 DEF IsLeast, Contenders
<1>5. BudgetInv'
  <2> SUFFICES ASSUME NEW i \in Counted, NEW j \in Counted, turns[i][j] > 0
               PROVE  (Drawn(i, j) + Gone(j) + per_q_wt[i] + 0
                         <= wme_org_q[i])'
    BY <1>1, <1>2 DEF BudgetInv, Choosing
  <2>1. pc # "decide"
    BY DEF Choose
  <2>2. Drawn(i, j) + Gone(j) + per_q_wt[i] + 0 <= wme_org_q[i]
    BY <2>1 DEF CountsInv, BudgetInv, Choosing
  <2>3. Drawn(i, j)' = Drawn(i, j) /\ Gone(j)' = Gone(j)
    BY <1>1, <1>2 DEF Drawn, Gone
  <2>4. QED
    BY <1>1, <2>2, <2>3
<1>6. Proportional'
  BY <1>1, <1>2 DEF CountsInv, Proportional
<1>7. QED
  BY <1>1, <1>4, <1>5, <1>6 DEF CountsInv

\* The update: a queue that waits comes nearer by min, every other one by no
\* more, and the chosen one, which was at min, draws a whole back-off.
LEMMA TurnsAdjust ==
  ASSUME IInv, ~Updating, Adjust
  PROVE  CountsInv'
<1> CountsInv
  BY DEF IInv, TurnsInv
<1> DEFINE full(i) == host_tx_queue[i] > 0
           contended == [pkt_contended EXCEPT ![q_num] = FALSE]
<1>0. /\ q_num \in EDCA /\ pc = "adjust" /\ pc' = "decide" /\ q_num' = q_num
      /\ wme_org_q' = wme_org_q /\ host_tx_queue' = host_tx_queue
  BY DEF Adjust, IInv, BurstInv
<1>1. /\ per_q_wt' = [i \in EDCA |-> IF ~full(i) THEN 0
                                     ELSE IF contended[i]
                                          THEN Lowered(per_q_wt[i])
                                          ELSE wme_org_q[i]]
      /\ pkt_contended' = [i \in EDCA |-> full(i)]
  BY DEF Adjust
<1>2. \A i \in EDCA : /\ contended[i] = (pkt_contended[i] /\ i # q_num)
                      /\ pkt_contended'[i] = full(i)
                      /\ per_q_wt'[i] = IF ~full(i) THEN 0
                                        ELSE IF contended[i]
                                             THEN Lowered(per_q_wt[i])
                                             ELSE wme_org_q[i]
  <2>1. pkt_contended \in [EDCA -> BOOLEAN]
    BY DEF IInv, TypeOK
  <2>2. QED
    BY <1>1, <2>1
<1> HIDE DEF full, contended
<1>3. turns' = turns
  BY DEF Adjust
<1>5. \A w \in Nat : Lowered(w) \in Nat /\ Lowered(w) <= w /\ Lowered(w) >= w - min
  BY TurnTypes DEF Lowered
<1>7. Gone(q_num)' = 0
  <2>1. wme_org_q[q_num] \in Nat
    BY <1>0, TurnTypes
  <2>2. pkt_contended'[q_num] => per_q_wt'[q_num] = wme_org_q[q_num]
    BY <1>0, <1>2
  <2>3. QED
    BY <1>0, <2>1, <2>2 DEF Gone
<1>8. ASSUME NEW j \in EDCA, j # q_num
      PROVE  Gone(j)' \in Nat /\ Gone(j)' <= Gone(j) + min
  <2>1. /\ wme_org_q[j] \in Nat /\ per_q_wt[j] \in Nat /\ min \in Nat
        /\ Gone(j) \in Nat
        /\ pkt_contended[j] => per_q_wt[j] <= wme_org_q[j]
    BY TurnTypes DEF CountsInv
  <2>2. /\ Lowered(per_q_wt[j]) \in Nat /\ Lowered(per_q_wt[j]) <= per_q_wt[j]
        /\ Lowered(per_q_wt[j]) >= per_q_wt[j] - min
    BY <1>5, <2>1
  <2>3. Gone(j)' = IF full(j) THEN wme_org_q[j] - per_q_wt'[j] ELSE 0
    BY <1>0, <1>2 DEF Gone
  <2>4. CASE full(j) /\ pkt_contended[j]
    <3>1. per_q_wt'[j] = Lowered(per_q_wt[j])
      BY <1>2, <1>8, <2>4
    <3>2. Gone(j) = wme_org_q[j] - per_q_wt[j]
      BY <2>4 DEF Gone
    <3>3. QED
      BY <2>1, <2>2, <2>3, <2>4, <3>1, <3>2
  <2>5. CASE full(j) /\ ~pkt_contended[j]
    <3>1. per_q_wt'[j] = wme_org_q[j]
      BY <1>2, <2>5, Zenon
    <3>2. QED
      BY <2>1, <2>3, <2>5, <3>1
  <2>6. CASE ~full(j)
    BY <2>1, <2>3, <2>6
  <2>7. QED
    BY <2>4, <2>5, <2>6, TurnTypes
<1>9. ScanInv'
  BY <1>0, <1>2, <1>3 DEF CountsInv, ScanInv, Contenders, full
<1>10. BudgetInv'
  <2> SUFFICES ASSUME NEW i \in Counted, NEW j \in Counted,
                      turns[i][j] > 0, i # q_num
               PROVE  (Drawn(i, j) + Gone(j) + per_q_wt[i]
                         + (IF Choosing(j) THEN wme_org_q[j] ELSE 0)
                           <= wme_org_q[i])'
    BY <1>0, <1>3 DEF BudgetInv, Choosing
  <2>1. /\ i \in EDCA /\ j \in EDCA /\ i \in Contenders /\ full(i)
        /\ pkt_contended[i]
        /\ min <= per_q_wt[i]
        /\ pkt_contended[q_num] /\ min = per_q_wt[q_num]
    BY <1>0, TurnTypes DEF CountsInv, ScanInv, Contenders, full
  <2>2. Drawn(i, j) + Gone(j) + per_q_wt[i] <= wme_org_q[i]
    <3>1. Drawn(i, j) + Gone(j) + per_q_wt[i] + 0 <= wme_org_q[i]
      BY <1>0 DEF CountsInv, BudgetInv, Choosing
    <3>2. QED
      BY <2>1, <3>1, TurnTypes
  <2>3. /\ per_q_wt[i] \in Nat /\ min \in Nat /\ wme_org_q[i] \in Nat
        /\ wme_org_q[j] \in Nat /\ Gone(j) \in Nat /\ Drawn(i, j) \in Int
    BY <2>1, TurnTypes
  <2>4. per_q_wt'[i] = per_q_wt[i] - min
    <3>1. per_q_wt'[i] = Lowered(per_q_wt[i])
      BY <1>2, <2>1
    <3>2. QED
      BY <2>1, <2>3, <3>1 DEF Lowered
  <2>5. Drawn(i, j)' = Drawn(i, j)
    BY <1>0, <1>3 DEF Drawn
  <2>6. CASE j = q_num
    <3>1. Gone(j) = wme_org_q[j] - min
      BY <2>1, <2>6 DEF Gone
    <3>2. Gone(j)' = 0
      BY <1>0, <1>7, <2>6 DEF Gone
    <3>3. (IF Choosing(j) THEN wme_org_q[j] ELSE 0)' = wme_org_q[j]
      BY <1>0, <2>6 DEF Choosing
    <3>4. QED
      BY <1>0, <2>2, <2>3, <2>4, <2>5, <3>1, <3>2, <3>3
  <2>7. CASE j # q_num
    <3>1. Gone(j)' \in Nat /\ Gone(j)' <= Gone(j) + min
      BY <1>8, <2>1, <2>7
    <3>2. (IF Choosing(j) THEN wme_org_q[j] ELSE 0)' = 0
      BY <1>0, <2>7 DEF Choosing
    <3>3. QED
      BY <1>0, <2>2, <2>3, <2>4, <2>5, <3>1, <3>2
  <2>8. QED
    BY <2>6, <2>7
<1>11. Proportional'
  BY <1>0, <1>3 DEF CountsInv, Proportional
<1>13. QED
  BY <1>9, <1>10, <1>11 DEF CountsInv

\* The choice: the waiting queues count a turn, for which the chosen one has
\* drawn its back-off.
LEMMA TurnsDecide ==
  ASSUME IInv, ~Updating, DecideQueue
  PROVE  CountsInv'
<1> CountsInv
  BY DEF IInv, TurnsInv
<1>0. /\ q_num \in EDCA /\ pc = "decide" /\ pc' = "gate"
      /\ q_num' = q_num /\ min' = min /\ UNCHANGED contention
      /\ Contenders' = Contenders /\ ~Updating' /\ CountTurns
  BY DEF DecideQueue, IInv, BurstInv, Contenders, Updating
<1>1. \A q : Chosen(q) <=> q = q_num
  BY <1>0 DEF Chosen
<1>2. turns' = [i \in Counted |-> [j \in Counted |->
                  IF i \notin Contenders \/ i = q_num THEN 0
                  ELSE IF j = q_num THEN turns[i][j] + 1 ELSE turns[i][j]]]
  BY <1>0, <1>1, Zenon DEF CountTurns
<1>3. \A i, j \in Counted : turns'[i][j] =
         IF i \notin Contenders \/ i = q_num THEN 0
         ELSE IF j = q_num THEN turns[i][j] + 1 ELSE turns[i][j]
  BY <1>2
<1>6. ScanInv'
  BY <1>0, <1>3 DEF ScanInv
<1>7. ASSUME NEW i \in Counted, NEW j \in Counted, turns'[i][j] > 0
      PROVE  /\ Drawn(i, j)' + Gone(j) + per_q_wt[i] <= wme_org_q[i]
             /\ (turns'[i][j] - 1) * wme_org_q[j] = Drawn(i, j)'
             /\ Drawn(i, j)' \in Int
  <2>1. /\ i \in EDCA /\ j \in EDCA /\ i \in Contenders /\ i # q_num
        /\ pkt_contended[i]
    BY <1>3, <1>7, TurnTypes DEF Contenders
  <2>2. /\ per_q_wt[i] \in Nat /\ wme_org_q[i] \in Nat /\ wme_org_q[j] \in Nat
        /\ Gone(j) \in Nat /\ Drawn(i, j) \in Int /\ turns[i][j] \in Nat
        /\ per_q_wt[i] <= wme_org_q[i]
    BY <2>1, TurnTypes DEF CountsInv
  <2>3. Drawn(i, j)' = (turns'[i][j] - 1) * wme_org_q[j]
    BY <1>0 DEF Drawn
  <2>4. turns[i][j] > 0 =>
          Drawn(i, j) + Gone(j) + per_q_wt[i]
            + (IF j = q_num THEN wme_org_q[j] ELSE 0) <= wme_org_q[i]
    BY <1>0, <2>1 DEF CountsInv, BudgetInv, Choosing
  <2>5. CASE j = q_num /\ turns[i][j] > 0
    <3>1. turns'[i][j] = turns[i][j] + 1
      BY <1>3, <2>1, <2>5
    <3>2. Drawn(i, j)' = Drawn(i, j) + wme_org_q[j]
      <4>1. Drawn(i, j)' = turns[i][j] * wme_org_q[j]
        BY <2>2, <2>3, <3>1
      <4>2. \A t, w \in Nat : t * w = (t - 1) * w + w
        OBVIOUS
      <4>3. QED
        BY <2>2, <4>1, <4>2 DEF Drawn
    <3>3. QED
      BY <2>2, <2>3, <2>4, <2>5, <3>2
  <2>6. CASE j = q_num /\ turns[i][j] = 0
    <3>1. turns'[i][j] = 1
      BY <1>3, <2>1, <2>6
    <3>2. Drawn(i, j)' = 0
      BY <2>2, <2>3, <3>1
    <3>3. Gone(j) = 0
      BY <1>0, <2>6, TurnTypes
    <3>4. QED
      BY <2>2, <2>3, <3>2, <3>3
  <2>7. CASE j # q_num
    <3>1. turns'[i][j] = turns[i][j]
      BY <1>3, <2>1, <2>7
    <3>2. Drawn(i, j)' = Drawn(i, j)
      BY <2>3, <3>1 DEF Drawn
    <3>3. QED
      BY <1>7, <2>2, <2>3, <2>4, <2>7, <3>1, <3>2
  <2>8. QED
    BY <2>2, <2>5, <2>6, <2>7
<1>8. BudgetInv'
  <2> SUFFICES ASSUME NEW i \in Counted, NEW j \in Counted, turns'[i][j] > 0
               PROVE  Drawn(i, j)' + Gone(j)' + per_q_wt'[i] + 0
                        <= wme_org_q'[i]
    BY <1>0 DEF BudgetInv, Choosing
  <2>1. Gone(j)' = Gone(j)
    BY <1>0 DEF Gone
  <2>2. per_q_wt[i] \in Nat /\ wme_org_q[i] \in Nat /\ Gone(j) \in Nat
    BY TurnTypes
  <2>3. QED
    BY <1>0, <1>7, <2>1, <2>2
<1>9. Proportional'
  <2> SUFFICES ASSUME NEW i \in Counted, NEW j \in Counted, turns'[i][j] > 0
               PROVE  (turns'[i][j] - 1) * wme_org_q[j] <= wme_org_q[i]
    BY <1>0 DEF Proportional
  <2>1. per_q_wt[i] \in Nat /\ wme_org_q[i] \in Nat /\ Gone(j) \in Nat
    BY TurnTypes
  <2>2. QED
    BY <1>7, <2>1
<1>11. QED
  BY <1>6, <1>8, <1>9 DEF CountsInv

\* A step that ends waits: the counts that are left are those there were.
LEMMA TurnsFewer ==
  ASSUME IInv, ~Updating, CountTurns, UNCHANGED contention,
         pc = "dequeue", pc' \notin {"adjust", "decide", "gate"}
  PROVE  CountsInv'
<1> CountsInv
  BY DEF IInv, TurnsInv
<1>1. \A q : ~Chosen(q)
  BY DEF Chosen
<1>2. turns' = [i \in Counted |-> [j \in Counted |->
                  IF i \notin Contenders' THEN 0 ELSE turns[i][j]]]
  <2>1. ~Updating'
    BY DEF Updating
  <2>2. QED
    BY <1>1, <2>1, Zenon DEF CountTurns
<1>4. \A i, j \in Counted : turns'[i][j] > 0 =>
                           i \in Contenders' /\ turns'[i][j] = turns[i][j]
  BY <1>2
<1>5. \A j \in EDCA : Gone(j)' = Gone(j)
  BY DEF Gone
<1>6. BudgetInv'
  <2> SUFFICES ASSUME NEW i \in Counted, NEW j \in Counted, turns'[i][j] > 0
               PROVE  Drawn(i, j)' + Gone(j)' + per_q_wt'[i] + 0
                        <= wme_org_q'[i]
    BY DEF BudgetInv, Choosing
  <2>1. Drawn(i, j)' = Drawn(i, j) /\ turns[i][j] > 0
    BY <1>4 DEF Drawn
  <2>2. Drawn(i, j) + Gone(j) + per_q_wt[i] + 0 <= wme_org_q[i]
    BY <2>1 DEF CountsInv, BudgetInv, Choosing
  <2>3. Gone(j)' = Gone(j)
    BY <1>5, TurnTypes
  <2>4. QED
    BY <2>1, <2>2, <2>3
<1>7. QED
  BY <1>4, <1>6 DEF CountsInv, ScanInv, Proportional

\* Who counts turns, and who changes the progress of an update.
LEMMA Updaters ==
  ASSUME [Next]_vars
  PROVE  \/ UNCHANGED update /\ (UNCHANGED turns \/ CountTurns)
         \/ core_wme_update
         \/ WmeStep
<1>1. CASE ThreadStep
  BY <1>1 DEF ThreadStep, Wake, LoadBeacon, NoBeacon, BeaconBreak, SelectMgmt,
      SelectBurst, Choose, Adjust, DecideAgain, DecideInvalid, DecideQueue,
      GateBlocked, GateFull, GatePass, Dequeue
<1>2. CASE EnvStep
  BY <1>2 DEF EnvStep, QueuePkt, schedule_pkt_for_tx, RxBeaconEvent,
      wlan_update_buf_status, StaDisconnected, StaConnected, ScanStart,
      TrafficTimer, BlockUnblock
<1>3. CASE UNCHANGED vars
  BY <1>3
<1>4. QED
  BY <1>1, <1>2, <1>3 DEF Next

\* From the start of an update of the parameters to its end nothing counts.
LEMMA NoTurns ==
  ASSUME IInv, [Next]_vars, Updating \/ Updating'
  PROVE  TurnsInv'
<1>1. SUFFICES \A i, j \in Counted : turns'[i][j] = 0
  BY <1>1 DEF TurnsInv, CountsInv, ScanInv, BudgetInv, Proportional
<1>2. ASSUME CountTurns, Updating'
      PROVE  \A i, j \in Counted : turns'[i][j] = 0
  <2>1. turns' = [i \in Counted |-> [j \in Counted |-> 0]]
    BY <1>2, Zenon DEF CountTurns
  <2>2. QED
    BY <2>1
<1>3. ASSUME UNCHANGED turns, Updating
      PROVE  \A i, j \in Counted : turns'[i][j] = 0
  BY <1>3 DEF IInv, TurnsInv
<1>4. CASE UNCHANGED update /\ (UNCHANGED turns \/ CountTurns)
  <2>1. Updating' = Updating
    BY <1>4 DEF Updating
  <2>2. QED
    BY <1>2, <1>3, <1>4, <2>1
<1>5. CASE core_wme_update
  <2>1. wme_next' = [q \in EDCA |-> "store"] /\ CountTurns
    BY <1>5 DEF core_wme_update
  <2>2. Updating'
    BY <2>1, Ranges DEF Updating
  <2>3. QED
    BY <1>2, <2>1, <2>2
<1>6. CASE WmeStep
  BY <1>3, <1>6, WmeQuiet
<1>7. QED
  BY <1>4, <1>5, <1>6, Updaters

\* Every step keeps the strengthening of the turns.
LEMMA TurnsStep ==
  ASSUME IInv, [Next]_vars
  PROVE  TurnsInv'
<1> SUFFICES ASSUME ~Updating, ~Updating'
             PROVE  CountsInv'
  BY NoTurns DEF TurnsInv
<1>0. /\ host_tx_queue \in [Queues -> Nat] /\ ChosenHasPacket /\ BurstInv
      /\ EDCA \subseteq Queues
  BY Ranges DEF IInv, TypeOK
<1>1. CASE ThreadStep
  <2>1. ASSUME UNCHANGED <<host_tx_queue, backoff>>,
               pc' \notin {"adjust", "decide", "gate"},
               pc = "decide" => host_tx_queue[q_num] = 0
        PROVE  CountsInv'
    <3>1. Contenders' = Contenders
      BY <2>1 DEF Contenders
    <3>2. QED
      BY <2>1, <3>1, TurnsQuiet
  <2>2. CASE Wake
    BY <2>1, <2>2 DEF Wake
  <2>3. CASE LoadBeacon \/ NoBeacon \/ BeaconBreak
    BY <2>1, <2>3 DEF LoadBeacon, NoBeacon, BeaconBreak
  <2>4. CASE SelectMgmt \/ SelectBurst
    <3>1. Contenders' = Contenders /\ UNCHANGED backoff /\ pc # "decide"
          /\ pc' = "gate"
      BY <2>4 DEF SelectMgmt, SelectBurst, Contenders
    <3>2. QED
      BY <3>1, TurnsQuiet
  <2>5. CASE Choose
    BY <2>5, TurnsChoose
  <2>6. CASE Adjust
    BY <2>6, TurnsAdjust
  <2>7. CASE DecideAgain \/ DecideInvalid
    BY <2>1, <2>7 DEF DecideAgain, DecideInvalid
  <2>8. CASE DecideQueue
    BY <2>8, TurnsDecide
  <2>9. CASE GateBlocked \/ GateFull \/ GatePass
    BY <2>1, <2>9 DEF GateBlocked, GateFull, GatePass
  <2>10. CASE Dequeue
    BY <2>10, TurnsFewer DEF Dequeue
  <2>11. QED
    BY <1>1, <2>2, <2>3, <2>4, <2>5, <2>6, <2>7, <2>8, <2>9, <2>10
       DEF ThreadStep
<1>2. CASE EnvStep
  <2>1. ASSUME UNCHANGED <<backoff, pc, q_num, min>>,
               Contenders \subseteq Contenders'
        PROVE  CountsInv'
    BY <2>1, TurnsQuiet
  <2>2. ASSUME NEW q \in Queues, Queue(q), UNCHANGED <<backoff, pc, q_num, min>>
        PROVE  CountsInv'
    <3>1. \A i \in EDCA : host_tx_queue[i] > 0 => host_tx_queue'[i] > 0
      BY <1>0, <2>2 DEF Queue
    <3>2. Contenders \subseteq Contenders'
      BY <2>2, <3>1 DEF Contenders
    <3>3. QED
      BY <2>1, <2>2, <3>2
  <2>3. CASE \E q \in Queues : QueuePkt(q)
    BY <2>2, <2>3 DEF QueuePkt
  <2>4. CASE StaDisconnected \/ StaConnected \/ ScanStart \/ TrafficTimer
    BY <2>2, <2>4, Ranges DEF StaDisconnected, StaConnected, ScanStart,
                              TrafficTimer, BlockUnblock
  <2>5. CASE schedule_pkt_for_tx
    BY <2>1, <2>5 DEF schedule_pkt_for_tx, Contenders
  <2>6. CASE RxBeaconEvent
    BY <2>1, <2>6 DEF RxBeaconEvent, Contenders
  <2>7. CASE wlan_update_buf_status
    BY <2>1, <2>7 DEF wlan_update_buf_status, Contenders
  <2>8. CASE core_wme_update \/ WmeStep
    <3>1. core_wme_update => Updating'
      BY Ranges DEF core_wme_update, Updating
    <3>2. QED
      BY <2>8, <3>1, WmeQuiet
  <2>9. QED
    BY <1>2, <2>3, <2>4, <2>5, <2>6, <2>7, <2>8 DEF EnvStep
<1>3. CASE UNCHANGED vars
  <2>1. Contenders' = Contenders
    BY <1>3 DEF Contenders
  <2>2. QED
    BY <1>3, <2>1, TurnsQuiet
<1>4. QED
  BY <1>1, <1>2, <1>3 DEF Next

-----------------------------------------------------------------------------
\* The strengthening is an inductive invariant.
THEOREM Inductive == Spec => []IInv
<1>1. Init => IInv
  <2> SUFFICES ASSUME Init PROVE IInv
    OBVIOUS
  <2>1. /\ wme_org_q \in [EDCA -> Weight] /\ per_q_wt \in [EDCA -> Weight]
        /\ wme_new \in [EDCA -> Weight] /\ updates \in Nat
        /\ wme_next \in [EDCA -> {"store", "copy", "clear", "done"}]
    BY ConstantsAssumption DEF Init
  <2>2. TypeOK
    <3>1. host_tx_queue \in [Queues -> Nat] /\ pkt_contended \in [EDCA -> BOOLEAN]
      BY DEF Init
    <3>2. selected_qnum \in EDCA /\ q_num \in Queues /\ min \in Weight
      BY Ranges DEF Init
    <3>3. pkt_cnt \in 0 .. 255 /\ to_signal \in Nat
      BY DEF Init
    <3>4. turns \in [Counted -> [Counted -> Nat]]
      BY DEF Init
    <3>5. QED
      BY <2>1, <3>1, <3>2, <3>3, <3>4 DEF Init, TypeOK
  <2>3. /\ host_tx_queue = [q \in Queues |-> 0]
        /\ beacon_event = FALSE /\ pc = "idle" /\ left = "empty" /\ pkt_cnt = 0
    BY DEF Init
  <2>4. TurnsInv /\ WeightsInv
    <3>1. \A i, j \in Counted : turns[i][j] = 0
      BY DEF Init
    <3>2. pc = "idle" /\ \A i \in EDCA : pkt_contended[i] = FALSE
      BY DEF Init
    <3>3. QED
      BY <3>1, <3>2 DEF TurnsInv, CountsInv, ScanInv, BudgetInv, Proportional,
                             WeightsInv
  <2>5. QED
    BY <2>2, <2>3, <2>4 DEF IInv, ChosenHasPacket, SleepsWithReason, BurstInv, SeenInv
<1>2. IInv /\ [Next]_vars => IInv'
  BY TypeStep, ChosenStep, BurstStep, SeenStep, SleepStep, WeightsStep,
     TurnsStep DEF IInv
<1>3. QED
  BY <1>1, <1>2, PTL DEF Spec

\* Every variable keeps its type; the remainder of a burst and the back-offs
\* fit the uint8 they are kept or compared in.
THEOREM TypeCorrect == Spec => []TypeOK
<1>1. IInv => TypeOK
  BY DEF IInv
<1>2. QED
  BY <1>1, Inductive, PTL

\* The queue that core_determine_hal_queue returns is never empty, although
\* it counts a burst down without looking and producers run in between.
THEOREM NeverNull == Spec => []ChosenHasPacket
<1>1. IInv => ChosenHasPacket
  BY DEF IInv
<1>2. QED
  BY <1>1, Inductive, PTL

\* No wake-up is lost between the producers, the device and the thread.
THEOREM NoLostWakeup == Spec => []SleepsWithReason
<1>1. IInv => SleepsWithReason
  BY DEF IInv
<1>2. QED
  BY <1>1, Inductive, PTL

\* However the packets come, a category has at most as many turns before a
\* queue that waits as their back-offs allow, for every WME update.
THEOREM ProportionalTheorem == Spec => []Proportional
<1>1. IInv => Proportional
  BY DEF IInv, TurnsInv, CountsInv
<1>2. QED
  BY <1>1, Inductive, PTL
=============================================================================
