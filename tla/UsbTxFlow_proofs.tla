-------------------------- MODULE UsbTxFlow_proofs --------------------------
(***************************************************************************)
(* Proofs about UsbTxFlow, for every size of the ring, every number of     *)
(* packets and either fault.  IInv is inductive.  NextBlockFree rests on   *)
(* RingInv: the blocks in use lie in a row behind write_urb, and the limit *)
(* BUFFER_FULL leaves a block for the ack that does not look at the count; *)
(* the count covers the bus because the handler counts down last.          *)
(***************************************************************************)
EXTENDS UsbTxFlow, TLAPS

USE ConstantsAssumption
USE DEF Slots, NoSlot, BUFFER_FREE, ring, source, coex, vars

-----------------------------------------------------------------------------
\* What a write may do to the ring: the block it takes is one of the ring's,
\* the count goes up by one when a block is submitted, and never down.
LEMMA WriteEffect ==
  ASSUME TypeOK, Write
  PROVE  /\ urb_in_use' \in [Slots -> BOOLEAN] /\ write_urb' \in Slots
         /\ tx_pending_urb_cnt' \in Nat /\ write_fail' \in BOOLEAN
         /\ inflight' \in Seq(Slots)
         /\ tx_pending_urb_cnt' - Len(inflight') >= tx_pending_urb_cnt - Len(inflight)
<1> USE DEF TypeOK
<1>1. Next1(write_urb) \in Slots
  BY DEF Next1
<1>2. Taken \subseteq Slots
  BY <1>1 DEF Taken, Found
<1>3. CASE NotWritten
  BY <1>3, <1>1 DEF NotWritten
<1>4. ASSUME NEW s \in Taken, Submit(s) PROVE
         /\ urb_in_use' \in [Slots -> BOOLEAN] /\ write_urb' \in Slots
         /\ tx_pending_urb_cnt' \in Nat /\ write_fail' \in BOOLEAN
         /\ inflight' \in Seq(Slots)
         /\ tx_pending_urb_cnt' - Len(inflight') >= tx_pending_urb_cnt - Len(inflight)
  <2>1. s \in Slots
    BY <1>2, <1>4
  <2>2. urb_in_use' \in [Slots -> BOOLEAN] /\ write_urb' \in Slots
        /\ tx_pending_urb_cnt' = tx_pending_urb_cnt + 1
    BY <2>1, <1>4 DEF Submit
  <2>3. CASE inflight' = Append(inflight, s) /\ write_fail' = write_fail
    <3>1. inflight' \in Seq(Slots) /\ Len(inflight') = Len(inflight) + 1
      BY <2>1, <2>3
    <3>2. QED
      BY <3>1, <2>2, <2>3
  <2>4. CASE inflight' = inflight /\ write_fail' = TRUE
    BY <2>2, <2>4
  <2>5. QED
    BY <2>3, <2>4, <1>4 DEF Submit
<1>5. QED
  BY <1>3, <1>4 DEF Write

\* The WLAN thread and the coex thread write alike.
LEMMA Writers ==
  ASSUME WlanBeacon \/ WlanMcastWrite \/ WlanWrite \/ AckWrite
  PROVE  Write
BY DEF WlanBeacon, WlanMcastWrite, WlanWrite, AckWrite, Write

\* The handler takes the oldest block off the bus.
LEMMA Completed ==
  ASSUME TypeOK, DoneBlock
  PROVE  /\ Head(inflight) \in Slots
         /\ inflight' \in Seq(Slots)
         /\ Len(inflight) = Len(inflight') + 1
<1>1. inflight \in Seq(Slots) /\ inflight # << >> /\ inflight' = Tail(inflight)
  BY DEF DoneBlock, TypeOK
<1>2. QED
  BY <1>1

-----------------------------------------------------------------------------
\* Every step keeps the types.
LEMMA TypeStep ==
  ASSUME FlowInv, [Next]_vars
  PROVE  TypeOK'
<1> USE DEF FlowInv, TypeOK
<1>1. CASE WlanWake \/ WlanTop \/ WlanMcast \/ WlanLoop \/ WlanStop
  BY <1>1 DEF WlanWake, WlanTop, WlanMcast, WlanLoop, WlanStop
<1>2. CASE WlanBeacon
  BY <1>2, Writers, WriteEffect DEF WlanBeacon
<1>3. CASE WlanMcastWrite
  BY <1>3, Writers, WriteEffect DEF WlanMcastWrite
<1>4. CASE WlanWrite
  BY <1>4, Writers, WriteEffect DEF WlanWrite
<1>5. CASE WlanDrop
  BY <1>5 DEF WlanDrop
<1>6. CASE DoneBlock
  BY <1>6, Completed DEF DoneBlock
<1>7. CASE DoneCount
  <2>1. Len(inflight) \in Nat
    OBVIOUS
  <2>2. tx_pending_urb_cnt - 1 \in Nat
    BY <1>7, <2>1 DEF DoneCount
  <2>3. QED
    BY <1>7, <2>2 DEF DoneCount
<1>8. CASE DoneRestart
  BY <1>8 DEF DoneRestart
<1>9. CASE AckWrite
  <2>1. ack_slot' \in Slots \cup {NoSlot}
    <3>1. Taken \subseteq Slots
      BY DEF Taken, Found, Next1
    <3>2. QED
      BY <1>9, <3>1 DEF AckWrite
  <2>2. QED
    BY <1>9, <2>1, Writers, WriteEffect DEF AckWrite
<1>10. CASE AckCheckType
  BY <1>10 DEF AckCheckType
<1>11. CASE QueuePkt
  BY <1>11 DEF QueuePkt
<1>12. CASE RxBeaconEvent
  BY <1>12 DEF RxBeaconEvent
<1>13. CASE UNCHANGED vars
  BY <1>13
<1>14. QED
  BY <1>1, <1>2, <1>3, <1>4, <1>5, <1>6, <1>7, <1>8, <1>9, <1>10, <1>11,
     <1>12, <1>13
     DEF Next, WlanStep, HandlerStep, CoexStep

\* A block that is on the bus, or that the handler has yet to count off, is in
\* the count: only the handler counts down, and by what it took off the bus.
CountInv == tx_pending_urb_cnt >= Len(inflight) + (IF hpc = "dec" THEN 1 ELSE 0)

LEMMA CountStep ==
  ASSUME FlowInv, [Next]_vars
  PROVE  CountInv'
<1> USE DEF CountInv
<1>1. TypeOK /\ CountInv /\ Len(inflight) \in Nat /\ tx_pending_urb_cnt \in Nat
  BY DEF FlowInv, TypeOK
<1>2. CASE WlanBeacon \/ WlanMcastWrite \/ WlanWrite \/ AckWrite
  <2>1. hpc' = hpc
    BY <1>2 DEF WlanBeacon, WlanMcastWrite, WlanWrite, AckWrite
  <2>2. inflight' \in Seq(Slots) /\ tx_pending_urb_cnt' \in Nat
        /\ tx_pending_urb_cnt' - Len(inflight') >= tx_pending_urb_cnt - Len(inflight)
    BY <1>1, <1>2, Writers, WriteEffect
  <2>3. Len(inflight') \in Nat
    BY <2>2
  <2>4. QED
    BY <1>1, <2>1, <2>2, <2>3
<1>3. CASE DoneBlock
  <2>1. Len(inflight) = Len(inflight') + 1 /\ Len(inflight') \in Nat
    BY <1>1, <1>3, Completed
  <2>2. tx_pending_urb_cnt' = tx_pending_urb_cnt /\ hpc = "idle"
    BY <1>3 DEF DoneBlock
  <2>3. QED
    BY <1>1, <2>1, <2>2
<1>4. CASE DoneCount
  BY <1>1, <1>4 DEF DoneCount
<1>5. CASE DoneRestart
  BY <1>1, <1>5 DEF DoneRestart
<1>6. UNCHANGED <<tx_pending_urb_cnt, inflight, hpc>> => CountInv'
  BY <1>1
<1>7. CASE WlanWake \/ WlanTop \/ WlanMcast \/ WlanLoop \/ WlanStop \/ WlanDrop
  BY <1>6, <1>7 DEF WlanWake, WlanTop, WlanMcast, WlanLoop, WlanStop, WlanDrop
<1>8. CASE AckCheckType \/ QueuePkt \/ RxBeaconEvent \/ UNCHANGED vars
  BY <1>6, <1>8 DEF AckCheckType, QueuePkt, RxBeaconEvent
<1>9. QED
  BY <1>2, <1>3, <1>4, <1>5, <1>7, <1>8 DEF Next, WlanStep, HandlerStep,
     CoexStep

\* The thread goes to sleep only over empty queues, or after it set the flag,
\* or with a signal on its way; who clears the flag or queues more signals it.
WakeInv ==
    /\ StoppedIsPending
    /\ wpc = "mwrite" => mcast_left > 0
    /\ wpc = "write" => queue > 0
    /\ beacon_event /\ wpc \notin {"idle", "top", "stop"} => scheduler_event

LEMMA WakeStep ==
  ASSUME FlowInv, [Next]_vars
  PROVE  WakeInv'
<1> USE DEF WakeInv, StoppedIsPending, Stopped, Asleep
<1>1. TypeOK /\ WakeInv
  BY DEF FlowInv
<1>2. CASE WlanWake
  BY <1>1, <1>2 DEF WlanWake
<1>3. CASE WlanTop
  BY <1>1, <1>3 DEF WlanTop
<1>4. CASE WlanBeacon
  BY <1>1, <1>4 DEF WlanBeacon
<1>5. CASE WlanMcast
  BY <1>1, <1>5 DEF WlanMcast, TypeOK
<1>6. CASE WlanMcastWrite
  BY <1>1, <1>6 DEF WlanMcastWrite
<1>7. CASE WlanLoop
  BY <1>1, <1>7 DEF WlanLoop, TypeOK
<1>8. CASE WlanStop
  BY <1>1, <1>8 DEF WlanStop
<1>9. CASE WlanWrite \/ WlanDrop
  BY <1>1, <1>9 DEF WlanWrite, WlanDrop
<1>10. CASE DoneBlock \/ DoneCount
  BY <1>1, <1>10 DEF DoneBlock, DoneCount
<1>11. CASE DoneRestart
  BY <1>1, <1>11 DEF DoneRestart
<1>12. CASE AckWrite \/ AckCheckType
  BY <1>1, <1>12 DEF AckWrite, AckCheckType
<1>13. CASE QueuePkt \/ RxBeaconEvent
  BY <1>1, <1>13 DEF QueuePkt, RxBeaconEvent, TypeOK
<1>14. CASE UNCHANGED vars
  BY <1>1, <1>14
<1>15. QED
  BY <1>2, <1>3, <1>4, <1>5, <1>6, <1>7, <1>8, <1>9, <1>10, <1>11, <1>12,
     <1>13, <1>14 DEF Next, WlanStep, HandlerStep, CoexStep

-----------------------------------------------------------------------------
\* The ring.

\* The index after the last is the first.
LEMMA NextIndex ==
  ASSUME NEW w \in Slots
  PROVE  Next1(w) = IF w + 1 = MAX_TX_URB THEN 0 ELSE w + 1
<1>1. CASE w + 1 = MAX_TX_URB
  BY <1>1 DEF Next1
<1>2. CASE w + 1 # MAX_TX_URB
  <2>1. 0 <= w + 1 /\ w + 1 < MAX_TX_URB
    BY <1>2
  <2>2. QED
    BY <1>2, <2>1 DEF Next1
<1>3. QED
  BY <1>1, <1>2

\* The block that lies k places behind write_urb.
Behind(w, k) == IF k <= w THEN w - k ELSE w - k + MAX_TX_URB

OnBusUsed == \A i \in DOMAIN inflight :
                /\ urb_in_use[inflight[i]]
                /\ \A j \in DOMAIN inflight : inflight[i] = inflight[j] => i = j
UsedOnBus == \A s \in Slots : urb_in_use[s] => \E i \in DOMAIN inflight : inflight[i] = s
InARow    == \A i \in DOMAIN inflight : inflight[i] = Behind(write_urb, Len(inflight) - i)
Bounded   == Len(inflight) + (IF Writing THEN 1 ELSE 0)
                 <= BUFFER_FULL + (IF ack_slot = NoSlot THEN 0 ELSE 1)

LEMMA RingParts ==
  /\ RingInv  <=> /\ OnBusUsed /\ (~write_fail => UsedOnBus)
                  /\ (~write_fail => InARow) /\ Bounded
  /\ RingInv' <=> /\ OnBusUsed' /\ (~write_fail' => UsedOnBus')
                  /\ (~write_fail' => InARow') /\ Bounded'
BY DEF RingInv, OnBusUsed, UsedOnBus, InARow, Bounded, Behind

\* With a block to spare, the next block is not on the bus, so it is free.
LEMMA NextFree ==
  ASSUME TypeOK, UsedOnBus, InARow, Len(inflight) < MAX_TX_URB
  PROVE  ~urb_in_use[Next1(write_urb)]
<1> DEFINE s == Next1(write_urb)
<1>1. /\ write_urb \in Slots /\ inflight \in Seq(Slots)
      /\ s = IF write_urb + 1 = MAX_TX_URB THEN 0 ELSE write_urb + 1
  BY NextIndex DEF TypeOK
<1> HIDE DEF s
<1>2. s \in Slots
  BY <1>1
<1>3. SUFFICES ASSUME NEW i \in DOMAIN inflight, inflight[i] = s
               PROVE  FALSE
  BY <1>2 DEF UsedOnBus, s
<1>4. Len(inflight) - i \in 0 .. MAX_TX_URB - 2
  BY <1>1
<1>5. Behind(write_urb, Len(inflight) - i) = s
  BY <1>3 DEF InARow
<1>6. QED
  BY <1>1, <1>4, <1>5, SMTT(30) DEF Behind

\* Whoever may write finds a block to spare.
LEMMA RoomToWrite ==
  ASSUME TypeOK, Bounded, Writing \/ AckDue
  PROVE  Len(inflight) < MAX_TX_URB
<1>1. Len(inflight) \in Nat
  BY DEF TypeOK
<1>2. QED
  BY <1>1 DEF Bounded, AckDue

\* So a write takes the next block, and no other.
LEMMA NextTaken ==
  ASSUME TypeOK, UsedOnBus, InARow, Bounded, Writing \/ AckDue
  PROVE  /\ Next1(write_urb) \in Slots
         /\ Taken = {Next1(write_urb)}
         /\ ~urb_in_use[Next1(write_urb)]
<1>1. Next1(write_urb) \in Slots
  BY NextIndex, SMTT(30) DEF TypeOK
<1>2. ~urb_in_use[Next1(write_urb)]
  BY RoomToWrite, NextFree
<1>3. QED
  BY <1>1, <1>2 DEF Taken

\* A write into the next block keeps the blocks in a row.
LEMMA WriteKeepsRing ==
  ASSUME TypeOK, UsedOnBus, InARow, Len(inflight) < MAX_TX_URB, ~write_fail,
         Write, ~write_fail'
  PROVE  UsedOnBus' /\ InARow'
<1> DEFINE s == Next1(write_urb)
<1>1. s \in Slots
  BY NextIndex, SMTT(30) DEF TypeOK
<1>2. Taken = {s}
  BY NextFree DEF Taken
<1>3. urb_in_use' = [urb_in_use EXCEPT ![s] = TRUE] /\ write_urb' = s
      /\ inflight' = Append(inflight, s)
  <2>1. Submit(s)
    BY <1>2 DEF Write, NotWritten
  <2>2. QED
    BY <2>1 DEF Submit
<1> HIDE DEF s
<1>4. inflight \in Seq(Slots) /\ Len(inflight') = Len(inflight) + 1
      /\ DOMAIN inflight' = 1 .. Len(inflight) + 1
      /\ inflight'[Len(inflight) + 1] = s
      /\ \A i \in DOMAIN inflight : i \in DOMAIN inflight' /\ inflight'[i] = inflight[i]
  BY <1>1, <1>3 DEF TypeOK
<1>5. UsedOnBus'
  <2> SUFFICES ASSUME NEW t \in Slots, urb_in_use'[t]
               PROVE  \E i \in DOMAIN inflight' : inflight'[i] = t
    BY DEF UsedOnBus
  <2>1. CASE t = s
    BY <1>4, <2>1 DEF TypeOK
  <2>2. CASE t # s
    <3>1. urb_in_use[t]
      BY <1>1, <1>3, <2>2 DEF TypeOK
    <3>2. PICK i \in DOMAIN inflight : inflight[i] = t
      BY <3>1 DEF UsedOnBus
    <3>3. QED
      BY <1>4, <3>2
  <2>3. QED
    BY <2>1, <2>2
<1>6. InARow'
  <2> SUFFICES ASSUME NEW i \in DOMAIN inflight'
               PROVE  inflight'[i] = Behind(write_urb', Len(inflight') - i)
    BY DEF InARow
  <2>1. write_urb \in Slots /\ s = IF write_urb + 1 = MAX_TX_URB THEN 0 ELSE write_urb + 1
    BY NextIndex DEF TypeOK, s
  <2>2. CASE i = Len(inflight) + 1
    BY <1>1, <1>3, <1>4, <2>2 DEF Behind
  <2>3. CASE i # Len(inflight) + 1
    <3>1. i \in DOMAIN inflight /\ i \in 1 .. Len(inflight)
      BY <1>4, <2>3
    <3>2. inflight'[i] = Behind(write_urb, Len(inflight) - i)
      BY <1>4, <3>1 DEF InARow
    <3>3. \A k \in 0 .. MAX_TX_URB - 2 : Behind(write_urb, k) = Behind(s, k + 1)
      BY <2>1 DEF Behind
    <3>4. Len(inflight) - i \in 0 .. MAX_TX_URB - 2
          /\ Len(inflight') - i = (Len(inflight) - i) + 1
      BY <1>4, <3>1
    <3>5. QED
      BY <1>3, <3>2, <3>3, <3>4
  <2>4. QED
    BY <2>2, <2>3
<1>7. QED
  BY <1>5, <1>6

\* A completion takes the first block of the row.
LEMMA DoneKeepsRing ==
  ASSUME TypeOK, UsedOnBus, InARow, DoneBlock
  PROVE  UsedOnBus' /\ InARow'
<1>1. inflight \in Seq(Slots) /\ inflight # << >> /\ inflight' = Tail(inflight)
      /\ write_urb' = write_urb
      /\ urb_in_use' = [urb_in_use EXCEPT ![Head(inflight)] = FALSE]
  BY DEF DoneBlock, TypeOK
<1>2. Len(inflight') = Len(inflight) - 1 /\ Head(inflight) = inflight[1]
      /\ \A i \in 1 .. Len(inflight) - 1 : inflight'[i] = inflight[i + 1]
      /\ DOMAIN inflight' = 1 .. Len(inflight) - 1
  BY <1>1
<1>3. UsedOnBus'
  <2> SUFFICES ASSUME NEW t \in Slots, urb_in_use'[t]
               PROVE  \E i \in DOMAIN inflight' : inflight'[i] = t
    BY DEF UsedOnBus
  <2>1. t # Head(inflight) /\ urb_in_use[t]
    BY <1>1 DEF TypeOK
  <2>2. PICK i \in DOMAIN inflight : inflight[i] = t
    BY <2>1 DEF UsedOnBus
  <2>3. i - 1 \in 1 .. Len(inflight) - 1
    BY <1>1, <1>2, <2>1, <2>2
  <2>4. inflight'[i - 1] = t
    BY <1>2, <2>2, <2>3
  <2>5. QED
    BY <1>2, <2>3, <2>4
<1>4. InARow'
  BY <1>1, <1>2 DEF InARow
<1>5. QED
  BY <1>3, <1>4

\* A block that is submitted was free, so it is on the bus once.
LEMMA SubmitUsesOnce ==
  ASSUME TypeOK, OnBusUsed, NEW s \in Slots, ~urb_in_use[s],
         urb_in_use' = [urb_in_use EXCEPT ![s] = TRUE],
         inflight' = Append(inflight, s) \/ inflight' = inflight
  PROVE  OnBusUsed'
<1>1. inflight \in Seq(Slots) /\ DOMAIN inflight = 1 .. Len(inflight)
      /\ Len(inflight) \in Nat
  BY DEF TypeOK
<1>2. \A i \in DOMAIN inflight : inflight[i] # s /\ inflight[i] \in Slots
  BY <1>1 DEF OnBusUsed
<1>3. \A t \in Slots : urb_in_use'[t] = (t = s \/ urb_in_use[t])
  BY DEF TypeOK
<1>4. CASE inflight' = inflight
  BY <1>2, <1>3, <1>4 DEF OnBusUsed
<1>5. CASE inflight' = Append(inflight, s)
  <2>1. /\ DOMAIN inflight' = 1 .. Len(inflight) + 1
        /\ inflight'[Len(inflight) + 1] = s
        /\ \A i \in DOMAIN inflight : inflight'[i] = inflight[i]
    BY <1>1, <1>5
  <2>2. SUFFICES ASSUME NEW i \in DOMAIN inflight'
                 PROVE  /\ urb_in_use'[inflight'[i]]
                        /\ \A j \in DOMAIN inflight' : inflight'[i] = inflight'[j] => i = j
    BY DEF OnBusUsed
  <2>3. CASE i = Len(inflight) + 1
    <3>1. inflight'[i] = s /\ urb_in_use'[s]
      BY <1>3, <2>1, <2>3
    <3>2. \A j \in DOMAIN inflight' : j \in DOMAIN inflight \/ j = i
      BY <1>1, <2>1, <2>3
    <3>3. \A j \in DOMAIN inflight : inflight'[j] # s
      BY <1>2, <2>1
    <3>4. QED
      BY <3>1, <3>2, <3>3
  <2>4. CASE i \in DOMAIN inflight
    <3>1. urb_in_use'[inflight'[i]]
      BY <1>2, <1>3, <2>1, <2>4 DEF OnBusUsed
    <3>2. \A j \in DOMAIN inflight' : inflight'[i] = inflight'[j] => j \in DOMAIN inflight
      BY <1>1, <1>2, <2>1, <2>4
    <3>3. QED
      BY <2>1, <2>4, <3>1, <3>2 DEF OnBusUsed
  <2>5. QED
    BY <1>1, <2>1, <2>3, <2>4
<1>6. QED
  BY <1>4, <1>5

\* A completion frees the oldest block, which the others are not.
LEMMA DoneFreesOne ==
  ASSUME TypeOK, OnBusUsed, DoneBlock
  PROVE  OnBusUsed'
<1>1. inflight \in Seq(Slots) /\ inflight # << >> /\ inflight' = Tail(inflight)
      /\ urb_in_use' = [urb_in_use EXCEPT ![Head(inflight)] = FALSE]
  BY DEF DoneBlock, TypeOK
<1>2. /\ Head(inflight) = inflight[1] /\ 1 \in DOMAIN inflight
      /\ DOMAIN inflight = 1 .. Len(inflight) /\ Len(inflight) \in Nat
      /\ \A i \in 1 .. Len(inflight) - 1 : inflight'[i] = inflight[i + 1]
      /\ DOMAIN inflight' = 1 .. Len(inflight) - 1
  BY <1>1
<1>3. \A i \in DOMAIN inflight' : i \in Nat \ {0} /\ i + 1 \in DOMAIN inflight
  BY <1>2
<1>4. \A i, j \in DOMAIN inflight' : inflight'[i] = inflight'[j] => i + 1 = j + 1
  BY <1>2, <1>3 DEF OnBusUsed
<1>5. \A i \in DOMAIN inflight' : inflight'[i] # Head(inflight)
  <2>1. TAKE i \in DOMAIN inflight'
  <2>2. inflight'[i] = inflight[i + 1] /\ i + 1 \in DOMAIN inflight /\ i + 1 # 1
    BY <1>2, <1>3
  <2>3. QED
    BY <1>2, <2>2 DEF OnBusUsed
<1>6. \A i \in DOMAIN inflight' : urb_in_use'[inflight'[i]]
  <2>1. TAKE i \in DOMAIN inflight'
  <2>2. inflight'[i] = inflight[i + 1] /\ urb_in_use[inflight[i + 1]]
        /\ inflight[i + 1] \in Slots
    BY <1>1, <1>2, <1>3 DEF OnBusUsed
  <2>3. QED
    BY <1>1, <1>5, <2>2 DEF TypeOK
<1>7. QED
  BY <1>3, <1>4, <1>6 DEF OnBusUsed

LEMMA BoundedStep ==
  ASSUME FlowInv, Bounded, [Next]_vars
  PROVE  Bounded'
<1> USE DEF Bounded, Writing
<1>1. TypeOK /\ Len(inflight) \in Nat /\ tx_pending_urb_cnt >= Len(inflight)
      /\ tx_pending_urb_cnt \in Nat
  BY DEF FlowInv, TypeOK
<1>2. ASSUME Write PROVE Len(inflight') \in Nat /\ Len(inflight') <= Len(inflight) + 1
  <2>1. inflight' = inflight \/ \E s \in Taken : inflight' = Append(inflight, s)
    BY <1>2 DEF Write, NotWritten, Submit
  <2>2. QED
    BY <1>1, <2>1, <1>2, WriteEffect DEF TypeOK
<1>3. CASE WlanBeacon \/ WlanMcastWrite \/ WlanWrite
  <2>1. Writing /\ ~Writing' /\ ack_slot' = ack_slot
    BY <1>3 DEF WlanBeacon, WlanMcastWrite, WlanWrite
  <2>2. QED
    BY <1>1, <1>2, <1>3, <2>1, Writers
<1>4. CASE AckWrite
  <2>1. wpc' = wpc /\ ack_slot = NoSlot
        /\ \/ inflight' = inflight /\ ack_slot' = NoSlot
           \/ ack_slot' # NoSlot
    <3>1. Taken \subseteq Slots
      BY <1>1, NextIndex, SMTT(30) DEF Taken, Found, TypeOK
    <3>2. QED
      BY <1>4, <3>1 DEF AckWrite, AckDue, Submit, NotWritten
  <2>2. QED
    BY <1>1, <1>2, <1>4, <2>1, Writers
<1>5. CASE DoneBlock
  <2>1. Len(inflight) = Len(inflight') + 1 /\ Len(inflight') \in Nat
    BY <1>1, <1>5, Completed
  <2>2. wpc' = wpc /\ (ack_slot' = ack_slot \/ ack_slot' = NoSlot)
    BY <1>5 DEF DoneBlock
  <2>3. QED
    BY <1>1, <2>1, <2>2
<1>6. CASE WlanTop \/ WlanMcast \/ WlanLoop
  BY <1>1, <1>6 DEF WlanTop, WlanMcast, WlanLoop, Full
<1>7. UNCHANGED <<inflight, ack_slot>> /\ (Writing' => Writing) => Bounded'
  BY <1>1
<1>8. CASE WlanWake \/ WlanStop \/ WlanDrop
  BY <1>7, <1>8 DEF WlanWake, WlanStop, WlanDrop
<1>9. CASE DoneCount \/ DoneRestart
  BY <1>7, <1>9 DEF DoneCount, DoneRestart
<1>10. CASE AckCheckType \/ QueuePkt \/ RxBeaconEvent \/ UNCHANGED vars
  BY <1>7, <1>10 DEF AckCheckType, QueuePkt, RxBeaconEvent
<1>11. QED
  BY <1>3, <1>4, <1>5, <1>6, <1>8, <1>9, <1>10
     DEF Next, WlanStep, HandlerStep, CoexStep

LEMMA RingStep ==
  ASSUME IInv, [Next]_vars
  PROVE  RingInv'
<1>1. FlowInv /\ TypeOK /\ Bounded /\ OnBusUsed
      /\ (~write_fail => UsedOnBus /\ InARow)
  BY RingParts DEF IInv, FlowInv
<1>2. Bounded'
  BY <1>1, BoundedStep
<1>3. ASSUME ~write_fail' PROVE UsedOnBus' /\ InARow'
  <2>1. CASE WlanBeacon \/ WlanMcastWrite \/ WlanWrite \/ AckWrite
    <3>1. Write /\ (Writing \/ AckDue)
      BY <2>1, Writers DEF WlanBeacon, WlanMcastWrite, WlanWrite, AckWrite,
         Writing
    <3>2. ~write_fail
      BY <1>1, <1>3, <3>1 DEF Write, NotWritten, TypeOK
    <3>3. QED
      BY <1>1, <1>3, <3>1, <3>2, RoomToWrite, WriteKeepsRing
  <2>2. CASE DoneBlock
    <3>1. ~write_fail
      BY <1>1, <1>3, <2>2 DEF DoneBlock, TypeOK
    <3>2. QED
      BY <1>1, <2>2, <3>1, DoneKeepsRing
  <2>3. UNCHANGED <<urb_in_use, write_urb, inflight, write_fail>>
            => UsedOnBus' /\ InARow'
    BY <1>1, <1>3 DEF UsedOnBus, InARow
  <2>4. CASE WlanWake \/ WlanTop \/ WlanMcast \/ WlanLoop \/ WlanStop \/ WlanDrop
    BY <2>3, <2>4 DEF WlanWake, WlanTop, WlanMcast, WlanLoop, WlanStop, WlanDrop
  <2>5. CASE DoneCount \/ DoneRestart
    BY <2>3, <2>5 DEF DoneCount, DoneRestart
  <2>6. CASE AckCheckType \/ QueuePkt \/ RxBeaconEvent \/ UNCHANGED vars
    BY <2>3, <2>6 DEF AckCheckType, QueuePkt, RxBeaconEvent
  <2>7. QED
    BY <2>1, <2>2, <2>4, <2>5, <2>6 DEF Next, WlanStep, HandlerStep, CoexStep
<1>4. OnBusUsed'
  <2>1. CASE WlanBeacon \/ WlanMcastWrite \/ WlanWrite \/ AckWrite
    <3>1. Write /\ (Writing \/ AckDue)
      BY <2>1, Writers DEF WlanBeacon, WlanMcastWrite, WlanWrite, AckWrite,
         Writing
    <3>2. CASE NotWritten
      BY <1>1, <3>2 DEF NotWritten, OnBusUsed
    <3>3. CASE ~write_fail /\ \E s \in Taken : Submit(s)
      <4>1. /\ Next1(write_urb) \in Slots /\ Taken = {Next1(write_urb)}
            /\ ~urb_in_use[Next1(write_urb)]
        BY <1>1, <3>1, <3>3, NextTaken
      <4>2. Submit(Next1(write_urb))
        BY <3>3, <4>1
      <4>3. QED
        BY <1>1, <4>1, <4>2, SubmitUsesOnce DEF Submit
    <3>4. QED
      BY <3>1, <3>2, <3>3 DEF Write
  <2>2. CASE DoneBlock
    BY <1>1, <2>2, DoneFreesOne
  <2>3. UNCHANGED <<urb_in_use, inflight>> => OnBusUsed'
    BY <1>1 DEF OnBusUsed
  <2>4. CASE WlanWake \/ WlanTop \/ WlanMcast \/ WlanLoop \/ WlanStop \/ WlanDrop
    BY <2>3, <2>4 DEF WlanWake, WlanTop, WlanMcast, WlanLoop, WlanStop, WlanDrop
  <2>5. CASE DoneCount \/ DoneRestart
    BY <2>3, <2>5 DEF DoneCount, DoneRestart
  <2>6. CASE AckCheckType \/ QueuePkt \/ RxBeaconEvent \/ UNCHANGED vars
    BY <2>3, <2>6 DEF AckCheckType, QueuePkt, RxBeaconEvent
  <2>7. QED
    BY <2>1, <2>2, <2>4, <2>5, <2>6 DEF Next, WlanStep, HandlerStep, CoexStep
<1>5. QED
  BY <1>2, <1>3, <1>4, RingParts

-----------------------------------------------------------------------------
\* The strengthening is an inductive invariant.
THEOREM Inductive == Spec => []IInv
<1>1. Init => IInv
  <2> SUFFICES ASSUME Init PROVE IInv
    OBVIOUS
  <2>1. inflight = << >> /\ Len(inflight) = 0 /\ DOMAIN inflight = {}
    BY DEF Init
  <2>2. TypeOK
    <3>1. inflight \in Seq(Slots) /\ urb_in_use \in [Slots -> BOOLEAN]
      BY DEF Init
    <3>2. write_urb \in Slots /\ mcast_left \in 0 .. McastMax
      BY DEF Init
    <3>3. QED
      BY <3>1, <3>2 DEF Init, TypeOK
  <2>3. FlowInv
    BY <2>1, <2>2 DEF Init, FlowInv, StoppedIsPending, Stopped, Asleep
  <2>4. RingInv
    BY <2>1 DEF Init, RingInv, Writing
  <2>5. QED
    BY <2>3, <2>4 DEF IInv
<1>2. IInv /\ [Next]_vars => IInv'
  BY TypeStep, CountStep, WakeStep, RingStep DEF IInv, FlowInv, CountInv,
     WakeInv
<1>3. QED
  BY <1>1, <1>2, PTL DEF Spec

\* Every variable keeps its type; the count of pending blocks never goes below
\* zero, although it is decremented without a lock.
THEOREM TypeCorrect == Spec => []TypeOK
<1>1. IInv => TypeOK
  BY DEF IInv, FlowInv
<1>2. QED
  BY <1>1, Inductive, PTL

\* No block is written over while the bus has it: whoever may write next finds
\* the next block of the ring free, for every size of the ring.
THEOREM NeverOverwritten == Spec => []NextBlockFree
<1>1. IInv => NextBlockFree
  <2> SUFFICES ASSUME IInv, ~write_fail, Writing \/ AckDue
               PROVE  ~urb_in_use[Next1(write_urb)]
    BY DEF NextBlockFree
  <2>1. TypeOK /\ Bounded /\ UsedOnBus /\ InARow
    BY RingParts DEF IInv, FlowInv
  <2>2. QED
    BY <2>1, RoomToWrite, NextFree
<1>2. QED
  BY <1>1, Inductive, PTL

\* The count the flow control reads covers every block the bus still has.
THEOREM NeverUndercounts == Spec => []CountCovers
<1>1. IInv => CountCovers
  <2> SUFFICES ASSUME IInv PROVE CountCovers
    OBVIOUS
  <2>1. tx_pending_urb_cnt \in Nat /\ Len(inflight) \in Nat
    BY DEF IInv, FlowInv, TypeOK
  <2>2. QED
    BY <2>1 DEF IInv, FlowInv, CountCovers
<1>2. QED
  BY <1>1, Inductive, PTL

\* A thread that sleeps over packets or a beacon has asked to be woken.
THEOREM SleepsPending == Spec => []StoppedIsPending
<1>1. IInv => StoppedIsPending
  BY DEF IInv, FlowInv
<1>2. QED
  BY <1>1, Inductive, PTL

-----------------------------------------------------------------------------
\* The refinement of UsbRing

USE DEF Ring!vars, Ring!Next

Busy == {s \in Slots : urb_in_use[s]}

\* A write is a submission of the ring, or nothing once a write has failed.
LEMMA RingSubmit ==
  ASSUME IInv, Write, Writing \/ AckDue
  PROVE  \/ /\ UNCHANGED ring /\ write_fail
         \/ /\ ~write_fail /\ Next1(write_urb) \in Slots
            /\ Submit(Next1(write_urb)) /\ Taken = {Next1(write_urb)}
            /\ Next1(write_urb) \notin Busy
            /\ Busy' = Busy \cup {Next1(write_urb)}
            /\ Next1(write_urb)' = IF Next1(write_urb) + 1 = MAX_TX_URB
                                   THEN 0 ELSE Next1(write_urb) + 1
            /\ tx_pending_urb_cnt' = tx_pending_urb_cnt + 1
            /\ \/ Len(inflight') = Len(inflight) + 1 /\ ~write_fail'
               \/ Len(inflight') = Len(inflight) /\ write_fail'
<1>1. TypeOK /\ Bounded /\ (~write_fail => UsedOnBus /\ InARow)
  BY RingParts DEF IInv, FlowInv
<1>2. CASE write_fail
  BY <1>1, <1>2 DEF Write, NotWritten, TypeOK
<1>3. CASE ~write_fail
  <2> DEFINE s == Next1(write_urb)
  <2>1. s \in Slots /\ Taken = {s} /\ ~urb_in_use[s]
    BY <1>1, <1>3, NextTaken
  <2>2. Submit(s)
    BY <1>3, <2>1 DEF Write, NotWritten
  <2>3. Next1(write_urb)' = IF s + 1 = MAX_TX_URB THEN 0 ELSE s + 1
    <3>1. Next1(write_urb)' = Next1(s)
      BY <2>2 DEF Submit, Next1
    <3>2. QED
      BY <2>1, <3>1, NextIndex
  <2> HIDE DEF s
  <2>4. Busy' = Busy \cup {s} /\ s \notin Busy
    BY <1>1, <2>1, <2>2 DEF Submit, Busy, TypeOK
  <2>5. \/ Len(inflight') = Len(inflight) + 1 /\ ~write_fail'
        \/ Len(inflight') = Len(inflight) /\ write_fail'
    <3>1. inflight \in Seq(Slots)
      BY <1>1 DEF TypeOK
    <3>2. QED
      BY <1>3, <2>1, <2>2, <3>1 DEF Submit
  <2>6. tx_pending_urb_cnt' = tx_pending_urb_cnt + 1
    BY <2>2 DEF Submit
  <2>7. QED
    BY <1>3, <2>1, <2>2, <2>3, <2>4, <2>5, <2>6 DEF s
<1>4. QED
  BY <1>2, <1>3

\* The WLAN thread writes within its window.
LEMMA RingData ==
  ASSUME IInv, WlanBeacon \/ WlanMcastWrite \/ WlanWrite
  PROVE  [Ring!Next]_Ring!vars
<1>1. Write /\ Writing /\ UNCHANGED ack_slot
  BY Writers DEF WlanBeacon, WlanMcastWrite, WlanWrite, Writing
<1>2. Bounded /\ Len(inflight) \in Nat
  BY RingParts DEF IInv, FlowInv, TypeOK
<1>3. CASE UNCHANGED ring
  BY <1>1, <1>3 DEF Next1
<1>4. CASE ~UNCHANGED ring
  <2>1. Ring!Data < BUFFER_FULL
    BY <1>1, <1>2 DEF Bounded, Ring!Data
  <2>2. Ring!Submit(ack_slot)
    BY <1>1, <1>4, RingSubmit DEF Ring!Submit, Busy
  <2>3. QED
    BY <2>1, <2>2 DEF Ring!SubmitData
<1>5. QED
  BY <1>3, <1>4

\* The coex thread writes one ack at a time.
LEMMA RingAck ==
  ASSUME IInv, AckWrite
  PROVE  [Ring!Next]_Ring!vars
<1>1. Write /\ AckDue
  BY Writers DEF AckWrite
<1>2. CASE NotWritten /\ UNCHANGED ack_slot
  <2>1. UNCHANGED ring
    BY <1>1, <1>2, RingSubmit DEF NotWritten, IInv, FlowInv, TypeOK, Submit
  <2>2. QED
    BY <1>2, <2>1 DEF Next1
<1>3. CASE ~write_fail /\ \E s \in Taken : /\ Submit(s)
                      /\ ack_slot' = IF write_fail' THEN NoSlot ELSE s
  <2>1. /\ ack_slot = NoSlot
        /\ ack_slot' = IF write_fail' THEN ack_slot ELSE Next1(write_urb)
    BY <1>1, <1>3, RingSubmit DEF AckDue
  <2>2. Ring!Submit(Next1(write_urb))
    BY <1>1, <1>3, <2>1, RingSubmit DEF Ring!Submit, Busy
  <2>3. QED
    BY <2>1, <2>2 DEF Ring!SubmitAck
<1>4. QED
  BY <1>2, <1>3 DEF AckWrite

\* The handler frees the oldest block.
LEMMA RingComplete ==
  ASSUME IInv, DoneBlock
  PROVE  Ring!Next
<1>1. TypeOK /\ Bounded /\ OnBusUsed /\ (~write_fail => InARow)
  BY RingParts DEF IInv, FlowInv
<1> DEFINE s == Head(inflight)
<1>2. inflight \in Seq(Slots) /\ inflight # << >> /\ s = inflight[1]
      /\ s \in Slots /\ Len(inflight) \in Nat \ {0} /\ 1 \in DOMAIN inflight
      /\ Len(inflight') = Len(inflight) - 1
  BY <1>1, Completed DEF DoneBlock, TypeOK
<1>3. s \in Busy
  BY <1>1, <1>2 DEF OnBusUsed, Busy
<1>4. Busy' = Busy \ {s}
  BY <1>1, <1>2 DEF DoneBlock, Busy, TypeOK
<1>5. ack_slot' = IF s = ack_slot THEN NoSlot ELSE ack_slot
  BY DEF DoneBlock
<1>6. ~write_fail => s = Ring!Oldest
  <2>1. /\ write_urb \in Slots
        /\ Next1(write_urb) = IF write_urb + 1 = MAX_TX_URB THEN 0 ELSE write_urb + 1
    BY <1>1, NextIndex DEF TypeOK
  <2>2. Len(inflight) <= MAX_TX_URB
    BY <1>1, <1>2 DEF Bounded
  <2>3. ~write_fail => s = Behind(write_urb, Len(inflight) - 1)
    BY <1>1, <1>2 DEF InARow
  <2> HIDE DEF s
  <2>4. QED
    BY <1>2, <2>1, <2>2, <2>3, SMTT(30) DEF Behind, Ring!Oldest
<1>7. write_fail => write_fail'
  BY <1>1 DEF DoneBlock, TypeOK
<1>8. Next1(write_urb)' = Next1(write_urb) /\ UNCHANGED tx_pending_urb_cnt
  BY DEF DoneBlock, Next1
<1> HIDE DEF s
<1>9. Ring!Complete
  BY <1>2, <1>3, <1>4, <1>5, <1>6, <1>7, <1>8 DEF Ring!Complete, Busy
<1>10. QED
  BY <1>9

\* It counts off what the bus has done with.
LEMMA RingCountOff ==
  ASSUME IInv, DoneCount
  PROVE  Ring!Next
<1>1. tx_pending_urb_cnt \in Nat /\ Len(inflight) \in Nat
      /\ tx_pending_urb_cnt >= Len(inflight) + 1
  BY DEF IInv, FlowInv, TypeOK, DoneCount
<1>2. Ring!CountOff
  BY <1>1 DEF Ring!CountOff, DoneCount, Next1
<1>3. QED
  BY <1>2

LEMMA RingRefines ==
  ASSUME IInv, [Next]_vars
  PROVE  [Ring!Next]_Ring!vars
<1>1. UNCHANGED <<ring, ack_slot>> => UNCHANGED Ring!vars
  BY DEF Next1
<1>2. CASE WlanWake \/ WlanTop \/ WlanMcast \/ WlanLoop \/ WlanStop \/ WlanDrop
  BY <1>1, <1>2 DEF WlanWake, WlanTop, WlanMcast, WlanLoop, WlanStop, WlanDrop
<1>3. CASE \/ DoneRestart \/ AckCheckType \/ QueuePkt \/ RxBeaconEvent
           \/ UNCHANGED vars
  BY <1>1, <1>3 DEF DoneRestart, AckCheckType, QueuePkt, RxBeaconEvent
<1>4. QED
  BY <1>2, <1>3, RingData, RingAck, RingComplete, RingCountOff
     DEF Next, WlanStep, HandlerStep, CoexStep

\* The WLAN thread, the coex thread and the completion handler implement the
\* circular buffer: no write skips or overwrites a block, none goes beyond the
\* window, the bus gives the blocks back in order, whatever the size.
THEOREM KeepsRingTheorem == Spec => KeepsRing
<1>1. Init => Ring!Init
  <2>1. SUFFICES ASSUME Init PROVE Ring!Init
    OBVIOUS
  <2>2. Next1(write_urb) = 1
    BY <2>1, NextIndex DEF Init
  <2>3. QED
    BY <2>1, <2>2 DEF Init, Ring!Init
<1>2. IInv /\ [Next]_vars => [Ring!Next]_Ring!vars
  BY RingRefines
<1>3. QED
  BY <1>1, <1>2, Inductive, PTL DEF Spec, KeepsRing, Ring!Spec
=============================================================================
