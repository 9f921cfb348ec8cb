--------------------------- MODULE TxAccess_proofs ---------------------------
(***************************************************************************)
(* Proofs about TxAccess, for every set of active technologies, every      *)
(* queue bound, and with or without failing allocations and writes.        *)
(*                                                                         *)
(* The inductive invariant is IInv.  Each of its conjuncts has a lemma     *)
(* that names the conjuncts its preservation rests on; the actions that    *)
(* can disturb it have a step of their own, the rest share one.            *)
(***************************************************************************)
EXTENDS TxAccess, SequenceTheorems, TLAPS

USE DEF Tech, MAX_IDS, WLAN_ID, BT_ID, ZB_ID, SoftQ, COEX_Q, BT_Q, ZIGB_Q,
        QueueOf, TechOf, CoexPC, WlanPC, RxPC, Notify,
        shared, common, queues, coexvars, wlanvars, rxvars, CoexGoto, WlanGoto

-----------------------------------------------------------------------------
\* Type correctness

\* The bring-up state is well typed.
LEMMA InitTypeOK == Init => TypeOK
<1> SUFFICES ASSUME Init PROVE TypeOK
  OBVIOUS
<1>1. deferred_rx_queue \in Seq(Notify)
  BY DEF Init
<1>2. coex_queues \in [SoftQ -> Nat]
  BY DEF Init
<1>3. /\ tx_intention \in [Tech -> BOOLEAN]
      /\ tx_access \in [Tech -> BOOLEAN]
      /\ deregister_flags \in [Tech -> BOOLEAN]
  BY DEF Init
<1>4. /\ common_hal_tx_access \in BOOLEAN
      /\ sleep_entry_recvd \in BOOLEAN
      /\ ulp_sleep_ack_sent \in BOOLEAN
      /\ thread_event \in BOOLEAN
      /\ ulp_sleep_ack \in BOOLEAN
      /\ scheduler_event \in BOOLEAN
  BY DEF Init
<1>5. QED
  BY <1>1, <1>2, <1>3, <1>4 DEF Init, TypeOK, INVALID_QUEUE

\* What update_tx_status writes is well typed.
LEMMA UpdateType ==
  ASSUME TypeOK, NEW t \in Tech, update_tx_status(t)
  PROVE  /\ tx_access' \in [Tech -> BOOLEAN]
         /\ ulp_sleep_ack_sent' \in BOOLEAN
         /\ coex_queues' \in [SoftQ -> Nat]
         /\ thread_event' \in BOOLEAN
         /\ UNCHANGED <<common_hal_tx_access, sleep_entry_recvd,
                        tx_access_lock, transmit_lock>>
<1>1. tx_access' \in [Tech -> BOOLEAN]
  BY DEF TypeOK, update_tx_status
<1>2. ulp_sleep_ack_sent' \in BOOLEAN
  BY DEF TypeOK, update_tx_status, send_ulp_sleep_ack
<1>3. coex_queues' \in [SoftQ -> Nat]
  BY DEF TypeOK, update_tx_status, send_ulp_sleep_ack
<1>4. thread_event' \in BOOLEAN
  BY DEF TypeOK, update_tx_status, send_ulp_sleep_ack
<1>5. QED
  BY <1>1, <1>2, <1>3, <1>4 DEF update_tx_status

\* What is left of the messages after the worker took one.
LEMMA ReceivedType ==
  ASSUME TypeOK, NEW m, Received(m)
  PROVE  deferred_rx_queue' \in Seq(Notify)
  BY HeadTailProperties DEF TypeOK, Received

\* The worker keeps the types.
LEMMA RxTypeOK ==
  ASSUME TypeOK, RxStep
  PROVE  TypeOK'
<1>1. CASE RxEntryAck
  <2>1. coex_queues' \in [SoftQ -> Nat]
    BY <1>1 DEF RxEntryAck, send_ulp_sleep_ack, TypeOK
  <2>2. ulp_sleep_ack_sent' \in BOOLEAN /\ thread_event' \in BOOLEAN
    BY <1>1 DEF RxEntryAck, send_ulp_sleep_ack, TypeOK
  <2>3. deferred_rx_queue' \in Seq(Notify)
    BY <1>1, ReceivedType DEF RxEntryAck
  <2>4. QED
    BY <1>1, <2>1, <2>2, <2>3 DEF RxEntryAck, TypeOK
<1>2. CASE RxEntryRefuse
  <2>1. deferred_rx_queue' \in Seq(Notify)
    BY <1>2, ReceivedType DEF RxEntryRefuse
  <2>2. /\ sleep_entry_recvd' \in BOOLEAN
        /\ common_hal_tx_access' \in BOOLEAN
        /\ ulp_sleep_ack_sent' \in BOOLEAN
    BY <1>2 DEF RxEntryRefuse
  <2>3. QED
    BY <1>2, <2>1, <2>2 DEF RxEntryRefuse, TypeOK
<1>3. CASE RxExit
  <2>1. deferred_rx_queue' \in Seq(Notify)
    BY <1>3, ReceivedType DEF RxExit
  <2>2. /\ sleep_entry_recvd' \in BOOLEAN
        /\ common_hal_tx_access' \in BOOLEAN
        /\ ulp_sleep_ack_sent' \in BOOLEAN
    BY <1>3 DEF RxExit
  <2>3. QED
    BY <1>3, <2>1, <2>2 DEF RxExit, TypeOK
<1>4. CASE RxGrantFlag
  <2>1. deregister_flags' \in [Tech -> BOOLEAN]
    BY <1>4 DEF RxGrantFlag, TypeOK
  <2>2. rpc' \in RxPC /\ proto_id' \in Tech /\ tx_access_lock' \in {"free", "rx"}
    BY <1>4 DEF RxGrantFlag, NextProto, TypeOK
  <2>3. QED
    BY <1>4, <2>1, <2>2 DEF RxGrantFlag, TypeOK
<1>5. CASE RxGrantAccess
  BY <1>5 DEF RxGrantAccess, NextProto, TypeOK
<1>6. QED
  BY <1>1, <1>2, <1>3, <1>4, <1>5 DEF RxStep

\* The coex thread keeps the types; it dequeues from a queue that is not empty.
LEMMA CoexTypeOK ==
  ASSUME TypeOK, TransmitInv, CoexStep
  PROVE  TypeOK'
<1>1. CASE CoexWake
  <2>1. thread_event' \in BOOLEAN /\ ulp_sleep_ack' \in BOOLEAN
    BY <1>1 DEF CoexWake
  <2>2. QED
    BY <1>1, <2>1 DEF CoexWake, TypeOK
<1>2. CASE CoexPick
  BY <1>2 DEF CoexPick, coex_get_queue_num, FirstRelease, INVALID_QUEUE, TypeOK
<1>3. CASE CoexReleaseIntention
  BY <1>3 DEF CoexReleaseIntention, TypeOK
<1>4. CASE CoexReleaseAccess
  BY <1>4 DEF CoexReleaseAccess, TypeOK
<1>5. CASE CoexReleaseUpdate
  BY <1>5, UpdateType DEF CoexReleaseUpdate, NextRelease, INVALID_QUEUE, TypeOK
<1>6. CASE CoexCheck
  <2>1. tx_intention' \in [Tech -> BOOLEAN] /\ cpc' \in CoexPC
    BY <1>6 DEF CoexCheck, TypeOK
  <2>2. QED
    BY <1>6, <2>1 DEF CoexCheck, TypeOK
<1>7. CASE CoexRequest
  BY <1>7, UpdateType DEF CoexRequest, TypeOK
<1>8. CASE CoexRecheck
  BY <1>8 DEF CoexRecheck, TypeOK
<1>9. CASE CoexArm
  BY <1>9 DEF CoexArm, TypeOK
<1>10. CASE CoexWoken
  BY <1>10 DEF CoexWoken, TypeOK
<1>11. CASE CoexTimeout
  BY <1>11 DEF CoexTimeout, TypeOK
<1>12. CASE CoexDequeue
  BY <1>12 DEF CoexDequeue, TransmitInv, TypeOK
<1>13. CASE CoexWrite
  BY <1>13 DEF CoexWrite, TypeOK
<1>14. CASE CoexWritten
  <2>1. ulp_sleep_ack_sent' \in BOOLEAN /\ common_hal_tx_access' \in BOOLEAN
    BY <1>14 DEF CoexWritten, TypeOK
  <2>2. QED
    BY <1>14, <2>1 DEF CoexWritten, TypeOK
<1>15. QED
  BY <1>1, <1>2, <1>3, <1>4, <1>5, <1>6, <1>7, <1>8, <1>9, <1>10, <1>11,
     <1>12, <1>13, <1>14 DEF CoexStep

\* The WLAN thread keeps the types.
LEMMA WlanTypeOK ==
  ASSUME TypeOK, WlanStep
  PROVE  TypeOK'
<1>1. CASE WlanWake
  <2>1. scheduler_event' \in BOOLEAN
    BY <1>1 DEF WlanWake
  <2>2. QED
    BY <1>1, <2>1 DEF WlanWake, TypeOK
<1>2. CASE WlanCheck
  <2>1. tx_intention' \in [Tech -> BOOLEAN] /\ wpc' \in WlanPC
    BY <1>2 DEF WlanCheck, TypeOK
  <2>2. QED
    BY <1>2, <2>1 DEF WlanCheck, TypeOK
<1>3. CASE WlanRequest
  BY <1>3, UpdateType DEF WlanRequest, TypeOK
<1>4. CASE WlanRecheck
  BY <1>4 DEF WlanRecheck, TypeOK
<1>5. CASE WlanArm
  BY <1>5 DEF WlanArm, TypeOK
<1>6. CASE WlanWoken
  BY <1>6 DEF WlanWoken, TypeOK
<1>7. CASE WlanTimeout
  BY <1>7 DEF WlanTimeout, TypeOK
<1>8. CASE WlanSend
  BY <1>8 DEF WlanSend, TypeOK
<1>9. CASE WlanWrite
  BY <1>9 DEF WlanWrite, TypeOK
<1>10. CASE WlanLoopEnd
  <2>1. tx_intention' \in [Tech -> BOOLEAN] /\ wpc' \in WlanPC
    BY <1>10 DEF WlanLoopEnd, TypeOK
  <2>2. QED
    BY <1>10, <2>1 DEF WlanLoopEnd, TypeOK
<1>11. CASE WlanReleaseAccess
  BY <1>11 DEF WlanReleaseAccess, TypeOK
<1>12. CASE WlanReleaseUpdate
  BY <1>12, UpdateType DEF WlanReleaseUpdate, TypeOK
<1>13. QED
  BY <1>1, <1>2, <1>3, <1>4, <1>5, <1>6, <1>7, <1>8, <1>9, <1>10, <1>11, <1>12
     DEF WlanStep

\* Every step keeps the types.
LEMMA NextTypeOK ==
  ASSUME TypeOK, TransmitInv, [Next]_vars
  PROVE  TypeOK'
<1>1. ASSUME NEW t \in Tech, SendPkt(t) PROVE TypeOK'
  <2>1. coex_queues' \in [SoftQ -> Nat] /\ thread_event' \in BOOLEAN
    BY <1>1 DEF SendPkt, TypeOK
  <2>2. QED
    BY <1>1, <2>1 DEF SendPkt, TypeOK
<1>2. CASE SendWlanPkt
  <2>1. host_tx_queue' \in Nat /\ scheduler_event' \in BOOLEAN
    BY <1>2 DEF SendWlanPkt, TypeOK
  <2>2. QED
    BY <1>2, <2>1 DEF SendWlanPkt, TypeOK
<1>3. CASE FwStep
  <2>1. \A m \in Notify : Append(deferred_rx_queue, m) \in Seq(Notify)
    BY AppendProperties DEF TypeOK
  <2>2. deferred_rx_queue' \in Seq(Notify)
    BY <1>3, <2>1 DEF FwStep, FwRequestSleep, FwWake
  <2>3. QED
    BY <1>3, <2>2 DEF FwStep, FwRequestSleep, FwWake, TypeOK
<1>4. CASE UNCHANGED vars
  BY <1>4 DEF vars, TypeOK
<1>5. QED
  BY <1>1, <1>2, <1>3, <1>4, RxTypeOK, CoexTypeOK, WlanTypeOK
     DEF Next, EnvStep

-----------------------------------------------------------------------------
\* The handshake

\* The queues the device's messages can form, and what is left of them.
LEMMA NotifyQueues ==
    /\ Head(<<"entry">>) = "entry" /\ Tail(<<"entry">>) = <<>>
    /\ Head(<<"exit">>) = "exit" /\ Tail(<<"exit">>) = <<>>
    /\ Head(<<"exit", "entry">>) = "exit"
    /\ Tail(<<"exit", "entry">>) = <<"entry">>
    /\ Append(<<>>, "entry") = <<"entry">>
    /\ Append(<<>>, "exit") = <<"exit">>
    /\ Append(<<"exit">>, "entry") = <<"exit", "entry">>
    /\ <<"entry">> # <<>> /\ <<"exit">> # <<>> /\ <<"entry">> # <<"exit">>
    /\ <<"exit", "entry">> \notin {<<>>, <<"entry">>, <<"exit">>}
<1>1. Head(<<"entry">>) = "entry" /\ Tail(<<"entry">>) = <<>>
  OBVIOUS
<1>2. Head(<<"exit">>) = "exit" /\ Tail(<<"exit">>) = <<>>
  OBVIOUS
<1>3. Head(<<"exit", "entry">>) = "exit"
  OBVIOUS
<1>4. Tail(<<"exit", "entry">>) = <<"entry">>
  OBVIOUS
<1>5. Append(<<>>, "entry") = <<"entry">>
  OBVIOUS
<1>6. Append(<<>>, "exit") = <<"exit">>
  OBVIOUS
<1>7. Append(<<"exit">>, "entry") = <<"exit", "entry">>
  <2> DEFINE s == Append(<<"exit">>, "entry")
             t == <<"exit", "entry">>
  <2>1. <<"exit">> \in Seq(Notify) /\ "entry" \in Notify
    OBVIOUS
  <2>2. s \in Seq(Notify) /\ Len(s) = 2 /\ s[1] = "exit" /\ s[2] = "entry"
    BY <2>1, AppendProperties
  <2>3. t \in Seq(Notify) /\ Len(t) = 2 /\ t[1] = "exit" /\ t[2] = "entry"
    OBVIOUS
  <2> HIDE DEF s, t
  <2>4. s = t
    BY <2>2, <2>3, SeqEqual
  <2>5. QED
    BY <2>4 DEF s, t
<1>8. <<"entry">> # <<>> /\ <<"exit">> # <<>> /\ <<"entry">> # <<"exit">>
  OBVIOUS
<1>9. <<"exit", "entry">> \notin {<<>>, <<"entry">>, <<"exit">>}
  OBVIOUS
<1>10. QED
  BY <1>1, <1>2, <1>3, <1>4, <1>5, <1>6, <1>7, <1>8, <1>9

\* transmit_lock has one owner, and the coex thread dequeues what it found.
LEMMA NextTransmitInv ==
  ASSUME TypeOK, TransmitInv, [Next]_vars
  PROVE  TransmitInv'
<1>1. CASE CoexPick
  BY <1>1 DEF CoexPick, coex_get_queue_num, FirstRelease, INVALID_QUEUE,
     TypeOK, TransmitInv, AckInHand
<1>2. CASE CoexReleaseUpdate
  BY <1>2 DEF CoexReleaseUpdate, update_tx_status, send_ulp_sleep_ack,
     NextRelease, TypeOK, TransmitInv, AckInHand
<1>3. CASE CoexDequeue
  BY <1>3 DEF CoexDequeue, TypeOK, TransmitInv, AckInHand
<1>4. CASE CoexWritten
  BY <1>4 DEF CoexWritten, TypeOK, TransmitInv, AckInHand
<1>5. CASE WlanSend
  BY <1>5 DEF WlanSend, TypeOK, TransmitInv, AckInHand
<1>6. CASE WlanWrite
  BY <1>6 DEF WlanWrite, TypeOK, TransmitInv, AckInHand
<1>7. CASE \E t \in Tech : SendPkt(t)
  BY <1>7 DEF SendPkt, TypeOK, TransmitInv, AckInHand
<1>8. CASE \/ RxEntryAck \/ RxEntryRefuse \/ RxExit \/ RxGrantFlag
           \/ RxGrantAccess
  BY <1>8, ConstantsAssumption DEF RxEntryAck, Received, send_ulp_sleep_ack,
     RxEntryRefuse, RxExit, RxGrantFlag, NextProto, RxGrantAccess, TypeOK,
     TransmitInv, AckInHand
<1>9. CASE \/ CoexWake \/ CoexReleaseIntention \/ CoexReleaseAccess
           \/ CoexCheck \/ CoexRequest \/ CoexRecheck \/ CoexArm
           \/ CoexWoken \/ CoexTimeout \/ CoexWrite
  BY <1>9, ConstantsAssumption DEF CoexWake, CoexReleaseIntention,
     CoexReleaseAccess, CoexCheck, CoexRequest, update_tx_status,
     send_ulp_sleep_ack, CoexRecheck, CoexArm, CoexWoken, CoexTimeout,
     CoexWrite, TypeOK, TransmitInv, AckInHand
<1>10. CASE \/ WlanWake \/ WlanCheck \/ WlanRequest \/ WlanRecheck
            \/ WlanArm \/ WlanWoken \/ WlanTimeout \/ WlanLoopEnd
            \/ WlanReleaseAccess \/ WlanReleaseUpdate
  BY <1>10, ConstantsAssumption DEF WlanWake, WlanCheck, WlanRequest,
     update_tx_status, send_ulp_sleep_ack, WlanRecheck, WlanArm, WlanWoken,
     WlanTimeout, WlanLoopEnd, WlanReleaseAccess, WlanReleaseUpdate, TypeOK,
     TransmitInv, AckInHand
<1>11. CASE \/ SendWlanPkt \/ FwRequestSleep \/ FwWake \/ UNCHANGED vars
  BY <1>11, ConstantsAssumption DEF SendWlanPkt, FwRequestSleep, FwWake,
     vars, TypeOK, TransmitInv, AckInHand
<1>12. QED
  BY <1>1, <1>2, <1>3, <1>4, <1>5, <1>6, <1>7, <1>8, <1>9, <1>10, <1>11 DEF
     Next, RxStep, CoexStep, WlanStep, EnvStep, FwStep

\* No ack goes out while the worker walks the waiting protocols: the acks are
\* queued, and the bus is closed, under tx_access_lock and with
\* sleep_entry_recvd set.
LEMMA NextGrantLoopInv ==
  ASSUME TypeOK, GrantLoopInv, [Next]_vars
  PROVE  GrantLoopInv'
<1>1. CASE RxEntryAck
  BY <1>1 DEF RxEntryAck, Received, send_ulp_sleep_ack, TypeOK, GrantLoopInv
<1>2. CASE RxEntryRefuse
  BY <1>2 DEF RxEntryRefuse, Received, TypeOK, GrantLoopInv
<1>3. CASE RxExit
  BY <1>3 DEF RxExit, Received, TypeOK, GrantLoopInv
<1>4. CASE RxGrantFlag
  BY <1>4 DEF RxGrantFlag, NextProto, TypeOK, GrantLoopInv
<1>5. CASE RxGrantAccess
  BY <1>5 DEF RxGrantAccess, NextProto, TypeOK, GrantLoopInv
<1>6. CASE CoexReleaseUpdate
  BY <1>6 DEF CoexReleaseUpdate, update_tx_status, send_ulp_sleep_ack,
     NextRelease, TypeOK, GrantLoopInv
<1>7. CASE CoexRequest
  BY <1>7 DEF CoexRequest, update_tx_status, send_ulp_sleep_ack, TypeOK,
     GrantLoopInv
<1>8. CASE CoexWritten
  BY <1>8 DEF CoexWritten, TypeOK, GrantLoopInv
<1>9. CASE WlanRequest
  BY <1>9 DEF WlanRequest, update_tx_status, send_ulp_sleep_ack, TypeOK,
     GrantLoopInv
<1>10. CASE WlanReleaseUpdate
  BY <1>10 DEF WlanReleaseUpdate, update_tx_status, send_ulp_sleep_ack,
     TypeOK, GrantLoopInv
<1>11. CASE \/ CoexWake \/ CoexPick \/ CoexReleaseIntention
            \/ CoexReleaseAccess \/ CoexCheck \/ CoexRecheck \/ CoexArm
            \/ CoexWoken \/ CoexTimeout \/ CoexDequeue \/ CoexWrite
  BY <1>11, ConstantsAssumption DEF CoexWake, CoexPick, coex_get_queue_num,
     FirstRelease, CoexReleaseIntention, CoexReleaseAccess, CoexCheck,
     CoexRecheck, CoexArm, CoexWoken, CoexTimeout, CoexDequeue, CoexWrite,
     TypeOK, GrantLoopInv
<1>12. CASE \/ WlanWake \/ WlanCheck \/ WlanRecheck \/ WlanArm \/ WlanWoken
            \/ WlanTimeout \/ WlanSend \/ WlanWrite \/ WlanLoopEnd
            \/ WlanReleaseAccess
  BY <1>12, ConstantsAssumption DEF WlanWake, WlanCheck, WlanRecheck,
     WlanArm, WlanWoken, WlanTimeout, WlanSend, WlanWrite, WlanLoopEnd,
     WlanReleaseAccess, TypeOK, GrantLoopInv
<1>13. CASE \/ (\E t \in Tech : SendPkt(t)) \/ SendWlanPkt
            \/ FwRequestSleep \/ FwWake \/ UNCHANGED vars
  BY <1>13, ConstantsAssumption DEF SendPkt, SendWlanPkt, FwRequestSleep,
     FwWake, vars, TypeOK, GrantLoopInv
<1>14. QED
  BY <1>1, <1>2, <1>3, <1>4, <1>5, <1>6, <1>7, <1>8, <1>9, <1>10, <1>11,
     <1>12, <1>13 DEF Next, RxStep, CoexStep, WlanStep, EnvStep, FwStep

\* The two ends of the handshake stay in step with the messages between them.
LEMMA NextHandshakeInv ==
  ASSUME TypeOK, OneAckPerRequest, HandshakeInv, GrantLoopInv, TransmitInv,
         [Next]_vars
  PROVE  HandshakeInv'
<1>1. CASE RxEntryAck
  BY <1>1, NotifyQueues DEF RxEntryAck, Received, send_ulp_sleep_ack, TypeOK,
     OneAckPerRequest, HandshakeInv, GrantLoopInv, TransmitInv, AckOut,
     AckInHand
<1>2. CASE RxEntryRefuse
  BY <1>2, NotifyQueues DEF RxEntryRefuse, Received, TypeOK,
     OneAckPerRequest, HandshakeInv, GrantLoopInv, TransmitInv, AckOut,
     AckInHand
<1>3. CASE RxExit
  BY <1>3, NotifyQueues DEF RxExit, Received, TypeOK, OneAckPerRequest,
     HandshakeInv, GrantLoopInv, TransmitInv, AckOut, AckInHand
<1>4. CASE RxGrantFlag
  BY <1>4 DEF RxGrantFlag, NextProto, TypeOK, OneAckPerRequest, HandshakeInv,
     GrantLoopInv, TransmitInv, AckOut, AckInHand
<1>5. CASE RxGrantAccess
  BY <1>5 DEF RxGrantAccess, NextProto, TypeOK, OneAckPerRequest,
     HandshakeInv, GrantLoopInv, TransmitInv, AckOut, AckInHand
<1>6. CASE CoexReleaseUpdate
  BY <1>6 DEF CoexReleaseUpdate, update_tx_status, send_ulp_sleep_ack,
     NextRelease, TypeOK, OneAckPerRequest, HandshakeInv, GrantLoopInv,
     TransmitInv, AckOut, AckInHand
<1>7. CASE CoexRequest
  BY <1>7 DEF CoexRequest, update_tx_status, send_ulp_sleep_ack, TypeOK,
     OneAckPerRequest, HandshakeInv, GrantLoopInv, TransmitInv, AckOut,
     AckInHand
<1>8. CASE CoexDequeue
  BY <1>8 DEF CoexDequeue, TypeOK, OneAckPerRequest, HandshakeInv,
     GrantLoopInv, TransmitInv, AckOut, AckInHand
<1>9. CASE CoexWrite
  BY <1>9 DEF CoexWrite, TypeOK, OneAckPerRequest, HandshakeInv,
     GrantLoopInv, TransmitInv, AckOut, AckInHand
<1>10. CASE CoexWritten
  BY <1>10 DEF CoexWritten, TypeOK, OneAckPerRequest, HandshakeInv,
     GrantLoopInv, TransmitInv, AckOut, AckInHand
<1>11. CASE WlanRequest
  BY <1>11 DEF WlanRequest, update_tx_status, send_ulp_sleep_ack, TypeOK,
     OneAckPerRequest, HandshakeInv, GrantLoopInv, TransmitInv, AckOut,
     AckInHand
<1>12. CASE WlanReleaseUpdate
  BY <1>12 DEF WlanReleaseUpdate, update_tx_status, send_ulp_sleep_ack,
     TypeOK, OneAckPerRequest, HandshakeInv, GrantLoopInv, TransmitInv,
     AckOut, AckInHand
<1>13. CASE FwRequestSleep
  BY <1>13, NotifyQueues DEF FwRequestSleep, TypeOK, OneAckPerRequest,
     HandshakeInv, GrantLoopInv, TransmitInv, AckOut, AckInHand
<1>14. CASE FwWake
  BY <1>14, NotifyQueues DEF FwWake, TypeOK, OneAckPerRequest, HandshakeInv,
     GrantLoopInv, TransmitInv, AckOut, AckInHand
<1>15. CASE \/ CoexWake \/ CoexPick \/ CoexReleaseIntention
            \/ CoexReleaseAccess \/ CoexCheck \/ CoexRecheck \/ CoexArm
            \/ CoexWoken \/ CoexTimeout
  BY <1>15, ConstantsAssumption DEF CoexWake, CoexPick, coex_get_queue_num,
     FirstRelease, CoexReleaseIntention, CoexReleaseAccess, CoexCheck,
     CoexRecheck, CoexArm, CoexWoken, CoexTimeout, TypeOK, OneAckPerRequest,
     HandshakeInv, GrantLoopInv, TransmitInv, AckOut, AckInHand
<1>16. CASE \/ WlanWake \/ WlanCheck \/ WlanRecheck \/ WlanArm \/ WlanWoken
            \/ WlanTimeout \/ WlanSend \/ WlanWrite \/ WlanLoopEnd
            \/ WlanReleaseAccess
  BY <1>16, ConstantsAssumption DEF WlanWake, WlanCheck, WlanRecheck,
     WlanArm, WlanWoken, WlanTimeout, WlanSend, WlanWrite, WlanLoopEnd,
     WlanReleaseAccess, TypeOK, OneAckPerRequest, HandshakeInv, GrantLoopInv,
     TransmitInv, AckOut, AckInHand
<1>17. CASE \/ (\E t \in Tech : SendPkt(t)) \/ SendWlanPkt
            \/ UNCHANGED vars
  BY <1>17, ConstantsAssumption DEF SendPkt, SendWlanPkt, vars, TypeOK,
     OneAckPerRequest, HandshakeInv, GrantLoopInv, TransmitInv, AckOut,
     AckInHand
<1>18. QED
  BY <1>1, <1>2, <1>3, <1>4, <1>5, <1>6, <1>7, <1>8, <1>9, <1>10, <1>11,
     <1>12, <1>13, <1>14, <1>15, <1>16, <1>17 DEF Next, RxStep, CoexStep,
     WlanStep, EnvStep, FwStep

\* An ack is queued only for a request that has none yet.
LEMMA NextOneAck ==
  ASSUME TypeOK, OneAckPerRequest, HandshakeInv, GrantLoopInv, TransmitInv,
         [Next]_vars
  PROVE  OneAckPerRequest'
<1>1. CASE RxEntryAck
  BY <1>1, NotifyQueues DEF RxEntryAck, Received, send_ulp_sleep_ack, TypeOK,
     OneAckPerRequest, HandshakeInv, GrantLoopInv, TransmitInv, AckOut,
     AckInHand
<1>2. CASE RxEntryRefuse
  BY <1>2, NotifyQueues DEF RxEntryRefuse, Received, TypeOK,
     OneAckPerRequest, HandshakeInv, GrantLoopInv, TransmitInv, AckOut,
     AckInHand
<1>3. CASE RxExit
  BY <1>3, NotifyQueues DEF RxExit, Received, TypeOK, OneAckPerRequest,
     HandshakeInv, GrantLoopInv, TransmitInv, AckOut, AckInHand
<1>4. CASE CoexReleaseUpdate
  BY <1>4 DEF CoexReleaseUpdate, update_tx_status, send_ulp_sleep_ack,
     NextRelease, TypeOK, OneAckPerRequest, HandshakeInv, GrantLoopInv,
     TransmitInv, AckOut, AckInHand
<1>5. CASE CoexRequest
  BY <1>5 DEF CoexRequest, update_tx_status, send_ulp_sleep_ack, TypeOK,
     OneAckPerRequest, HandshakeInv, GrantLoopInv, TransmitInv, AckOut,
     AckInHand
<1>6. CASE CoexDequeue
  BY <1>6 DEF CoexDequeue, TypeOK, OneAckPerRequest, HandshakeInv,
     GrantLoopInv, TransmitInv, AckOut, AckInHand
<1>7. CASE CoexWrite
  BY <1>7 DEF CoexWrite, TypeOK, OneAckPerRequest, HandshakeInv,
     GrantLoopInv, TransmitInv, AckOut, AckInHand
<1>8. CASE CoexWritten
  BY <1>8 DEF CoexWritten, TypeOK, OneAckPerRequest, HandshakeInv,
     GrantLoopInv, TransmitInv, AckOut, AckInHand
<1>9. CASE WlanRequest
  BY <1>9 DEF WlanRequest, update_tx_status, send_ulp_sleep_ack, TypeOK,
     OneAckPerRequest, HandshakeInv, GrantLoopInv, TransmitInv, AckOut,
     AckInHand
<1>10. CASE WlanReleaseUpdate
  BY <1>10 DEF WlanReleaseUpdate, update_tx_status, send_ulp_sleep_ack,
     TypeOK, OneAckPerRequest, HandshakeInv, GrantLoopInv, TransmitInv,
     AckOut, AckInHand
<1>11. CASE \E t \in Tech : SendPkt(t)
  BY <1>11 DEF SendPkt, TypeOK, OneAckPerRequest, HandshakeInv, GrantLoopInv,
     TransmitInv, AckOut, AckInHand
<1>12. CASE FwRequestSleep
  BY <1>12, NotifyQueues DEF FwRequestSleep, TypeOK, OneAckPerRequest,
     HandshakeInv, GrantLoopInv, TransmitInv, AckOut, AckInHand
<1>13. CASE FwWake
  BY <1>13, NotifyQueues DEF FwWake, TypeOK, OneAckPerRequest, HandshakeInv,
     GrantLoopInv, TransmitInv, AckOut, AckInHand
<1>14. CASE \/ RxGrantFlag \/ RxGrantAccess
  BY <1>14, ConstantsAssumption DEF RxGrantFlag, NextProto, RxGrantAccess,
     TypeOK, OneAckPerRequest, HandshakeInv, GrantLoopInv, TransmitInv,
     AckOut, AckInHand
<1>15. CASE \/ CoexWake \/ CoexPick \/ CoexReleaseIntention
            \/ CoexReleaseAccess \/ CoexCheck \/ CoexRecheck \/ CoexArm
            \/ CoexWoken \/ CoexTimeout
  BY <1>15, ConstantsAssumption DEF CoexWake, CoexPick, coex_get_queue_num,
     FirstRelease, CoexReleaseIntention, CoexReleaseAccess, CoexCheck,
     CoexRecheck, CoexArm, CoexWoken, CoexTimeout, TypeOK, OneAckPerRequest,
     HandshakeInv, GrantLoopInv, TransmitInv, AckOut, AckInHand
<1>16. CASE \/ WlanWake \/ WlanCheck \/ WlanRecheck \/ WlanArm \/ WlanWoken
            \/ WlanTimeout \/ WlanSend \/ WlanWrite \/ WlanLoopEnd
            \/ WlanReleaseAccess
  BY <1>16, ConstantsAssumption DEF WlanWake, WlanCheck, WlanRecheck,
     WlanArm, WlanWoken, WlanTimeout, WlanSend, WlanWrite, WlanLoopEnd,
     WlanReleaseAccess, TypeOK, OneAckPerRequest, HandshakeInv, GrantLoopInv,
     TransmitInv, AckOut, AckInHand
<1>17. CASE \/ SendWlanPkt \/ UNCHANGED vars
  BY <1>17, ConstantsAssumption DEF SendWlanPkt, vars, TypeOK,
     OneAckPerRequest, HandshakeInv, GrantLoopInv, TransmitInv, AckOut,
     AckInHand
<1>18. QED
  BY <1>1, <1>2, <1>3, <1>4, <1>5, <1>6, <1>7, <1>8, <1>9, <1>10, <1>11,
     <1>12, <1>13, <1>14, <1>15, <1>16, <1>17 DEF Next, RxStep, CoexStep,
     WlanStep, EnvStep, FwStep

\* The bus under a sleeping device stays closed once the coex thread has
\* closed it.
LEMMA NextClosedBus ==
  ASSUME TypeOK, OneAckPerRequest, HandshakeInv, GrantLoopInv, TransmitInv,
         ClosedBusInv, [Next]_vars
  PROVE  ClosedBusInv'
<1>1. CASE RxEntryAck
  BY <1>1 DEF RxEntryAck, Received, send_ulp_sleep_ack, TypeOK,
     OneAckPerRequest, HandshakeInv, GrantLoopInv, TransmitInv, ClosedBusInv,
     AckOut, AckInHand
<1>2. CASE RxEntryRefuse
  BY <1>2 DEF RxEntryRefuse, Received, TypeOK, OneAckPerRequest,
     HandshakeInv, GrantLoopInv, TransmitInv, ClosedBusInv, AckOut, AckInHand
<1>3. CASE RxExit
  BY <1>3 DEF RxExit, Received, TypeOK, OneAckPerRequest, HandshakeInv,
     GrantLoopInv, TransmitInv, ClosedBusInv, AckOut, AckInHand
<1>4. CASE CoexWrite
  BY <1>4 DEF CoexWrite, TypeOK, OneAckPerRequest, HandshakeInv,
     GrantLoopInv, TransmitInv, ClosedBusInv, AckOut, AckInHand
<1>5. CASE CoexWritten
  BY <1>5 DEF CoexWritten, TypeOK, OneAckPerRequest, HandshakeInv,
     GrantLoopInv, TransmitInv, ClosedBusInv, AckOut, AckInHand
<1>6. CASE \/ RxGrantFlag \/ RxGrantAccess
  BY <1>6, ConstantsAssumption DEF RxGrantFlag, NextProto, RxGrantAccess,
     TypeOK, OneAckPerRequest, HandshakeInv, GrantLoopInv, TransmitInv,
     ClosedBusInv, AckOut, AckInHand
<1>7. CASE \/ CoexWake \/ CoexPick \/ CoexReleaseIntention
           \/ CoexReleaseAccess \/ CoexReleaseUpdate \/ CoexCheck
           \/ CoexRequest \/ CoexRecheck \/ CoexArm \/ CoexWoken
           \/ CoexTimeout \/ CoexDequeue
  BY <1>7, ConstantsAssumption DEF CoexWake, CoexPick, coex_get_queue_num,
     FirstRelease, CoexReleaseIntention, CoexReleaseAccess,
     CoexReleaseUpdate, update_tx_status, send_ulp_sleep_ack, NextRelease,
     CoexCheck, CoexRequest, CoexRecheck, CoexArm, CoexWoken, CoexTimeout,
     CoexDequeue, TypeOK, OneAckPerRequest, HandshakeInv, GrantLoopInv,
     TransmitInv, ClosedBusInv, AckOut, AckInHand
<1>8. CASE \/ WlanWake \/ WlanCheck \/ WlanRequest \/ WlanRecheck
           \/ WlanArm \/ WlanWoken \/ WlanTimeout \/ WlanSend \/ WlanWrite
           \/ WlanLoopEnd \/ WlanReleaseAccess \/ WlanReleaseUpdate
  BY <1>8, ConstantsAssumption DEF WlanWake, WlanCheck, WlanRequest,
     update_tx_status, send_ulp_sleep_ack, WlanRecheck, WlanArm, WlanWoken,
     WlanTimeout, WlanSend, WlanWrite, WlanLoopEnd, WlanReleaseAccess,
     WlanReleaseUpdate, TypeOK, OneAckPerRequest, HandshakeInv, GrantLoopInv,
     TransmitInv, ClosedBusInv, AckOut, AckInHand
<1>9. CASE \/ (\E t \in Tech : SendPkt(t)) \/ SendWlanPkt
           \/ FwRequestSleep \/ FwWake \/ UNCHANGED vars
  BY <1>9, ConstantsAssumption DEF SendPkt, SendWlanPkt, FwRequestSleep,
     FwWake, vars, TypeOK, OneAckPerRequest, HandshakeInv, GrantLoopInv,
     TransmitInv, ClosedBusInv, AckOut, AckInHand
<1>10. QED
  BY <1>1, <1>2, <1>3, <1>4, <1>5, <1>6, <1>7, <1>8, <1>9 DEF Next, RxStep,
     CoexStep, WlanStep, EnvStep, FwStep

\* The device does not fall asleep under a WLAN frame, and none is begun
\* while it sleeps.
LEMMA NextWlanAwake ==
  ASSUME TypeOK, OneAckPerRequest, TransmitInv, ClosedBusInv,
         WlanWritesAwake, [Next]_vars
  PROVE  WlanWritesAwake'
<1>1. CASE CoexWrite
  BY <1>1 DEF CoexWrite, TypeOK, OneAckPerRequest, TransmitInv, ClosedBusInv,
     WlanWritesAwake, AckOut, AckInHand
<1>2. CASE WlanSend
  BY <1>2 DEF WlanSend, TypeOK, OneAckPerRequest, TransmitInv, ClosedBusInv,
     WlanWritesAwake, AckOut, AckInHand
<1>3. CASE \/ RxEntryAck \/ RxEntryRefuse \/ RxExit \/ RxGrantFlag
           \/ RxGrantAccess
  BY <1>3, ConstantsAssumption DEF RxEntryAck, Received, send_ulp_sleep_ack,
     RxEntryRefuse, RxExit, RxGrantFlag, NextProto, RxGrantAccess, TypeOK,
     OneAckPerRequest, TransmitInv, ClosedBusInv, WlanWritesAwake, AckOut,
     AckInHand
<1>4. CASE \/ CoexWake \/ CoexPick \/ CoexReleaseIntention
           \/ CoexReleaseAccess \/ CoexReleaseUpdate \/ CoexCheck
           \/ CoexRequest \/ CoexRecheck \/ CoexArm \/ CoexWoken
           \/ CoexTimeout \/ CoexDequeue \/ CoexWritten
  BY <1>4, ConstantsAssumption DEF CoexWake, CoexPick, coex_get_queue_num,
     FirstRelease, CoexReleaseIntention, CoexReleaseAccess,
     CoexReleaseUpdate, update_tx_status, send_ulp_sleep_ack, NextRelease,
     CoexCheck, CoexRequest, CoexRecheck, CoexArm, CoexWoken, CoexTimeout,
     CoexDequeue, CoexWritten, TypeOK, OneAckPerRequest, TransmitInv,
     ClosedBusInv, WlanWritesAwake, AckOut, AckInHand
<1>5. CASE \/ WlanWake \/ WlanCheck \/ WlanRequest \/ WlanRecheck
           \/ WlanArm \/ WlanWoken \/ WlanTimeout \/ WlanWrite
           \/ WlanLoopEnd \/ WlanReleaseAccess \/ WlanReleaseUpdate
  BY <1>5, ConstantsAssumption DEF WlanWake, WlanCheck, WlanRequest,
     update_tx_status, send_ulp_sleep_ack, WlanRecheck, WlanArm, WlanWoken,
     WlanTimeout, WlanWrite, WlanLoopEnd, WlanReleaseAccess,
     WlanReleaseUpdate, TypeOK, OneAckPerRequest, TransmitInv, ClosedBusInv,
     WlanWritesAwake, AckOut, AckInHand
<1>6. CASE \/ (\E t \in Tech : SendPkt(t)) \/ SendWlanPkt
           \/ FwRequestSleep \/ FwWake \/ UNCHANGED vars
  BY <1>6, ConstantsAssumption DEF SendPkt, SendWlanPkt, FwRequestSleep,
     FwWake, vars, TypeOK, OneAckPerRequest, TransmitInv, ClosedBusInv,
     WlanWritesAwake, AckOut, AckInHand
<1>7. QED
  BY <1>1, <1>2, <1>3, <1>4, <1>5, <1>6 DEF Next, RxStep, CoexStep, WlanStep,
     EnvStep, FwStep
-----------------------------------------------------------------------------
\* The theorems

\* The bring-up state satisfies the strengthening.
LEMMA InitIInv == Init => IInv
<1> SUFFICES ASSUME Init PROVE IInv
  OBVIOUS
<1>1. OneAckPerRequest /\ WlanWritesAwake /\ HandshakeInv
  BY DEF Init, OneAckPerRequest, WlanWritesAwake, HandshakeInv, AckOut,
         AckInHand
<1>2. GrantLoopInv /\ TransmitInv /\ ClosedBusInv
  BY DEF Init, GrantLoopInv, TransmitInv, ClosedBusInv, AckInHand
<1>3. QED
  BY <1>1, <1>2, InitTypeOK DEF IInv

\* Every step keeps it.
LEMMA NextIInv == IInv /\ [Next]_vars => IInv'
  BY NextTypeOK, NextTransmitInv, NextGrantLoopInv, NextHandshakeInv,
     NextOneAck, NextClosedBus, NextWlanAwake DEF IInv

\* The strengthening is an invariant of the threads and the device.
THEOREM Inductive == Spec => []IInv
  BY InitIInv, NextIInv, PTL DEF Spec

\* The fields of the common HAL keep their types.
THEOREM TypeCorrect == Spec => []TypeOK
<1>1. IInv => TypeOK
  BY DEF IInv
<1>2. QED
  BY <1>1, Inductive, PTL

\* At most one sleep ack is on its way, and only to a device that waits for
\* it, for any number of technologies and of queued packets
\* (send_ulp_sleep_ack, sleep_entry_recvd, update_tx_status).
THEOREM OneAck == Spec => []OneAckPerRequest
<1>1. IInv => OneAckPerRequest
  BY DEF IInv
<1>2. QED
  BY <1>1, Inductive, PTL

\* The tests of send_pkt_to_coex under transmit_lock keep WLAN frames away
\* from a sleeping device.
THEOREM WlanSafe == Spec => []WlanWritesAwake
<1>1. IInv => WlanWritesAwake
  BY DEF IInv
<1>2. QED
  BY <1>1, Inductive, PTL

\* The bus under a sleeping device is open only inside the transmit_lock
\* region of the coex thread that wrote the ack.
THEOREM ClosedBus == Spec => []ClosedBusInv
<1>1. IInv => ClosedBusInv
  BY DEF IInv
<1>2. QED
  BY <1>1, Inductive, PTL

\* The only steps that grant access are update_tx_status, which tests
\* ulp_sleep_ack_sent under the lock, and the worker's grant loops.
LEMMA NoGrantStep ==
  ASSUME IInv, [Next]_vars, ulp_sleep_ack_sent \/ fw = "asleep"
  PROVE  \A t \in Tech : ~Granted(t)
<1> USE DEF IInv, TypeOK, Granted
<1>1. ulp_sleep_ack_sent
  BY DEF HandshakeInv
<1>2. CASE CoexReleaseUpdate
  BY <1>1, <1>2 DEF CoexReleaseUpdate, update_tx_status
<1>3. CASE CoexRequest
  BY <1>1, <1>3 DEF CoexRequest, update_tx_status
<1>4. CASE WlanRequest
  BY <1>1, <1>4 DEF WlanRequest, update_tx_status
<1>5. CASE WlanReleaseUpdate
  BY <1>1, <1>5 DEF WlanReleaseUpdate, update_tx_status
<1>6. CASE RxGrantAccess
  BY <1>1, <1>6 DEF RxGrantAccess, GrantLoopInv
<1>7. CASE CoexReleaseAccess \/ WlanReleaseAccess
  BY <1>7 DEF CoexReleaseAccess, WlanReleaseAccess
<1>8. CASE UNCHANGED tx_access
  BY <1>8
<1>9. QED
  BY <1>2, <1>3, <1>4, <1>5, <1>6, <1>7, <1>8
     DEF Next, RxStep, RxEntryAck, RxEntryRefuse, RxExit, RxGrantFlag,
         CoexStep, CoexWake, CoexPick, CoexReleaseIntention, CoexCheck,
         CoexRecheck, CoexArm, CoexWoken, CoexTimeout, CoexDequeue, CoexWrite,
         CoexWritten, WlanStep, WlanWake, WlanCheck, WlanRecheck, WlanArm,
         WlanWoken, WlanTimeout, WlanSend, WlanWrite, WlanLoopEnd, EnvStep,
         SendPkt, SendWlanPkt, FwStep, FwRequestSleep, FwWake, vars

\* No step gives a technology access while an ack is queued or sent.
THEOREM NoGrant == Spec => NoGrantAfterAck
<1>1. IInv /\ [Next]_vars =>
        [ulp_sleep_ack_sent \/ fw = "asleep" => \A t \in Tech : ~Granted(t)]_vars
  BY NoGrantStep
<1>2. QED
  BY <1>1, Inductive, PTL DEF Spec, NoGrantAfterAck

-----------------------------------------------------------------------------
\* The refinement of SleepHandshake

USE DEF Handshake!vars, Handshake!Next, Handshake!Move

\* A step that touches neither the device, nor the accesses, nor the acks,
\* nor the WLAN thread's write is a stutter of the handshake.
LEMMA Stutter ==
  ASSUME UNCHANGED <<fw, tx_access>>, AckOut' = AckOut,
         (wpc = "write")' = (wpc = "write")
  PROVE  UNCHANGED Handshake!vars
  BY DEF Phase, Open

\* Granting one technology access, while no answer is out, is Grant.
LEMMA GrantStep ==
  ASSUME TypeOK, NEW t \in Tech, tx_access' = [tx_access EXCEPT ![t] = TRUE],
         fw # "asleep", ~AckOut, ~AckOut', UNCHANGED fw,
         (wpc = "write")' = (wpc = "write")
  PROVE  Handshake!Next
<1>1. Handshake!Grant(t)
  BY DEF Handshake!Grant, Phase, Open, TypeOK
<1>2. QED
  BY <1>1

\* Taking it away is Revoke.
LEMMA RevokeStep ==
  ASSUME TypeOK, NEW t \in Tech, tx_access' = [tx_access EXCEPT ![t] = FALSE],
         UNCHANGED fw, AckOut' = AckOut, (wpc = "write")' = (wpc = "write")
  PROVE  Handshake!Next
<1>1. Handshake!Revoke(t)
  BY DEF Handshake!Revoke, Phase, Open, TypeOK
<1>2. QED
  BY <1>1

\* Queueing an ack is Answer.
LEMMA AnswerStep ==
  ASSUME fw = "requested", ~AckOut, AckOut', UNCHANGED <<fw, tx_access>>,
         (wpc = "write")' = (wpc = "write")
  PROVE  Handshake!Next
<1>1. Handshake!Answer
  BY DEF Handshake!Answer, Phase, Open
<1>2. QED
  BY <1>1

\* update_tx_status grants, answers or stutters.
LEMMA UpdateStep ==
  ASSUME IInv, NEW t \in Tech, update_tx_status(t), UNCHANGED fw,
         AckInHand' = AckInHand, (wpc = "write")' = (wpc = "write")
  PROVE  [Handshake!Next]_Handshake!vars
<1> USE DEF IInv
<1>1. CASE tx_access' # tx_access
  <2>1. tx_access' = [tx_access EXCEPT ![t] = TRUE] /\ ~ulp_sleep_ack_sent
        /\ UNCHANGED coex_queues
    BY <1>1 DEF update_tx_status
  <2>2. fw # "asleep" /\ ~AckOut /\ ~AckOut'
    BY <2>1 DEF HandshakeInv, OneAckPerRequest, AckOut
  <2>3. QED
    BY <2>1, <2>2, GrantStep
<1>2. CASE tx_access' = tx_access /\ coex_queues' # coex_queues
  <2>1. /\ sleep_entry_recvd /\ ~ulp_sleep_ack_sent
        /\ coex_queues' = [coex_queues EXCEPT ![COEX_Q] = @ + 1]
    BY <1>2 DEF update_tx_status, send_ulp_sleep_ack
  <2>2. fw = "requested" /\ ~AckOut /\ AckOut'
    BY <2>1 DEF HandshakeInv, OneAckPerRequest, AckOut, TypeOK
  <2>3. QED
    BY <1>2, <2>2, AnswerStep
<1>3. CASE UNCHANGED <<tx_access, coex_queues>>
  BY <1>3, Stutter DEF AckOut
<1>4. QED
  BY <1>1, <1>2, <1>3

\* Every step of the threads and the device is a step or a stutter of the
\* handshake.
LEMMA HandshakeStep ==
  ASSUME IInv, [Next]_vars
  PROVE  [Handshake!Next]_Handshake!vars
<1> USE DEF IInv
<1>1. CASE RxEntryAck
  <2>1. fw = "requested" /\ ~AckOut
    BY <1>1, NotifyQueues DEF RxEntryAck, Received, HandshakeInv,
       TypeOK
  <2>2. CASE coex_queues' = [coex_queues EXCEPT ![COEX_Q] = @ + 1]
    BY <1>1, <2>1, <2>2, AnswerStep DEF RxEntryAck, AckOut, TypeOK
  <2>3. CASE UNCHANGED coex_queues
    BY <1>1, <2>3, Stutter DEF RxEntryAck, AckOut, AckInHand
  <2>4. QED
    BY <1>1, <2>2, <2>3 DEF RxEntryAck, send_ulp_sleep_ack
<1>2. CASE RxGrantAccess
  <2>1. proto_id \in Tech /\ ~ulp_sleep_ack_sent
    BY <1>2 DEF RxGrantAccess, GrantLoopInv, TypeOK
  <2>2. fw # "asleep" /\ ~AckOut /\ ~AckOut'
    BY <1>2, <2>1 DEF RxGrantAccess, HandshakeInv, OneAckPerRequest, AckOut,
       AckInHand
  <2>3. QED
    BY <1>2, <2>1, <2>2, GrantStep DEF RxGrantAccess
<1>3. CASE CoexReleaseAccess
  <2>1. TechOf(cq) \in Tech /\ AckOut' = AckOut
    BY <1>3 DEF CoexReleaseAccess, AckOut, AckInHand
  <2>2. QED
    BY <1>3, <2>1, RevokeStep DEF CoexReleaseAccess
<1>4. CASE CoexReleaseUpdate
  <2>1. TechOf(cq) \in Tech /\ AckInHand' = AckInHand
    BY <1>4 DEF CoexReleaseUpdate, AckInHand
  <2>2. QED
    BY <1>4, <2>1, UpdateStep DEF CoexReleaseUpdate
<1>5. CASE CoexRequest
  <2>1. TechOf(cq) \in Tech /\ AckInHand' = AckInHand
    BY <1>5 DEF CoexRequest, AckInHand
  <2>2. QED
    BY <1>5, <2>1, UpdateStep DEF CoexRequest
<1>6. CASE CoexDequeue
  <2>1. AckOut' = AckOut
    BY <1>6 DEF CoexDequeue, AckOut, AckInHand, TransmitInv, TypeOK,
       OneAckPerRequest
  <2>2. QED
    BY <1>6, <2>1, Stutter DEF CoexDequeue
<1>7. CASE CoexWrite
  <2>1. CASE cq = COEX_Q
    <3>1. fw = "requested" /\ AckOut /\ ~AckOut' /\ wpc # "write"
      BY <1>7, <2>1 DEF CoexWrite, OneAckPerRequest, TransmitInv, TypeOK,
         AckOut, AckInHand
    <3>2. CASE fw' = "asleep"
      <4>1. Handshake!Sleep
        BY <1>7, <3>1, <3>2 DEF CoexWrite, Handshake!Sleep, Phase, Open
      <4>2. QED
        BY <4>1
    <3>3. CASE UNCHANGED fw
      <4>1. Handshake!LoseAnswer
        BY <1>7, <3>1, <3>3 DEF CoexWrite, Handshake!LoseAnswer, Phase, Open
      <4>2. QED
        BY <4>1
    <3>4. QED
      BY <1>7, <2>1, <3>2, <3>3 DEF CoexWrite
  <2>2. CASE cq # COEX_Q
    <3>1. AckOut' = AckOut /\ UNCHANGED fw
      BY <1>7, <2>2 DEF CoexWrite, AckOut, AckInHand
    <3>2. QED
      BY <1>7, <3>1, Stutter DEF CoexWrite
  <2>3. QED
    BY <2>1, <2>2
<1>8. CASE WlanReleaseAccess
  <2>1. AckOut' = AckOut /\ (wpc = "write")' = (wpc = "write")
    BY <1>8 DEF WlanReleaseAccess, AckOut, AckInHand
  <2>2. QED
    BY <1>8, <2>1, RevokeStep DEF WlanReleaseAccess
<1>9. CASE WlanRequest \/ WlanReleaseUpdate
  <2>1. /\ update_tx_status(WLAN_ID) /\ UNCHANGED fw
        /\ AckInHand' = AckInHand /\ (wpc = "write")' = (wpc = "write")
    BY <1>9 DEF WlanRequest, WlanReleaseUpdate, AckInHand
  <2>2. QED
    BY <2>1, UpdateStep
<1>10. CASE WlanSend
  <2>1. CASE wpc' = "write"
    <3>1. fw # "asleep"
      BY <1>10, <2>1 DEF WlanSend, ClosedBusInv, TransmitInv
    <3>2. Handshake!BeginWrite
      BY <1>10, <2>1, <3>1
         DEF WlanSend, Handshake!BeginWrite, Phase, Open, AckOut, AckInHand
    <3>3. QED
      BY <3>2
  <2>2. CASE wpc' # "write"
    BY <1>10, <2>2, Stutter DEF WlanSend, AckOut, AckInHand
  <2>3. QED
    BY <2>1, <2>2
<1>11. CASE WlanWrite
  <2>1. Handshake!EndWrite
    BY <1>11
       DEF WlanWrite, Handshake!EndWrite, Phase, Open, AckOut, AckInHand
  <2>2. QED
    BY <2>1
<1>12. CASE FwRequestSleep
  <2>1. ~AckOut /\ ~AckOut'
    BY <1>12 DEF FwRequestSleep, OneAckPerRequest, AckOut, AckInHand
  <2>2. Handshake!RequestSleep
    BY <1>12, <2>1 DEF FwRequestSleep, Handshake!RequestSleep, Phase, Open
  <2>3. QED
    BY <2>2
<1>13. CASE FwWake
  <2>1. Handshake!Wake
    BY <1>13 DEF FwWake, Handshake!Wake, Phase, Open
  <2>2. QED
    BY <2>1
<1>14. CASE \/ RxEntryRefuse \/ RxExit \/ RxGrantFlag
            \/ CoexWake \/ CoexPick \/ CoexReleaseIntention \/ CoexCheck
            \/ CoexRecheck \/ CoexArm \/ CoexWoken \/ CoexTimeout
            \/ CoexWritten
  <2>1. /\ AckOut' = AckOut
        /\ UNCHANGED <<fw, tx_access, wpc>>
    BY <1>14 DEF RxEntryRefuse, RxExit, RxGrantFlag, CoexWake, CoexPick,
       CoexReleaseIntention, CoexCheck, CoexRecheck, CoexArm, CoexWoken,
       CoexTimeout, CoexWritten, AckOut, AckInHand
  <2>2. QED
    BY <2>1, Stutter
<1>15. CASE \/ WlanWake \/ WlanCheck \/ WlanRecheck \/ WlanArm \/ WlanWoken
            \/ WlanTimeout \/ WlanLoopEnd \/ SendWlanPkt \/ UNCHANGED vars
            \/ \E t \in Tech : SendPkt(t)
  <2>1. /\ AckOut' = AckOut
        /\ (wpc = "write")' = (wpc = "write")
        /\ UNCHANGED <<fw, tx_access>>
    BY <1>15 DEF WlanWake, WlanCheck, WlanRecheck, WlanArm, WlanWoken,
       WlanTimeout, WlanLoopEnd, SendWlanPkt, SendPkt, vars, AckOut,
       AckInHand, TypeOK
  <2>2. QED
    BY <2>1, Stutter
<1>16. QED
  BY <1>1, <1>2, <1>3, <1>4, <1>5, <1>6, <1>7, <1>8, <1>9, <1>10, <1>11,
     <1>12, <1>13, <1>14, <1>15
     DEF Next, RxStep, CoexStep, WlanStep, EnvStep, FwStep

\* The threads keep the promise of the handshake: refinement under the
\* mapping of TxAccess.
THEOREM Refinement == Spec => KeepsHandshake
<1>1. Init => Handshake!Init
  BY DEF Init, Handshake!Init, Phase, Open
<1>2. IInv /\ [Next]_vars => [Handshake!Next]_Handshake!vars
  BY HandshakeStep
<1>3. QED
  BY <1>1, <1>2, Inductive, PTL DEF Spec, KeepsHandshake, Handshake!Spec
=============================================================================
