------------------------- MODULE BtLifeCycle_proofs -------------------------
(***************************************************************************)
(* Proofs about BtLifeCycle, for every number of adapters and messages,    *)
(* with or without failing steps.                                          *)
(*                                                                         *)
(* IInv is inductive.  Its parts say who can be in bt_insert and bt_remove *)
(* at the same time (TurnInv), what becomes of the one adapter along the   *)
(* way (InsertInv, RemoveInv, SettledInv), and when the firmware is up     *)
(* (UpInv).  Coex, the device and the sleep handshake touch none of it.    *)
(***************************************************************************)
EXTENDS BtLifeCycle, SequenceTheorems, TLAPS

USE ConstantsAssumption
USE DEF Threads, NULL, Adapters, Message, card, state, flags, memory, access,
        bus, io, aux, vars, At, Goto, Go, Forget, Running, Live, Serial,
        Inserting, Removing, HoldsLock

-----------------------------------------------------------------------------
\* Type correctness

\* The places of each thread.
LEMMA PlacesOf ==
  /\ PC["worker"] = {"idle", "gone"} \cup WorkerPC \cup InsertPC
  /\ PC["user"] = {"idle"} \cup InsertPC \cup RemovePC
  /\ PC["unplug"] = {"idle", "gone"} \cup UnplugPC \cup RemovePC
BY DEF PC

\* A thread that goes to a place of its own.
LEMMA Moved ==
  ASSUME PlacesOK, NEW th \in Threads, NEW to \in PC[th],
         pc' = [pc EXCEPT ![th] = to]
  PROVE  PlacesOK'
BY DEF PlacesOK

\* A step of bt_insert or bt_remove starts there, and moves its thread only.
LEMMA InsertMoves ==
  ASSUME NEW th, Insert(th)
  PROVE  /\ pc[th] \in InsertPC
         /\ \E to \in InsertPC \cup {"idle"} : pc' = [pc EXCEPT ![th] = to]
BY DEF Insert, InsertLock, InsertPriv, InsertActive, InsertCore, InsertFree,
   InsertDone, InsertPC

LEMMA RemoveMoves ==
  ASSUME NEW th, Remove(th)
  PROVE  /\ pc[th] \in RemovePC
         /\ \E to \in RemovePC : pc' = [pc EXCEPT ![th] = to]
BY DEF Remove, RemovePriv, RemoveLock, RemoveTest, RemoveUpdate, RemoveCheck,
   RemoveArm, RemoveWoken, RemoveTimeout, RemoveSend, RemoveWrite,
   RemoveIntention, RemoveAccess, RemoveStatus, RemoveInactive, RemoveDeinit,
   RemoveRelease, RemoveFree, RemoveInserted, RemoveNull, RemovePC

\* Every thread stays in its code.
LEMMA PlacesStep ==
  ASSUME PlacesOK, [Next]_vars
  PROVE  PlacesOK'
<1>1. CASE \E th \in {"worker", "user"} : Insert(th)
  <2>1. PICK th \in {"worker", "user"} : Insert(th)
    BY <1>1
  <2>2. \E to \in InsertPC \cup {"idle"} : pc' = [pc EXCEPT ![th] = to]
    BY <2>1, InsertMoves
  <2>3. InsertPC \cup {"idle"} \subseteq PC[th]
    BY PlacesOf
  <2>4. QED
    BY <2>2, <2>3, Moved
<1>2. CASE \E th \in {"user", "unplug"} : Remove(th)
  <2>1. PICK th \in {"user", "unplug"} : Remove(th)
    BY <1>2
  <2>2. \E to \in RemovePC : pc' = [pc EXCEPT ![th] = to]
    BY <2>1, RemoveMoves
  <2>3. RemovePC \subseteq PC[th]
    BY PlacesOf
  <2>4. QED
    BY <2>2, <2>3, Moved
<1>3. CASE Worker /\ ~Insert("worker")
  <2>1. \/ UNCHANGED pc
        \/ \E to \in WorkerPC \cup {"idle", "insLock"} :
              pc' = [pc EXCEPT !["worker"] = to]
    BY <1>3 DEF Worker, RxCardReady, RxPacket, RxSleepEntry, RxSleepExit,
       GrantFlag, GrantAccess, ModuleInit, ReadPriv, ReadLock, ReadDeliver,
       ReadUnlock, WorkerPC
  <2>2. WorkerPC \cup {"idle", "insLock"} \subseteq PC["worker"]
    BY PlacesOf DEF InsertPC
  <2>3. QED
    BY <2>1, <2>2, Moved DEF PlacesOK
<1>4. CASE Enable \/ Disable \/ DisableDone
  <2>1. \/ UNCHANGED pc
        \/ \E to \in {"idle", "insLock", "remPriv"} :
              pc' = [pc EXCEPT !["user"] = to]
    BY <1>4 DEF Enable, Disable, DisableDone
  <2>2. {"idle", "insLock", "remPriv"} \subseteq PC["user"]
    BY PlacesOf DEF InsertPC, RemovePC
  <2>3. QED
    BY <2>1, <2>2, Moved DEF PlacesOK
<1>5. CASE Unplug \/ Detach \/ UnregisterNetdev \/ DisconnectBt \/ DisconnectDone
  <2>1. \E to \in UnplugPC \cup {"gone", "remPriv"} :
           pc' = [pc EXCEPT !["unplug"] = to]
    BY <1>5 DEF Unplug, Detach, UnregisterNetdev, DisconnectBt, DisconnectDone,
       UnplugPC
  <2>2. UnplugPC \cup {"gone", "remPriv"} \subseteq PC["unplug"]
    BY PlacesOf DEF RemovePC
  <2>3. QED
    BY <2>1, <2>2, Moved
<1>6. CASE Flush
  BY <1>6, PlacesOf DEF Flush, PlacesOK, UnplugPC
<1>7. CASE Coex \/ Device \/ OthersRelease \/ UseFreed \/ UNCHANGED vars
  BY <1>7 DEF Coex, Device, DevCardReady, DevPacket, DevSleep, DevWake, Tell,
     OthersRelease, UseFreed, PlacesOK
<1>8. QED
  BY <1>1, <1>2, <1>3, <1>4, <1>5, <1>6, <1>7 DEF Next, Worker, User, Deinit

\* What update_tx_status writes is well typed.
LEMMA UpdateType ==
  ASSUME DataOK, update_tx_status
  PROVE  /\ tx_access' \in BOOLEAN /\ bus_open' \in BOOLEAN
         /\ sleep_entry_recvd' \in BOOLEAN
         /\ dev' \in {"awake", "requested", "asleep"}
<1>1. tx_access' \in BOOLEAN
  BY DEF update_tx_status, DataOK
<1>2. bus_open' \in BOOLEAN /\ sleep_entry_recvd' \in BOOLEAN
  BY DEF update_tx_status, DataOK
<1>3. QED
  BY <1>1, <1>2 DEF update_tx_status, DataOK

\* bt_insert keeps the types.
LEMMA InsertData ==
  ASSUME DataOK, NEW th \in {"worker", "user"}, Insert(th)
  PROVE  DataOK'
<1>1. CASE InsertLock(th)
  BY <1>1 DEF InsertLock, DataOK
<1>2. CASE InsertPriv(th) \/ InsertActive(th)
  BY <1>2 DEF InsertPriv, InsertActive, DataOK
<1>3. CASE InsertCore(th)
  <2>1. default_ps_en' \in BOOLEAN
    BY <1>3 DEF InsertCore, DataOK
  <2>2. QED
    BY <1>3, <2>1 DEF InsertCore, DataOK
<1>4. CASE InsertFree(th)
  BY <1>4 DEF InsertFree, DataOK
<1>5. CASE InsertDone(th)
  <2>1. protocol_enabled' \in BOOLEAN
    BY <1>5 DEF InsertDone
  <2>2. QED
    BY <1>5, <2>1 DEF InsertDone, DataOK
<1>6. QED
  BY <1>1, <1>2, <1>3, <1>4, <1>5 DEF Insert

\* bt_remove keeps the types.
LEMMA RemoveData ==
  ASSUME DataOK, NEW th \in {"user", "unplug"}, Remove(th)
  PROVE  DataOK'
<1>1. CASE RemovePriv(th) \/ RemoveLock(th)
  <2>1. CASE RemovePriv(th)
    <3>1. /\ bt_adapter' \in [Threads -> Adapters \cup {NULL}]
          /\ fault' \in {"none", "null", "freed", "twice"}
      BY <2>1 DEF RemovePriv, DataOK
    <3>2. QED
      BY <2>1, <3>1 DEF RemovePriv, DataOK
  <2>2. CASE RemoveLock(th)
    <3>1. bt_gpl_lock' \in [Adapters -> Threads \cup {"free"}]
      BY <2>2 DEF RemoveLock, DataOK
    <3>2. QED
      BY <2>2, <3>1 DEF RemoveLock, DataOK
  <2>3. QED
    BY <1>1, <2>1, <2>2
<1>2. CASE RemoveTest(th)
  <2>1. tx_intention' \in BOOLEAN
    BY <1>2 DEF RemoveTest, DataOK
  <2>2. QED
    BY <1>2, <2>1 DEF RemoveTest, DataOK
<1>3. CASE RemoveUpdate(th) \/ RemoveStatus(th)
  BY <1>3, UpdateType DEF RemoveUpdate, RemoveStatus, DataOK
<1>4. CASE \/ RemoveCheck(th) \/ RemoveArm(th) \/ RemoveWoken(th)
           \/ RemoveTimeout(th)
  <2>1. deregister_flags' \in BOOLEAN
    BY <1>4 DEF RemoveCheck, RemoveArm, RemoveWoken, RemoveTimeout, DataOK
  <2>2. QED
    BY <1>4, <2>1
       DEF RemoveCheck, RemoveArm, RemoveWoken, RemoveTimeout, DataOK
<1>5. CASE RemoveSend(th)
  <2>1. bt_deregister_sent' \in BOOLEAN
    BY <1>5 DEF RemoveSend, DataOK
  <2>2. QED
    BY <1>5, <2>1 DEF RemoveSend, DataOK
<1>6. CASE RemoveWrite(th)
  <2>1. fault' \in {"none", "null", "freed", "twice"}
    BY <1>6 DEF RemoveWrite, DataOK
  <2>2. QED
    BY <1>6, <2>1 DEF RemoveWrite, DataOK
<1>7. CASE \/ RemoveIntention(th) \/ RemoveAccess(th) \/ RemoveInactive(th)
           \/ RemoveInserted(th) \/ RemoveNull(th)
  <2>1. /\ tx_intention' \in BOOLEAN /\ tx_access' \in BOOLEAN
        /\ fw_state' \in BOOLEAN
    BY <1>7 DEF RemoveIntention, RemoveAccess, RemoveInactive, RemoveInserted,
       RemoveNull, DataOK
  <2>2. QED
    BY <1>7, <2>1 DEF RemoveIntention, RemoveAccess, RemoveInactive,
       RemoveInserted, RemoveNull, DataOK
<1>8. CASE RemoveDeinit(th) \/ RemoveRelease(th) \/ RemoveFree(th)
  BY <1>8, SMTT(30) DEF RemoveDeinit, RemoveRelease, RemoveFree, DataOK
<1>9. QED
  BY <1>1, <1>2, <1>3, <1>4, <1>5, <1>6, <1>7, <1>8 DEF Remove

\* The worker keeps the types.
LEMMA WorkerData ==
  ASSUME DataOK, Worker, ~Insert("worker")
  PROVE  DataOK'
<1>1. ASSUME NEW m, Received(m) PROVE deferred_rx_queue' \in Seq(Message)
  BY <1>1, HeadTailProperties DEF Received, DataOK
<1>2. CASE RxCardReady
  <2>1. /\ fw_state' \in BOOLEAN /\ bt_deregister_sent' \in BOOLEAN
        /\ bus_open' \in BOOLEAN
    BY <1>2 DEF RxCardReady
  <2>2. QED
    BY <1>1, <1>2, <2>1 DEF RxCardReady, DataOK
<1>3. CASE RxPacket
  BY <1>1, <1>3 DEF RxPacket, DataOK
<1>4. CASE RxSleepEntry
  <2>1. bus_open' \in BOOLEAN
    BY <1>4 DEF RxSleepEntry
  <2>2. QED
    BY <1>1, <1>4, <2>1 DEF RxSleepEntry, DataOK
<1>5. CASE RxSleepExit
  <2>1. sleep_entry_recvd' \in BOOLEAN /\ bus_open' \in BOOLEAN
    BY <1>5 DEF RxSleepExit
  <2>2. QED
    BY <1>1, <1>5, <2>1 DEF RxSleepExit, DataOK
<1>6. ASSUME NEW flag, NEW give, NEW done, GrantFlag(flag, give, done)
      PROVE  DataOK'
  <2>1. deregister_flags' \in BOOLEAN
    BY <1>6 DEF GrantFlag
  <2>2. QED
    BY <1>6, <2>1 DEF GrantFlag, DataOK
<1>7. ASSUME NEW give, NEW done, GrantAccess(give, done) PROVE DataOK'
  BY <1>7 DEF GrantAccess, DataOK
<1>8. CASE ModuleInit
  BY <1>8 DEF ModuleInit, DataOK
<1>9. CASE ReadPriv \/ ReadLock \/ ReadDeliver \/ ReadUnlock
  BY <1>9 DEF ReadPriv, ReadLock, ReadDeliver, ReadUnlock, DataOK
<1>10. QED
  BY <1>2, <1>3, <1>4, <1>5, <1>6, <1>7, <1>8, <1>9 DEF Worker

\* Every step keeps the types.
LEMMA DataStep ==
  ASSUME DataOK, [Next]_vars
  PROVE  DataOK'
<1>1. CASE \E th \in {"worker", "user"} : Insert(th)
  BY <1>1, InsertData
<1>2. CASE \E th \in {"user", "unplug"} : Remove(th)
  BY <1>2, RemoveData
<1>3. CASE Worker /\ ~Insert("worker")
  BY <1>3, WorkerData
<1>4. CASE Enable
  BY <1>4 DEF Enable, Issued, DataOK
<1>5. CASE Disable \/ DisableDone
  <2>1. protocol_enabled' \in BOOLEAN
    BY <1>5 DEF Disable, DisableDone, DataOK
  <2>2. QED
    BY <1>5, <2>1 DEF Disable, DisableDone, Issued, DataOK
<1>6. CASE Unplug \/ Flush \/ Detach \/ UnregisterNetdev
  <2>1. netdev' \in BOOLEAN
    BY <1>6 DEF Unplug, Flush, Detach, UnregisterNetdev, DataOK
  <2>2. QED
    BY <1>6, <2>1 DEF Unplug, Flush, Detach, UnregisterNetdev, DataOK
<1>7. CASE DisconnectBt \/ DisconnectDone
  <2>1. deregister_flags' \in BOOLEAN
    BY <1>7 DEF DisconnectBt, DisconnectDone, DataOK
  <2>2. QED
    BY <1>7, <2>1 DEF DisconnectBt, DisconnectDone, DataOK
<1>8. CASE Coex
  <2>1. tx_intention' \in BOOLEAN /\ deregister_flags' \in BOOLEAN
    BY <1>8 DEF Coex, DataOK
  <2>2. /\ tx_access' \in BOOLEAN /\ bus_open' \in BOOLEAN
        /\ sleep_entry_recvd' \in BOOLEAN
        /\ dev' \in {"awake", "requested", "asleep"}
    BY <1>8, UpdateType DEF Coex, DataOK
  <2>3. QED
    BY <1>8, <2>1, <2>2 DEF Coex, DataOK
<1>9. CASE Device
  <2>1. ASSUME NEW m \in Message, Tell(m)
        PROVE  deferred_rx_queue' \in Seq(Message)
    BY <2>1 DEF Tell, DataOK
  <2>2. deferred_rx_queue' \in Seq(Message)
    BY <1>9, <2>1 DEF Device, DevCardReady, DevPacket, DevSleep, DevWake
  <2>3. /\ dev' \in {"awake", "requested", "asleep"}
        /\ bt_fw' \in {"booted", "running"}
    BY <1>9 DEF Device, DevCardReady, DevPacket, DevSleep, DevWake, DataOK
  <2>4. QED
    BY <1>9, <2>2, <2>3
       DEF Device, DevCardReady, DevPacket, DevSleep, DevWake, Tell, DataOK
<1>10. CASE OthersRelease \/ UseFreed \/ UNCHANGED vars
  <2>1. bus_open' \in BOOLEAN /\ dev' \in {"awake", "requested", "asleep"}
    BY <1>10 DEF OthersRelease, UseFreed, DataOK
  <2>2. QED
    BY <1>10, <2>1 DEF OthersRelease, UseFreed, DataOK
<1>11. QED
  BY <1>1, <1>2, <1>3, <1>4, <1>5, <1>6, <1>7, <1>8, <1>9, <1>10
     DEF Next, Worker, User, Deinit

-----------------------------------------------------------------------------
\* What most of the invariant is about, and the steps that leave it alone.

core == <<card, state, memory, pc, bt_adapter, aux>>

LEMMA Quiet ==
  ASSUME Coex \/ Device \/ OthersRelease \/ UNCHANGED vars
  PROVE  UNCHANGED core
BY DEF Coex, Device, DevCardReady, DevPacket, DevSleep, DevWake, Tell,
   OthersRelease, core

\* A step with a fault, or an overlap, behind it has it before it.
LEMMA SerialBack ==
  ASSUME DataOK, [Next]_vars, Serial'
  PROVE  Serial
<1>1. CASE UNCHANGED core
  BY <1>1 DEF core
<1>2. CASE ~UNCHANGED core
  <2>1. Running
    BY <1>2, Quiet DEF Next, Worker, User, Deinit, Insert, Remove,
       InsertLock, InsertPriv, InsertActive, InsertCore, InsertFree,
       InsertDone, RemovePriv, RemoveLock, RemoveTest, RemoveUpdate,
       RemoveCheck, RemoveArm, RemoveWoken, RemoveTimeout, RemoveSend,
       RemoveWrite, RemoveIntention, RemoveAccess, RemoveStatus,
       RemoveInactive, RemoveDeinit, RemoveRelease, RemoveFree,
       RemoveInserted, RemoveNull, Enable, Disable, DisableDone, Received,
       RxCardReady, RxPacket, RxSleepEntry, RxSleepExit, GrantFlag,
       GrantAccess, ModuleInit, ReadPriv, ReadLock, ReadDeliver, ReadUnlock,
       Unplug, Flush, Detach, UnregisterNetdev, DisconnectBt, DisconnectDone,
       UseFreed
  <2>2. ioctls' = ioctls \/ ioctls' = "overlap" \/ ioctls # "overlap"
    BY <1>2, Quiet DEF Next, Worker, User, Deinit, Insert, Remove,
       InsertLock, InsertPriv, InsertActive, InsertCore, InsertFree,
       InsertDone, RemovePriv, RemoveLock, RemoveTest, RemoveUpdate,
       RemoveCheck, RemoveArm, RemoveWoken, RemoveTimeout, RemoveSend,
       RemoveWrite, RemoveIntention, RemoveAccess, RemoveStatus,
       RemoveInactive, RemoveDeinit, RemoveRelease, RemoveFree,
       RemoveInserted, RemoveNull, Enable, Disable, DisableDone, Issued,
       RxCardReady, RxPacket, RxSleepEntry, RxSleepExit, GrantFlag,
       GrantAccess, ModuleInit, ReadPriv, ReadLock, ReadDeliver, ReadUnlock,
       Unplug, Flush, Detach, UnregisterNetdev, DisconnectBt, DisconnectDone,
       UseFreed
  <2>3. QED
    BY <2>1, <2>2
<1>3. QED
  BY <1>1, <1>2

-----------------------------------------------------------------------------
\* One thread at a time in bt_insert and bt_remove.

\* Where bt_remove goes only with the card aboard.
Asking == {"remUpdate", "remCheck", "remArm", "remWait", "remSend"} \cup Telling

LEMMA TurnStep ==
  ASSUME TypeOK, TurnInv, [Next]_vars
  PROVE  TurnInv'
<1> USE DEF TypeOK, DataOK, PlacesOK, TurnInv, InsertPC, RemovePC, CardReadyPC,
        Telling
<1>0. PlacesOK' /\ (Serial' => Serial)
  BY PlacesStep, SerialBack
<1>1. CASE \E th \in {"worker", "user"} : Insert(th)
  <2>1. PICK th \in {"worker", "user"} : Insert(th)
    BY <1>1
  <2>2. /\ pc[th] \in InsertPC
        /\ \E to \in InsertPC \cup {"idle"} : pc' = [pc EXCEPT ![th] = to]
        /\ UNCHANGED <<card, ioctls, fault>>
    BY <2>1 DEF Insert, InsertLock, InsertPriv, InsertActive, InsertCore,
       InsertFree, InsertDone
  <2>3. QED
    BY <2>1, <2>2, <1>0, PlacesOf
<1>2. CASE \E th \in {"user", "unplug"} : Remove(th)
  <2>1. PICK th \in {"user", "unplug"} : Remove(th)
    BY <1>2
  <2>2. /\ pc[th] \in RemovePC
        /\ \E to \in RemovePC :
              /\ pc' = [pc EXCEPT ![th] = to]
              /\ card_state = "detach" /\ pc[th] \notin Asking => to \notin Asking
        /\ UNCHANGED <<card, ioctls>>
    BY <2>1 DEF Remove, RemovePriv, RemoveLock, RemoveTest, RemoveUpdate,
       RemoveCheck, RemoveArm, RemoveWoken, RemoveTimeout, RemoveSend,
       RemoveWrite, RemoveIntention, RemoveAccess, RemoveStatus,
       RemoveInactive, RemoveDeinit, RemoveRelease, RemoveFree,
       RemoveInserted, RemoveNull, Asking
  <2>3. CASE th = "unplug"
    BY <2>3, <2>2, <1>0, PlacesOf DEF Asking
  <2>4. CASE th = "user"
    BY <2>4, <2>2, <1>0, PlacesOf
  <2>5. QED
    BY <2>3, <2>4
<1>3. CASE Worker /\ ~Insert("worker")
  BY <1>0, <1>3, PlacesOf DEF Worker, RxCardReady, RxPacket, RxSleepEntry,
     RxSleepExit, Received,
     GrantFlag, GrantAccess, ModuleInit, ReadPriv, ReadLock, ReadDeliver,
     ReadUnlock, WorkerPC
<1>4. CASE Enable \/ Disable \/ DisableDone
  BY <1>0, <1>4, PlacesOf DEF Enable, Disable, DisableDone, Issued
<1>5. CASE Unplug \/ Flush \/ Detach \/ UnregisterNetdev
  BY <1>0, <1>5, PlacesOf DEF Unplug, Flush, Detach, UnregisterNetdev
<1>6. CASE DisconnectBt \/ DisconnectDone
  BY <1>0, <1>6, PlacesOf DEF DisconnectBt, DisconnectDone
<1>7. CASE UseFreed
  BY <1>0, <1>7 DEF UseFreed
<1>8. CASE UNCHANGED core
  BY <1>8 DEF core
<1>9. QED
  BY <1>1, <1>2, <1>3, <1>4, <1>5, <1>6, <1>7, <1>8, Quiet
     DEF Next, Worker, User, Deinit

-----------------------------------------------------------------------------
\* One thread at a time means: whoever is in bt_insert or bt_remove is alone.

LEMMA Alone ==
  ASSUME TypeOK, TurnInv, Serial,
         NEW th \in Threads, Inserting(th) \/ Removing(th),
         NEW t \in Threads, t # th
  PROVE  ~Inserting(t) /\ ~Removing(t)
BY PlacesOf DEF TypeOK, PlacesOK, TurnInv, InsertPC, RemovePC, CardReadyPC,
   WorkerPC, UnplugPC

\* The state of one adapter along bt_insert.
LEMMA InsertInvStep ==
  ASSUME IInv, [Next]_vars, Serial'
  PROVE  InsertInv'
<1> USE DEF TypeOK, DataOK, PlacesOK, InsertInv, AliveOnly
<1>0. /\ Serial /\ TypeOK /\ TypeOK' /\ TurnInv
      /\ InsertInv /\ RemoveInv /\ SettledInv /\ UpInv
  BY PlacesStep, DataStep, SerialBack DEF IInv
<1>1. CASE \E th \in {"worker", "user"} : Insert(th)
  <2>1. PICK th \in {"worker", "user"} : Insert(th)
    BY <1>1
  <2>2. \A t \in Threads :
           t # th => pc'[t] = pc[t] /\ pc[t] \notin InsertPC \cup RemovePC
    BY <2>1, <1>0, Alone DEF Insert, InsertLock, InsertPriv, InsertActive,
       InsertCore, InsertFree, InsertDone, InsertPC
  <2>3. CASE InsertLock(th)
    <3>1. ~Midway
      BY <2>2, <2>3 DEF Midway, InsertLock, InsertPC, RemovePC
    <3>2. drv_state # "ACTIVE" => AliveOnly({})
      BY <3>1, <1>0 DEF SettledInv
    <3>3. CASE UNCHANGED adapters /\ pc' = [pc EXCEPT ![th] = "insDone"]
      BY <3>3, <2>2, <1>0 DEF InsertPC
    <3>4. CASE /\ drv_state # "ACTIVE" /\ UNCHANGED drv_state
               /\ pc' = [pc EXCEPT ![th] = "insPriv"]
               /\ \E a \in Adapters :
                     /\ adapters' = [adapters EXCEPT ![a] = "raw"]
                     /\ bt_adapter' = [bt_adapter EXCEPT ![th] = a]
      <4>1. PICK a \in Adapters :
               /\ adapters' = [adapters EXCEPT ![a] = "raw"]
               /\ bt_adapter' = [bt_adapter EXCEPT ![th] = a]
        BY <3>4
      <4>2. /\ bt_adapter'[th] = a /\ adapters'[a] = "raw" /\ pc'[th] = "insPriv"
            /\ \A b \in Adapters : adapters'[b] \in {"unborn", "freed"} \/ b = a
        BY <4>1, <3>2, <3>4, <2>1, <1>0
      <4>3. QED
        BY <4>2, <3>4, <2>2 DEF InsertPC
    <3>5. QED
      BY <3>3, <3>4, <2>3 DEF InsertLock
  <2>4. CASE InsertPriv(th)
    BY <2>2, <2>4, <1>0 DEF InsertPriv, InsertPC
  <2>5. CASE InsertActive(th)
    BY <2>2, <2>5, <1>0 DEF InsertActive, InsertPC
  <2>6. CASE InsertCore(th)
    BY <2>2, <2>6, <1>0 DEF InsertCore, InsertPC
  <2>7. CASE InsertFree(th) \/ InsertDone(th)
    BY <2>2, <2>7, <1>0 DEF InsertFree, InsertDone, InsertPC
  <2>8. QED
    BY <2>1, <2>3, <2>4, <2>5, <2>6, <2>7 DEF Insert
<1>2. CASE \E th \in {"user", "unplug"} : Remove(th)
  <2>1. PICK th \in {"user", "unplug"} : Remove(th)
    BY <1>2
  <2>2. pc[th] \in RemovePC /\ \E to \in RemovePC : pc' = [pc EXCEPT ![th] = to]
    BY <2>1, RemoveMoves
  <2>3. \A t \in Threads : pc'[t] \notin InsertPC
    BY <2>1, <2>2, <1>0, Alone DEF InsertPC, RemovePC
  <2>4. QED
    BY <2>3 DEF InsertPC
<1>3. CASE Worker /\ ~Insert("worker")
  <2>1. CASE ModuleInit
    <3>1. \A t \in Threads :
             pc'[t] \notin {"insPriv", "insActive", "insCore", "insFree"}
      BY <2>1, <1>0, PlacesOf
         DEF ModuleInit, UpInv, TurnInv, CardReadyPC, RemovePC, WorkerPC,
         UnplugPC, InsertPC
    <3>2. QED
      BY <3>1
  <2>2. CASE ~ModuleInit
    <3>1. /\ UNCHANGED <<drv_state, adapters, priv>>
          /\ UNCHANGED <<bt_adapter["user"], bt_adapter["unplug"]>>
          /\ UNCHANGED <<pc["user"], pc["unplug"]>>
          /\ pc'["worker"] \notin InsertPC
      BY <2>2, <1>0, <1>3, PlacesOf
         DEF Worker, RxCardReady, RxPacket, RxSleepEntry, RxSleepExit, Received,
         GrantFlag, GrantAccess, ReadPriv, ReadLock, ReadDeliver, ReadUnlock,
         InsertPC
    <3>2. QED
      BY <3>1, <1>0 DEF InsertPC
  <2>3. QED
    BY <2>1, <2>2
<1>4. CASE Enable \/ Disable \/ DisableDone
  BY <1>0, <1>4, PlacesOf DEF Enable, Disable, DisableDone, Issued
<1>5. CASE Unplug \/ Flush \/ Detach \/ UnregisterNetdev
  BY <1>0, <1>5, PlacesOf DEF Unplug, Flush, Detach, UnregisterNetdev
<1>6. CASE DisconnectBt \/ DisconnectDone
  BY <1>0, <1>6, PlacesOf, Alone DEF DisconnectBt, DisconnectDone, InsertPC,
     RemovePC
<1>7. CASE UseFreed
  BY <1>0, <1>7 DEF UseFreed
<1>8. CASE UNCHANGED core
  BY <1>8, <1>0 DEF core
<1>9. QED
  BY <1>1, <1>2, <1>3, <1>4, <1>5, <1>6, <1>7, <1>8, Quiet
     DEF Next, Worker, User, Deinit

\* The state of one adapter along bt_remove.
LEMMA RemoveInvStep ==
  ASSUME IInv, [Next]_vars, Serial'
  PROVE  RemoveInv'
<1> USE DEF TypeOK, DataOK, PlacesOK, RemoveInv, AliveOnly
<1>0. /\ Serial /\ TypeOK /\ TypeOK' /\ TurnInv
      /\ InsertInv /\ RemoveInv /\ SettledInv /\ UpInv
  BY PlacesStep, DataStep, SerialBack DEF IInv
<1>1. CASE \E th \in {"worker", "user"} : Insert(th)
  <2>1. PICK th \in {"worker", "user"} : Insert(th)
    BY <1>1
  <2>2. pc[th] \in InsertPC
        /\ \E to \in InsertPC \cup {"idle"} : pc' = [pc EXCEPT ![th] = to]
    BY <2>1, InsertMoves
  <2>3. \A t \in Threads : pc'[t] \notin RemovePC
    BY <2>1, <2>2, <1>0, Alone DEF InsertPC, RemovePC
  <2>4. QED
    BY <2>3 DEF RemovePC
<1>2. CASE \E th \in {"user", "unplug"} : Remove(th)
  <2>1. PICK th \in {"user", "unplug"} : Remove(th)
    BY <1>2
  <2>2. pc[th] \in RemovePC /\ \E to \in RemovePC : pc' = [pc EXCEPT ![th] = to]
    BY <2>1, RemoveMoves
  <2>3. \A t \in Threads : t # th => pc'[t] \notin RemovePC
    BY <2>1, <2>2, <1>0, Alone DEF InsertPC, RemovePC
  <2>4. CASE RemovePriv(th)
    <3>1. ~Midway
      BY <2>1, <2>4, <1>0, Alone DEF Midway, RemovePriv, InsertPC, RemovePC
    <3>2. QED
      BY <3>1, <2>3, <2>4, <1>0 DEF SettledInv, RemovePriv, RemovePC
  <2>5. CASE RemoveLock(th) \/ RemoveTest(th) \/ RemoveCheck(th) \/ RemoveArm(th)
             \/ RemoveWoken(th) \/ RemoveTimeout(th)
    BY <2>3, <2>5, <1>0 DEF RemoveLock, RemoveTest, RemoveCheck, RemoveArm,
       RemoveWoken, RemoveTimeout, RemovePC
  <2>6. CASE RemoveSend(th) \/ RemoveWrite(th) \/ RemoveIntention(th)
             \/ RemoveAccess(th) \/ RemoveInactive(th)
    BY <2>3, <2>6, <1>0 DEF RemoveSend, RemoveWrite, RemoveIntention,
       RemoveAccess, RemoveInactive, RemovePC
  <2>7. CASE RemoveUpdate(th) \/ RemoveStatus(th)
    BY <2>3, <2>7, <1>0 DEF RemoveUpdate, RemoveStatus, RemovePC
  <2>8. CASE RemoveDeinit(th)
    BY <2>3, <2>8, <1>0 DEF RemoveDeinit, RemovePC
  <2>9. CASE RemoveRelease(th) \/ RemoveFree(th)
    BY <2>3, <2>9, <1>0, SMTT(30) DEF RemoveRelease, RemoveFree, RemovePC
  <2>10. CASE RemoveInserted(th) \/ RemoveNull(th)
    BY <2>3, <2>10, <1>0 DEF RemoveInserted, RemoveNull, RemovePC
  <2>11. QED
    BY <2>1, <2>4, <2>5, <2>6, <2>7, <2>8, <2>9, <2>10 DEF Remove
<1>3. CASE Worker /\ ~Insert("worker")
  <2>1. CASE ModuleInit
    <3>1. \A t \in Threads : pc'[t] \notin RemovePC
      BY <2>1, <1>0, PlacesOf
         DEF ModuleInit, TurnInv, CardReadyPC, RemovePC, WorkerPC, UnplugPC,
         InsertPC
    <3>2. QED
      BY <3>1 DEF RemovePC
  <2>2. CASE ~ModuleInit
    <3>1. /\ UNCHANGED <<drv_state, adapters, priv>>
          /\ UNCHANGED <<bt_adapter["user"], bt_adapter["unplug"]>>
          /\ UNCHANGED <<pc["user"], pc["unplug"]>>
          /\ pc'["worker"] \notin RemovePC
      BY <2>2, <1>0, <1>3, PlacesOf
         DEF Worker, RxCardReady, RxPacket, RxSleepEntry, RxSleepExit, Received,
         GrantFlag, GrantAccess, ReadPriv, ReadLock, ReadDeliver, ReadUnlock,
         RemovePC
    <3>2. QED
      BY <3>1, <1>0 DEF RemovePC
  <2>3. QED
    BY <2>1, <2>2
<1>4. CASE Enable \/ Disable \/ DisableDone
  <2>1. \A t \in Threads : t # "user" => pc'[t] = pc[t]
    BY <1>4, <1>0 DEF Enable, Disable, DisableDone
  <2>2. UNCHANGED <<drv_state, adapters, priv>>
    BY <1>4 DEF Enable, Disable, DisableDone
  <2>3. /\ pc'["user"] \in RemovePC => pc'["user"] = "remPriv" /\ drv_state = "ACTIVE"
        /\ UNCHANGED <<bt_adapter["worker"], bt_adapter["unplug"]>>
    BY <1>4, <1>0 DEF Enable, Disable, DisableDone, RemovePC
  <2>4. QED
    BY <2>1, <2>2, <2>3, <1>0 DEF RemovePC
<1>5. CASE Unplug \/ Flush \/ Detach \/ UnregisterNetdev
  BY <1>0, <1>5, PlacesOf DEF Unplug, Flush, Detach, UnregisterNetdev, RemovePC
<1>6. CASE DisconnectBt \/ DisconnectDone
  BY <1>0, <1>6, PlacesOf DEF DisconnectBt, DisconnectDone, TurnInv, RemovePC
<1>7. CASE UseFreed
  BY <1>0, <1>7 DEF UseFreed
<1>8. CASE UNCHANGED core
  BY <1>8, <1>0 DEF core
<1>9. QED
  BY <1>1, <1>2, <1>3, <1>4, <1>5, <1>6, <1>7, <1>8, Quiet
     DEF Next, Worker, User, Deinit

\* Before and after, an active driver has one adapter that is ready.
LEMMA SettledStep ==
  ASSUME IInv, [Next]_vars, Serial'
  PROVE  SettledInv'
<1> USE DEF TypeOK, DataOK, PlacesOK, SettledInv, AliveOnly
<1>0. /\ Serial /\ TypeOK /\ TypeOK' /\ TurnInv
      /\ InsertInv /\ RemoveInv /\ SettledInv /\ UpInv
  BY PlacesStep, DataStep, SerialBack DEF IInv
<1>1. CASE \E th \in {"worker", "user"} : Insert(th)
  <2>1. PICK th \in {"worker", "user"} : Insert(th)
    BY <1>1
  <2>2. CASE InsertLock(th)
    <3>1. CASE drv_state = "ACTIVE" \/ pc'[th] = "insDone"
      <4>1. UNCHANGED <<drv_state, priv>> /\ ~Midway
        BY <2>1, <2>2, <1>0, Alone
           DEF InsertLock, Midway, InsertPC, RemovePC
      <4>2. UNCHANGED adapters
        BY <2>2, <3>1, <1>0 DEF InsertLock
      <4>3. QED
        BY <4>1, <4>2, <1>0
    <3>2. CASE pc'[th] = "insPriv"
      BY <2>1, <3>2 DEF Midway
    <3>3. QED
      BY <2>2, <3>1, <3>2, <1>0 DEF InsertLock
  <2>3. CASE InsertPriv(th) \/ InsertActive(th)
    <3>1. pc'[th] \in {"insActive", "insCore"}
      BY <2>1, <2>3, <1>0 DEF InsertPriv, InsertActive
    <3>2. QED
      BY <2>1, <3>1 DEF Midway
  <2>4. CASE InsertCore(th)
    <3>1. CASE pc'[th] = "insFree"
      BY <2>1, <3>1 DEF Midway
    <3>2. CASE pc'[th] = "insDone"
      <4>1. /\ drv_state = "ACTIVE" /\ priv = bt_adapter[th] /\ priv # NULL
            /\ AliveOnly({priv})
        BY <2>1, <2>4, <1>0 DEF InsertCore, InsertInv
      <4>2. /\ UNCHANGED <<drv_state, priv>>
            /\ adapters' = [adapters EXCEPT ![priv] = "ready"]
        BY <4>1, <2>1, <2>4, <3>2, <1>0 DEF InsertCore
      <4>3. QED
        BY <4>1, <4>2, <1>0
    <3>3. QED
      BY <2>1, <2>4, <3>1, <3>2, <1>0 DEF InsertCore
  <2>5. CASE InsertFree(th)
    BY <2>5, <1>0 DEF Midway, InsertFree, InsertInv, RemovePC
  <2>6. CASE InsertDone(th)
    BY <2>6, <1>0 DEF Midway, InsertDone, RemovePC
  <2>7. QED
    BY <2>1, <2>2, <2>3, <2>4, <2>5, <2>6 DEF Insert
<1>2. CASE \E th \in {"user", "unplug"} : Remove(th)
  <2>1. PICK th \in {"user", "unplug"} : Remove(th)
    BY <1>2
  <2>2. \E to \in RemovePC \ {"remPriv"} : pc' = [pc EXCEPT ![th] = to]
    BY <2>1 DEF Remove, RemovePriv, RemoveLock, RemoveTest, RemoveUpdate,
       RemoveCheck, RemoveArm, RemoveWoken, RemoveTimeout, RemoveSend,
       RemoveWrite, RemoveIntention, RemoveAccess, RemoveStatus,
       RemoveInactive, RemoveDeinit, RemoveRelease, RemoveFree,
       RemoveInserted, RemoveNull, RemovePC
  <2>3. QED
    BY <2>2, <1>0 DEF Midway
<1>3. CASE Worker /\ ~Insert("worker")
  <2>1. CASE ModuleInit
    <3>1. ~Midway /\ drv_state # "ACTIVE" /\ drv_state' # "ACTIVE"
      BY <2>1, <1>0, PlacesOf
         DEF ModuleInit, UpInv, Midway, TurnInv, CardReadyPC, RemovePC,
         WorkerPC, UnplugPC, InsertPC
    <3>2. QED
      BY <3>1, <2>1, <1>0 DEF ModuleInit
  <2>2. CASE ~ModuleInit
    <3>1. /\ UNCHANGED <<drv_state, adapters, priv>>
          /\ UNCHANGED <<pc["user"], pc["unplug"]>>
          /\ pc["worker"] \notin InsertPC \cup RemovePC
      BY <2>2, <1>0, <1>3, PlacesOf, SMTT(30)
         DEF Worker, RxCardReady, RxPacket, RxSleepEntry, RxSleepExit, Received,
         GrantFlag, GrantAccess, ReadPriv, ReadLock, ReadDeliver, ReadUnlock,
         RemovePC, InsertPC
    <3>2. QED
      BY <3>1, <1>0 DEF RemovePC, InsertPC, Midway
  <2>3. QED
    BY <2>1, <2>2
<1>4. CASE Enable \/ Disable \/ DisableDone
  <2>1. CASE DisableDone
    BY <2>1, <1>0 DEF DisableDone, Midway, RemoveInv, RemovePC
  <2>2. CASE Enable \/ Disable
    <3>1. ~Midway' => ~Midway
      BY <2>2, <1>0 DEF Enable, Disable, Midway, RemovePC
    <3>2. QED
      BY <3>1, <2>2, <1>0 DEF Enable, Disable
  <2>3. QED
    BY <2>1, <2>2, <1>4
<1>5. CASE Unplug \/ Flush \/ Detach \/ UnregisterNetdev
  BY <1>0, <1>5, PlacesOf
     DEF Unplug, Flush, Detach, UnregisterNetdev, Midway, RemovePC
<1>6. CASE DisconnectBt \/ DisconnectDone
  BY <1>0, <1>6, PlacesOf
     DEF DisconnectBt, DisconnectDone, Midway, RemoveInv, RemovePC
<1>7. CASE UseFreed
  BY <1>0, <1>7 DEF UseFreed
<1>8. CASE UNCHANGED core
  BY <1>8, <1>0 DEF core, Midway
<1>9. QED
  BY <1>1, <1>2, <1>3, <1>4, <1>5, <1>6, <1>7, <1>8, Quiet
     DEF Next, Worker, User, Deinit

\* When the firmware is up.
LEMMA UpStep ==
  ASSUME IInv, [Next]_vars, Serial'
  PROVE  UpInv'
<1> USE DEF TypeOK, DataOK, PlacesOK, UpInv, AwaitsCardReady, Telling
<1>0. /\ Serial /\ TypeOK /\ TypeOK' /\ TurnInv
      /\ InsertInv /\ RemoveInv /\ SettledInv /\ UpInv
  BY PlacesStep, DataStep, SerialBack DEF IInv
<1>1. CASE \E th \in {"worker", "user"} : Insert(th)
  <2>1. PICK th \in {"worker", "user"} : Insert(th)
    BY <1>1
  <2>2. /\ pc[th] \in InsertPC
        /\ \E to \in InsertPC \cup {"idle"} : pc' = [pc EXCEPT ![th] = to]
        /\ UNCHANGED <<fw_state, bt_deregister_sent>>
    BY <2>1 DEF Insert, InsertLock, InsertPriv, InsertActive, InsertCore,
       InsertFree, InsertDone, InsertPC
  <2>3. ~AwaitsCardReady
    BY <2>1, <2>2, <1>0 DEF CardReadyPC
  <2>4. th = "user" => pc["worker"] \notin CardReadyPC
    BY <2>2, <1>0 DEF TurnInv, InsertPC
  <2>5. ~AwaitsCardReady' /\ ~(fw_state' /\ bt_deregister_sent')
    BY <2>2, <2>3
  <2>6. pc'["worker"] \notin {"readyFlag", "readyAccess", "moduleInit"}
    BY <2>1, <2>2, <2>4, <1>0 DEF InsertPC, CardReadyPC
  <2>7. QED
    BY <2>5, <2>6
<1>2. CASE \E th \in {"user", "unplug"} : Remove(th)
  <2>1. PICK th \in {"user", "unplug"} : Remove(th)
    BY <1>2
  <2>2. pc[th] \in RemovePC /\ \E to \in RemovePC : pc' = [pc EXCEPT ![th] = to]
    BY <2>1, RemoveMoves
  <2>3. pc["worker"] \notin CardReadyPC
    BY <2>1, <2>2, <1>0, PlacesOf
       DEF TurnInv, CardReadyPC, RemovePC, InsertPC
  <2>4. ~Inserting("user")'
    BY <2>1, <2>2, <1>0, Alone DEF InsertPC, RemovePC
  <2>5. pc'["worker"] = pc["worker"]
    BY <2>1, <2>2, <1>0
  <2>6. CASE RemoveSend(th)
    BY <2>1, <2>3, <2>4, <2>5, <2>6, <1>0 DEF RemoveSend, TurnInv, CardReadyPC
  <2>7. CASE RemoveInactive(th)
    BY <2>1, <2>3, <2>4, <2>5, <2>7, <1>0
       DEF RemoveInactive, TurnInv, CardReadyPC
  <2>8. CASE RemoveInserted(th)
    BY <2>1, <2>3, <2>4, <2>5, <2>8, <1>0 DEF RemoveInserted, CardReadyPC
  <2>9. CASE \/ RemovePriv(th) \/ RemoveLock(th) \/ RemoveTest(th)
             \/ RemoveUpdate(th) \/ RemoveCheck(th) \/ RemoveArm(th)
             \/ RemoveWoken(th) \/ RemoveTimeout(th)
    BY <2>1, <2>3, <2>4, <2>5, <2>9, <1>0
       DEF RemovePriv, RemoveLock, RemoveTest, RemoveUpdate, RemoveCheck,
       RemoveArm, RemoveWoken, RemoveTimeout, CardReadyPC
  <2>10. CASE RemoveWrite(th) \/ RemoveIntention(th) \/ RemoveAccess(th)
             \/ RemoveStatus(th) \/ RemoveDeinit(th) \/ RemoveRelease(th)
             \/ RemoveFree(th) \/ RemoveNull(th)
    BY <2>1, <2>3, <2>4, <2>5, <2>10, <1>0
       DEF RemoveWrite, RemoveIntention, RemoveAccess, RemoveStatus,
       RemoveDeinit, RemoveRelease, RemoveFree, RemoveNull, RemoveInv,
       RemovePC, CardReadyPC
  <2>11. QED
    BY <2>1, <2>6, <2>7, <2>8, <2>9, <2>10 DEF Remove
<1>3. CASE RxCardReady
  <2>1. pc["user"] = "idle" /\ pc'["user"] = "idle"
    BY <1>3, <1>0 DEF RxCardReady, Received
  <2>2. drv_state # "ACTIVE" /\ UNCHANGED drv_state
    BY <2>1, <1>3, <1>0 DEF RxCardReady
  <2>3. fw_state' = TRUE /\ bt_deregister_sent' = FALSE
    BY <1>3 DEF RxCardReady
  <2>4. QED
    BY <2>1, <2>2, <2>3
<1>4. CASE ModuleInit
  <2>1. ~AwaitsCardReady /\ UNCHANGED <<fw_state, bt_deregister_sent>>
    BY <1>4, <1>0 DEF ModuleInit, CardReadyPC
  <2>2. QED
    BY <2>1, <1>4, <1>0 DEF ModuleInit
<1>5. CASE Worker /\ ~Insert("worker") /\ ~RxCardReady /\ ~ModuleInit
  <2>1. /\ UNCHANGED <<drv_state, fw_state, bt_deregister_sent>>
        /\ pc'["user"] = pc["user"]
    BY <1>5, <1>0
       DEF Worker, RxPacket, RxSleepEntry, RxSleepExit, Received, GrantFlag,
       GrantAccess, ReadPriv, ReadLock, ReadDeliver, ReadUnlock
  <2>2. \/ pc'["worker"] \notin CardReadyPC
        \/ /\ pc["worker"] \in {"readyFlag", "readyAccess"}
           /\ pc'["worker"] \in {"readyAccess", "moduleInit"}
    BY <1>5, <1>0
       DEF Worker, RxPacket, RxSleepEntry, RxSleepExit, Received, GrantFlag,
       GrantAccess, ReadPriv, ReadLock, ReadDeliver, ReadUnlock, CardReadyPC,
       InsertPC
  <2>3. QED
    BY <2>1, <2>2, <1>0 DEF CardReadyPC
<1>6. CASE Enable \/ Disable \/ DisableDone
  <2>1. CASE Enable
    <3>1. ~AwaitsCardReady
      BY <2>1, <1>0 DEF Enable
    <3>2. QED
      BY <3>1, <2>1, <1>0 DEF Enable, InsertPC
  <2>2. CASE Disable
    BY <2>2, <1>0 DEF Disable, InsertPC
  <2>3. CASE DisableDone
    BY <2>3, <1>0 DEF DisableDone, InsertPC, RemoveInv, RemovePC
  <2>4. QED
    BY <1>6, <2>1, <2>2, <2>3
<1>7. CASE Unplug \/ Flush \/ Detach \/ UnregisterNetdev
  BY <1>0, <1>7, PlacesOf
     DEF Unplug, Flush, Detach, UnregisterNetdev, CardReadyPC, InsertPC
<1>8. CASE DisconnectBt \/ DisconnectDone
  BY <1>0, <1>8, PlacesOf DEF DisconnectBt, DisconnectDone
<1>9. CASE UseFreed
  BY <1>0, <1>9 DEF UseFreed
<1>10. CASE Coex \/ Device \/ OthersRelease \/ UNCHANGED vars
  <2>1. UNCHANGED <<fw_state, bt_deregister_sent, drv_state, pc>>
    BY <1>10 DEF Coex, Device, DevCardReady, DevPacket, DevSleep, DevWake,
       Tell, OthersRelease
  <2>2. QED
    BY <2>1, <1>0
<1>11. QED
  BY <1>1, <1>2, <1>3, <1>4, <1>5, <1>6, <1>7, <1>8, <1>9, <1>10
     DEF Next, Worker, User, Deinit

-----------------------------------------------------------------------------
\* The lock of the adapter

\* A step that takes no lock, gives none back, and leaves no region.
LEMMA LockKept ==
  ASSUME TypeOK, LockInv, LockReturned, Serial, UNCHANGED bt_gpl_lock,
         \A t \in Threads : HoldsLock(t)' = HoldsLock(t),
         \A t \in Threads : HoldsLock(t) => bt_adapter'[t] = bt_adapter[t]
  PROVE  LockInv' /\ LockReturned'
<1>1. LockInv'
  BY DEF LockInv
<1>2. ASSUME NEW a \in Adapters, bt_gpl_lock[a] # "free"
      PROVE  HoldsLock(bt_gpl_lock[a])' /\ bt_adapter'[bt_gpl_lock[a]] = a
  <2>1. bt_gpl_lock[a] \in Threads
    BY <1>2 DEF TypeOK, DataOK
  <2>2. HoldsLock(bt_gpl_lock[a]) /\ bt_adapter[bt_gpl_lock[a]] = a
    BY <1>2 DEF LockReturned
  <2>3. QED
    BY <2>1, <2>2
<1>3. QED
  BY <1>1, <1>2 DEF LockReturned

\* Whoever is in the region of the lock holds it, and nobody else.
LEMMA LockStep ==
  ASSUME IInv, [Next]_vars, Serial'
  PROVE  LockInv' /\ LockReturned'
<1> USE DEF TypeOK, DataOK, PlacesOK, LockInv, LockReturned
<1>0. /\ Serial /\ TypeOK /\ TypeOK' /\ TurnInv
      /\ RemoveInv /\ LockInv /\ LockReturned
  BY PlacesStep, DataStep, SerialBack DEF IInv
<1>1. CASE \E th \in {"worker", "user"} : Insert(th)
  <2>1. PICK th \in {"worker", "user"} : Insert(th)
    BY <1>1
  <2>2. /\ pc[th] \in InsertPC
        /\ \E to \in InsertPC \cup {"idle"} : pc' = [pc EXCEPT ![th] = to]
        /\ UNCHANGED bt_gpl_lock
        /\ \A t \in Threads : t # th => bt_adapter'[t] = bt_adapter[t]
    BY <2>1, <1>0, SMTT(30)
       DEF Insert, InsertLock, InsertPriv, InsertActive, InsertCore,
           InsertFree, InsertDone, InsertPC
  <2>3. ~HoldsLock(th) /\ ~HoldsLock(th)'
    <3>1. pc[th] \in InsertPC /\ pc'[th] \in InsertPC \cup {"idle"}
      BY <2>1, <2>2, <1>0
    <3>2. QED
      BY <3>1 DEF InsertPC
  <2>4. \A t \in Threads : HoldsLock(t)' = HoldsLock(t)
    BY <2>1, <2>2, <2>3, <1>0
  <2>5. QED
    BY <2>2, <2>3, <2>4, <1>0, LockKept
<1>2. CASE \E th \in {"user", "unplug"} : Remove(th)
  <2>1. PICK th \in {"user", "unplug"} : Remove(th)
    BY <1>2
  <2>2. CASE RemovePriv(th)
    BY <2>1, <2>2, <1>0 DEF RemovePriv
  <2>3. CASE RemoveLock(th)
    BY <2>1, <2>3, <1>0 DEF RemoveLock, RemovePC, RemoveInv
  <2>4. CASE RemoveRelease(th)
    BY <2>1, <2>4, <1>0 DEF RemoveRelease
  <2>5. CASE ~RemovePriv(th) /\ ~RemoveLock(th) /\ ~RemoveRelease(th)
    <3>1. \E to \in RemovePC :
             /\ pc' = [pc EXCEPT ![th] = to]
             /\ HoldsLock(th) <=> to \in {"remTest", "remUpdate", "remCheck", "remArm",
                          "remWait", "remSend", "remWrite", "remIntention",
                          "remAccess", "remStatus", "remInactive", "remDeinit",
                          "remRelease"}
      BY <2>1, <2>5, <1>0 DEF Remove, RemoveTest, RemoveUpdate,
       RemoveCheck, RemoveArm, RemoveWoken, RemoveTimeout, RemoveSend,
       RemoveWrite, RemoveIntention, RemoveAccess, RemoveStatus,
       RemoveInactive, RemoveDeinit, RemoveFree,
       RemoveInserted, RemoveNull, RemovePC
    <3>2. UNCHANGED <<bt_gpl_lock, bt_adapter>>
      BY <2>1, <2>5 DEF Remove, RemoveTest, RemoveUpdate,
       RemoveCheck, RemoveArm, RemoveWoken, RemoveTimeout, RemoveSend,
       RemoveWrite, RemoveIntention, RemoveAccess, RemoveStatus,
       RemoveInactive, RemoveDeinit, RemoveFree,
       RemoveInserted, RemoveNull
    <3>3. \A t \in Threads : HoldsLock(t)' = HoldsLock(t)
      BY <2>1, <3>1, <1>0
    <3>4. QED
      BY <3>2, <3>3, <1>0
  <2>6. QED
    BY <2>2, <2>3, <2>4, <2>5
<1>3. CASE ReadLock \/ ReadDeliver \/ ReadUnlock
  <2>1. CASE ReadLock
    BY <2>1, <1>0 DEF ReadLock
  <2>2. CASE ReadDeliver
    <3>1. \A t \in Threads : HoldsLock(t)' = HoldsLock(t)
      BY <2>2, <1>0 DEF ReadDeliver
    <3>2. UNCHANGED <<bt_gpl_lock, bt_adapter>>
      BY <2>2 DEF ReadDeliver
    <3>3. QED
      BY <3>1, <3>2, <1>0, LockKept
  <2>3. CASE ReadUnlock
    BY <2>3, <1>0 DEF ReadUnlock
  <2>4. QED
    BY <2>1, <2>2, <2>3, <1>3
<1>4. CASE Worker /\ ~Insert("worker") /\ ~(ReadLock \/ ReadDeliver \/ ReadUnlock)
  <2>1. /\ UNCHANGED bt_gpl_lock
        /\ \A t \in Threads : t # "worker" =>
              bt_adapter'[t] = bt_adapter[t] /\ pc'[t] = pc[t]
        /\ ~HoldsLock("worker") /\ ~HoldsLock("worker")'
    BY <1>0, <1>4 DEF Worker, RxCardReady, RxPacket, RxSleepEntry, RxSleepExit,
       Received, GrantFlag, GrantAccess, ModuleInit, ReadPriv
  <2>2. QED
    BY <2>1, <1>0
<1>5. CASE Enable \/ Disable \/ DisableDone
  <2>1. /\ UNCHANGED bt_gpl_lock
        /\ \A t \in Threads : t # "user" =>
              bt_adapter'[t] = bt_adapter[t] /\ pc'[t] = pc[t]
        /\ ~HoldsLock("user") /\ ~HoldsLock("user")'
    BY <1>0, <1>5 DEF Enable, Disable, DisableDone
  <2>2. QED
    BY <2>1, <1>0
<1>6. CASE \/ Unplug \/ Flush \/ Detach \/ UnregisterNetdev
           \/ DisconnectBt \/ DisconnectDone
  <2>1. \A t \in Threads :
           \/ ~HoldsLock(t)' /\ ~HoldsLock(t)
           \/ pc'[t] = pc[t] /\ bt_adapter'[t] = bt_adapter[t]
    <3>1. CASE Flush
      BY <3>1, <1>0 DEF Flush
    <3>2. CASE DisconnectBt \/ DisconnectDone
      BY <3>2, <1>0 DEF DisconnectBt, DisconnectDone
    <3>3. CASE Unplug \/ Detach \/ UnregisterNetdev
      BY <3>3, <1>0 DEF Unplug, Detach, UnregisterNetdev
    <3>4. QED
      BY <1>6, <3>1, <3>2, <3>3
  <2>2. UNCHANGED bt_gpl_lock
    BY <1>6 DEF Unplug, Flush, Detach, UnregisterNetdev, DisconnectBt,
       DisconnectDone
  <2>3. QED
    BY <2>1, <2>2, <1>0, LockKept
<1>7. CASE UseFreed
  BY <1>0, <1>7 DEF UseFreed
<1>8. CASE UNCHANGED core
  BY <1>8, <1>0 DEF core
<1>9. QED
  BY <1>1, <1>2, <1>3, <1>4, <1>5, <1>6, <1>7, <1>8, Quiet
     DEF Next, Worker, User, Deinit

\* Without an ioctl the worker reads from the adapter of an active driver.
LEMMA ReaderStep ==
  ASSUME IInv, [Next]_vars, Serial'
  PROVE  ReaderInv'
<1> USE DEF TypeOK, DataOK, PlacesOK, ReaderInv
<1>0. /\ Serial /\ TypeOK /\ TypeOK' /\ TurnInv
      /\ ReaderInv /\ UpInv /\ RemoveInv
  BY PlacesStep, DataStep, SerialBack DEF IInv
<1> SUFFICES ASSUME ioctls' = "none" PROVE ReaderInv'
  BY DEF ReaderInv
<1>1. CASE Insert("worker")
  <2>1. /\ pc'["worker"] \in InsertPC \cup {"idle"}
        /\ pc'["user"] = pc["user"] /\ UNCHANGED ioctls
    BY <1>1, <1>0 DEF Insert, InsertLock, InsertPriv, InsertActive, InsertCore,
       InsertFree, InsertDone, InsertPC
  <2>2. QED
    BY <2>1, <1>0 DEF InsertPC
<1>2. CASE Insert("user") \/ Remove("user") \/ DisableDone \/ Enable \/ Disable
  <2>1. ioctls' # "none"
    BY <1>2, <1>0 DEF Insert, InsertLock, InsertPriv, InsertActive, InsertCore,
       InsertFree, InsertDone, Remove, RemovePriv, RemoveLock, RemoveTest, RemoveUpdate,
       RemoveCheck, RemoveArm, RemoveWoken, RemoveTimeout, RemoveSend,
       RemoveWrite, RemoveIntention, RemoveAccess, RemoveStatus,
       RemoveInactive, RemoveDeinit, RemoveRelease, RemoveFree,
       RemoveInserted, RemoveNull, DisableDone, Enable, Disable, Issued
  <2>2. QED
    BY <2>1
<1>3. CASE Remove("unplug")
  <2>1. /\ pc["unplug"] \in RemovePC /\ UNCHANGED ioctls
        /\ pc'["worker"] = pc["worker"] /\ pc'["user"] = pc["user"]
    BY <1>3, <1>0 DEF Remove, RemovePriv, RemoveLock, RemoveTest, RemoveUpdate,
       RemoveCheck, RemoveArm, RemoveWoken, RemoveTimeout, RemoveSend,
       RemoveWrite, RemoveIntention, RemoveAccess, RemoveStatus,
       RemoveInactive, RemoveDeinit, RemoveRelease, RemoveFree,
       RemoveInserted, RemoveNull, RemovePC
  <2>2. pc["worker"] = "gone"
    BY <2>1, <1>0 DEF TurnInv, RemovePC
  <2>3. QED
    BY <2>1, <2>2, <1>0
<1>4. CASE Worker /\ ~Insert("worker")
  <2>1. CASE ReadPriv \/ ReadLock \/ ReadDeliver \/ ReadUnlock
    BY <2>1, <1>0 DEF ReadPriv, ReadLock, ReadDeliver, ReadUnlock
  <2>2. CASE RxPacket
    BY <2>2, <1>0 DEF RxPacket, Received
  <2>3. CASE \/ RxCardReady \/ RxSleepEntry \/ RxSleepExit \/ ModuleInit
             \/ GrantFlag("exitFlag", "exitAccess", "idle")
             \/ GrantAccess("exitAccess", "idle")
             \/ GrantFlag("readyFlag", "readyAccess", "moduleInit")
             \/ GrantAccess("readyAccess", "moduleInit")
    <3>1. /\ pc'["worker"] \notin {"readPriv", "getLock", "deliver", "unlock"}
          /\ pc'["user"] = pc["user"] /\ ioctls = "none"
      BY <2>3, <1>0 DEF RxCardReady, RxSleepEntry, RxSleepExit, Received,
         GrantFlag, GrantAccess, ModuleInit
    <3>2. QED
      BY <3>1, <1>0
  <2>4. QED
    BY <1>4, <2>1, <2>2, <2>3 DEF Worker
<1>5. CASE Unplug \/ Detach \/ UnregisterNetdev \/ DisconnectBt \/ DisconnectDone
  <2>1. /\ pc'["worker"] = pc["worker"] /\ pc'["user"] = pc["user"]
        /\ bt_adapter'["worker"] = bt_adapter["worker"]
        /\ UNCHANGED <<priv, ioctls>>
        /\ UNCHANGED drv_state \/ pc["worker"] = "gone"
    BY <1>5, <1>0 DEF Unplug, Detach, UnregisterNetdev, DisconnectBt,
       DisconnectDone, TurnInv, UnplugPC, RemovePC
  <2>2. QED
    BY <2>1, <1>0
<1>6. CASE Flush
  BY <1>0, <1>6 DEF Flush
<1>7. CASE UseFreed
  BY <1>0, <1>7 DEF UseFreed
<1>8. CASE UNCHANGED core
  BY <1>8, <1>0 DEF core
<1>9. QED
  BY <1>1, <1>2, <1>3, <1>4, <1>5, <1>6, <1>7, <1>8, Quiet
     DEF Next, Worker, User, Deinit

-----------------------------------------------------------------------------
\* What the invariant is for

\* Before any ioctl nothing is used that is freed.
LEMMA NoFaultStep ==
  ASSUME IInv, [Next]_vars
  PROVE  NoIoctlNoFault'
<1> USE DEF TypeOK, DataOK, PlacesOK
<1> SUFFICES ASSUME ioctls' = "none" PROVE Running'
  BY DEF NoIoctlNoFault
<1>1. CASE UNCHANGED core
  BY <1>1 DEF core, IInv, NoIoctlNoFault
<1>2. CASE UseFreed
  <2>0. /\ Serial /\ TypeOK /\ TurnInv /\ InsertInv /\ RemoveInv
        /\ ReaderInv /\ SettledInv /\ ioctls = "none"
    BY <1>2 DEF IInv, UseFreed
  <2>1. PICK th \in Threads : pc[th] \in Derefs /\ ~Live(bt_adapter[th])
    BY <1>2 DEF UseFreed
  <2>2. CASE pc[th] \in {"insCore", "insFree"}
    BY <2>0, <2>1, <2>2 DEF InsertInv
  <2>3. CASE pc[th] \in {"remLock", "remSend", "remDeinit", "remRelease", "remFree"}
    <3>1. Removing(th) /\ th # "worker"
      BY <2>0, <2>3, PlacesOf DEF RemovePC, InsertPC, WorkerPC
    <3>2. QED
      BY <2>0, <2>1, <2>3, <3>1 DEF RemoveInv
  <2>4. CASE pc[th] \in {"getLock", "deliver", "unlock"}
    <3>1. th = "worker"
      BY <2>0, <2>4, PlacesOf DEF RemovePC, InsertPC, UnplugPC
    <3>2. ~Midway
      BY <2>0, <2>4, <3>1, PlacesOf
         DEF Midway, ReaderInv, TurnInv, RemovePC, UnplugPC, InsertPC
    <3>3. QED
      BY <2>0, <2>1, <2>4, <3>1, <3>2 DEF ReaderInv, SettledInv
  <2>5. QED
    BY <2>1, <2>2, <2>3, <2>4 DEF Derefs
<1>3. CASE Enable \/ Disable
  BY <1>3 DEF Enable, Disable, Issued
<1>4. CASE \E th \in {"user", "unplug"} : RemoveWrite(th)
  <2>1. PICK th \in {"user", "unplug"} : RemoveWrite(th)
    BY <1>4
  <2>2. ioctls = "none" /\ Serial /\ TurnInv /\ ReaderInv /\ pc[th] = "remWrite"
    BY <2>1 DEF RemoveWrite, IInv
  <2>3. QED
    BY <2>2 DEF TurnInv, ReaderInv, Telling
<1>5. CASE ~UNCHANGED core /\ ~UseFreed /\ ~Enable /\ ~Disable
           /\ ~RemoveWrite("user") /\ ~RemoveWrite("unplug")
  BY <1>5, Quiet DEF Next, Worker, User, Deinit, Insert, Remove,
       InsertLock, InsertPriv, InsertActive, InsertCore, InsertFree,
       InsertDone, RemovePriv, RemoveLock, RemoveTest, RemoveUpdate,
       RemoveCheck, RemoveArm, RemoveWoken, RemoveTimeout, RemoveSend,
       RemoveIntention, RemoveAccess, RemoveStatus,
       RemoveInactive, RemoveDeinit, RemoveRelease, RemoveFree,
       RemoveInserted, RemoveNull, DisableDone, Received,
       RxCardReady, RxPacket, RxSleepEntry, RxSleepExit, GrantFlag,
       GrantAccess, ModuleInit, ReadPriv, ReadLock, ReadDeliver, ReadUnlock,
       Unplug, Flush, Detach, UnregisterNetdev, DisconnectBt, DisconnectDone
<1>6. QED
  BY <1>1, <1>2, <1>3, <1>4, <1>5

\* A delivery to an adapter in use: bt_gpl_lock keeps the deregister frame out
\* until it is over, and finds the adapter dead or freed when it comes later.
LEMMA DeliverStep ==
  ASSUME IInv, [Next]_vars
  PROVE  DeliveredWhileUp'
<1> USE DEF TypeOK, DataOK, PlacesOK, AwaitsCardReady
<1> SUFFICES ASSUME Serial', pc'["worker"] = "deliver",
                    adapters'[bt_adapter'["worker"]] \in {"raw", "ready"}
             PROVE  fw_state' /\ ~bt_deregister_sent'
  BY DEF DeliveredWhileUp
<1>0. /\ Serial /\ TypeOK /\ TypeOK' /\ TurnInv /\ InsertInv /\ RemoveInv
      /\ SettledInv /\ UpInv /\ LockInv /\ DeliveredWhileUp
  BY PlacesStep, DataStep, SerialBack DEF IInv
<1>1. CASE Insert("user")
  <2>1. Inserting("user") /\ UNCHANGED <<fw_state, bt_deregister_sent>>
    BY <1>1 DEF Insert, InsertLock, InsertPriv, InsertActive, InsertCore,
       InsertFree, InsertDone, InsertPC
  <2>2. QED
    BY <2>1, <1>0 DEF UpInv
<1>2. CASE \E th \in {"user", "unplug"} : Remove(th)
  <2>1. PICK th \in {"user", "unplug"} : Remove(th)
    BY <1>2
  <2>2. th = "user" /\ pc["worker"] = "deliver" /\ pc[th] \in RemovePC
        /\ UNCHANGED bt_adapter["worker"]
    <3>1. pc["worker"] = "deliver" /\ pc[th] \in RemovePC
          /\ UNCHANGED bt_adapter["worker"]
      BY <2>1, <1>0 DEF Remove, RemovePriv, RemoveLock, RemoveTest,
       RemoveUpdate, RemoveCheck, RemoveArm, RemoveWoken, RemoveTimeout,
       RemoveSend, RemoveWrite, RemoveIntention, RemoveAccess, RemoveStatus,
       RemoveInactive, RemoveDeinit, RemoveRelease, RemoveFree,
       RemoveInserted, RemoveNull, RemovePC
    <3>2. QED
      BY <3>1, <2>1, <1>0 DEF TurnInv, RemovePC
  <2>3. CASE RemoveSend(th) \/ RemoveInactive(th)
    <3>1. /\ HoldsLock("user") /\ Removing("user") /\ pc["user"] # "remRelease"
          /\ UNCHANGED adapters
      BY <2>2, <2>3 DEF RemoveSend, RemoveInactive, RemovePC
    <3>2. AliveOnly({bt_adapter["user"]})
      BY <3>1, <1>0 DEF RemoveInv
    <3>3. bt_adapter["worker"] = bt_adapter["user"]
      BY <2>2, <3>1, <3>2, <1>0 DEF AliveOnly, LockInv
    <3>4. QED
      BY <2>2, <3>1, <3>3, <1>0 DEF LockInv
  <2>4. CASE ~RemoveSend(th) /\ ~RemoveInactive(th)
    <3>1. UNCHANGED <<fw_state, bt_deregister_sent>>
      BY <2>1, <2>4 DEF Remove, RemovePriv, RemoveLock, RemoveTest,
         RemoveUpdate, RemoveCheck, RemoveArm, RemoveWoken, RemoveTimeout,
         RemoveWrite, RemoveIntention, RemoveAccess, RemoveStatus,
         RemoveDeinit, RemoveRelease, RemoveFree, RemoveInserted, RemoveNull
    <3>2. \A a \in Adapters :
              adapters'[a] \in {"raw", "ready"} => adapters[a] = adapters'[a]
      BY <2>1, <2>4, <1>0 DEF Remove, RemovePriv, RemoveLock, RemoveTest,
         RemoveUpdate, RemoveCheck, RemoveArm, RemoveWoken, RemoveTimeout,
         RemoveWrite, RemoveIntention, RemoveAccess, RemoveStatus,
         RemoveDeinit, RemoveRelease, RemoveFree, RemoveInserted, RemoveNull
    <3>3. bt_adapter["worker"] \in Adapters
      BY <2>2, <1>0 DEF LockInv
    <3>4. QED
      BY <2>2, <3>1, <3>2, <3>3, <1>0 DEF DeliveredWhileUp
  <2>5. QED
    BY <2>3, <2>4
<1>3. CASE ReadLock
  <2>1. /\ drv_state = "ACTIVE" /\ bt_adapter["worker"] \in Adapters
        /\ bt_gpl_lock[bt_adapter["worker"]] = "free"
        /\ adapters[bt_adapter["worker"]] \in {"raw", "ready"}
        /\ UNCHANGED <<fw_state, bt_deregister_sent>>
    BY <1>3, <1>0 DEF ReadLock
  <2>2. ASSUME AwaitsCardReady PROVE FALSE
    <3>1. pc["user"] \in Telling \cup {"remDeinit", "remRelease", "remFree",
                                       "remInserted"}
      BY <2>1, <2>2, <1>0 DEF UpInv
    <3>2. CASE pc["user"] \in Telling \cup {"remDeinit"}
      <4>1. HoldsLock("user") /\ Removing("user") /\ pc["user"] # "remRelease"
        BY <3>2 DEF Telling, RemovePC
      <4>2. AliveOnly({bt_adapter["user"]})
        BY <4>1, <1>0 DEF RemoveInv
      <4>3. bt_adapter["worker"] = bt_adapter["user"]
        BY <2>1, <4>2 DEF AliveOnly
      <4>4. QED
        BY <2>1, <4>1, <4>3, <1>0 DEF LockInv
    <3>3. CASE pc["user"] \in {"remRelease", "remFree", "remInserted"}
      BY <2>1, <3>3, <1>0 DEF RemoveInv, RemovePC, AliveOnly
    <3>4. QED
      BY <3>1, <3>2, <3>3
  <2>3. QED
    BY <2>1, <2>2
<1>4. CASE Worker /\ ~ReadLock
  BY <1>4, <1>0 DEF Worker, Insert, InsertLock, InsertPriv, InsertActive,
     InsertCore, InsertFree, InsertDone, RxCardReady, RxPacket, RxSleepEntry,
     RxSleepExit, Received, GrantFlag, GrantAccess, ModuleInit, ReadPriv,
     ReadDeliver, ReadUnlock
<1>5. CASE \/ Enable \/ Disable \/ DisableDone \/ Unplug \/ Flush \/ Detach
           \/ UnregisterNetdev \/ DisconnectBt \/ DisconnectDone \/ UseFreed
  <2>1. /\ UNCHANGED <<fw_state, bt_deregister_sent, adapters>>
        /\ pc["worker"] = "deliver"
        /\ UNCHANGED bt_adapter["worker"]
    BY <1>5, <1>0 DEF Enable, Disable, DisableDone, Unplug, Flush, Detach,
       UnregisterNetdev, DisconnectBt, DisconnectDone, UseFreed
  <2>2. QED
    BY <2>1, <1>0 DEF DeliveredWhileUp
<1>6. CASE Coex \/ Device \/ OthersRelease \/ UNCHANGED vars
  <2>1. UNCHANGED <<fw_state, bt_deregister_sent, adapters, pc, bt_adapter>>
    BY <1>6 DEF Coex, Device, DevCardReady, DevPacket, DevSleep, DevWake,
       Tell, OthersRelease
  <2>2. QED
    BY <2>1, <1>0 DEF DeliveredWhileUp
<1>7. QED
  BY <1>1, <1>2, <1>3, <1>4, <1>5, <1>6 DEF Next, User, Deinit

\* An adapter that was allocated never becomes unborn again.
LEMMA BornStep ==
  ASSUME TypeOK, BornInv, [Next]_vars
  PROVE  BornInv'
<1> USE DEF TypeOK, DataOK, BornInv
<1>1. CASE \E th \in {"worker", "user"} : Insert(th)
  <2>1. PICK th \in {"worker", "user"} : Insert(th)
    BY <1>1
  <2>2. CASE InsertLock(th)
    BY <2>1, <2>2 DEF InsertLock
  <2>3. CASE InsertPriv(th) \/ InsertActive(th)
    BY <2>1, <2>3 DEF InsertPriv, InsertActive
  <2>4. CASE InsertCore(th) \/ InsertFree(th)
    BY <2>1, <2>4 DEF InsertCore, InsertFree
  <2>5. CASE InsertDone(th)
    BY <2>1, <2>5 DEF InsertDone
  <2>6. QED
    BY <2>1, <2>2, <2>3, <2>4, <2>5 DEF Insert
<1>2. CASE \E th \in {"user", "unplug"} : Remove(th)
  <2>1. PICK th \in {"user", "unplug"} : Remove(th)
    BY <1>2
  <2>2. CASE RemovePriv(th) \/ RemoveNull(th)
    BY <2>1, <2>2 DEF RemovePriv, RemoveNull
  <2>3. CASE RemoveDeinit(th) \/ RemoveFree(th)
    BY <2>1, <2>3 DEF RemoveDeinit, RemoveFree
  <2>4. CASE /\ ~RemovePriv(th) /\ ~RemoveNull(th)
             /\ ~RemoveDeinit(th) /\ ~RemoveFree(th)
    <3>1. UNCHANGED <<priv, adapters, bt_adapter>>
      BY <2>1, <2>4 DEF Remove, RemoveLock, RemoveTest, RemoveUpdate,
         RemoveCheck, RemoveArm, RemoveWoken, RemoveTimeout, RemoveSend,
         RemoveWrite, RemoveIntention, RemoveAccess, RemoveStatus,
         RemoveInactive, RemoveRelease, RemoveInserted
    <3>2. QED
      BY <3>1
  <2>5. QED
    BY <2>2, <2>3, <2>4
<1>3. CASE Worker /\ ~Insert("worker")
  <2>1. UNCHANGED <<priv, adapters>>
    BY <1>3 DEF Worker, RxCardReady, RxPacket, RxSleepEntry, RxSleepExit,
       GrantFlag, GrantAccess, ModuleInit, ReadPriv, ReadLock, ReadDeliver,
       ReadUnlock
  <2>2. \A th \in Threads : bt_adapter'[th] \in {bt_adapter[th], priv, NULL}
    BY <1>3 DEF Worker, RxCardReady, RxPacket, RxSleepEntry, RxSleepExit,
       GrantFlag, GrantAccess, ModuleInit, ReadPriv, ReadLock, ReadDeliver,
       ReadUnlock
  <2>3. QED
    BY <2>1, <2>2
<1>4. CASE \/ Enable \/ Disable \/ DisableDone \/ Unplug \/ Flush \/ Detach
           \/ UnregisterNetdev \/ DisconnectBt \/ DisconnectDone
  <2>1. UNCHANGED <<priv, adapters>>
    BY <1>4 DEF Enable, Disable, DisableDone, Unplug, Flush, Detach,
       UnregisterNetdev, DisconnectBt, DisconnectDone
  <2>2. \A th \in Threads : bt_adapter'[th] \in {bt_adapter[th], NULL}
    BY <1>4 DEF Enable, Disable, DisableDone, Unplug, Flush, Detach,
       UnregisterNetdev, DisconnectBt, DisconnectDone
  <2>3. QED
    BY <2>1, <2>2
<1>5. CASE UseFreed \/ UNCHANGED core
  BY <1>5 DEF UseFreed, core
<1>6. QED
  BY <1>1, <1>2, <1>3, <1>4, <1>5, Quiet DEF Next, Worker, User, Deinit

\* The bring-up state.
LEMMA InitInv == Init => IInv
<1> SUFFICES ASSUME Init PROVE IInv
  OBVIOUS
<1> USE DEF Init
<1>1. DataOK
  <2>1. deferred_rx_queue \in Seq(Message)
    OBVIOUS
  <2>2. /\ netdev \in BOOLEAN /\ wlan_mode \in BOOLEAN /\ fw_state \in BOOLEAN
        /\ bt_deregister_sent \in BOOLEAN /\ default_ps_en \in BOOLEAN
        /\ protocol_enabled \in BOOLEAN /\ tx_intention \in BOOLEAN
        /\ tx_access \in BOOLEAN /\ deregister_flags \in BOOLEAN
        /\ bus_open \in BOOLEAN /\ sleep_entry_recvd \in BOOLEAN
    OBVIOUS
  <2>3. QED
    BY <2>1, <2>2 DEF DataOK
<1>2. PlacesOK
  BY PlacesOf DEF PlacesOK
<1>3. TurnInv /\ InsertInv /\ RemoveInv
  BY DEF TurnInv, InsertInv, RemoveInv, RemovePC, Telling, CardReadyPC, InsertPC
<1>4. SettledInv /\ UpInv
  BY DEF SettledInv, AliveOnly, UpInv, AwaitsCardReady, CardReadyPC, InsertPC
<1>5. LockInv /\ LockReturned /\ ReaderInv
  BY DEF LockInv, LockReturned, ReaderInv
<1>6. BornInv /\ NoIoctlNoFault /\ DeliveredWhileUp
  BY DEF BornInv, NoIoctlNoFault, DeliveredWhileUp
<1>7. QED
  BY <1>1, <1>2, <1>3, <1>4, <1>5, <1>6 DEF IInv, TypeOK

\* IInv is inductive.
LEMMA InvStep ==
  ASSUME IInv, [Next]_vars
  PROVE  IInv'
<1>1. TypeOK'
  BY DataStep, PlacesStep DEF IInv, TypeOK
<1>2. TurnInv' /\ BornInv'
  BY TurnStep, BornStep DEF IInv
<1>3. Serial' => /\ InsertInv' /\ RemoveInv' /\ SettledInv' /\ UpInv'
                 /\ LockInv' /\ LockReturned' /\ ReaderInv'
  BY InsertInvStep, RemoveInvStep, SettledStep, UpStep, LockStep, ReaderStep
<1>4. LockReturned'
  BY <1>3 DEF LockReturned
<1>5. NoIoctlNoFault' /\ DeliveredWhileUp'
  BY NoFaultStep, DeliverStep
<1>6. QED
  BY <1>1, <1>2, <1>3, <1>4, <1>5 DEF IInv

\* In every run: the types, the turns, and the story of the one adapter.
THEOREM Inductive == Spec => []IInv
<1>1. Init => IInv
  BY InitInv
<1>2. IInv /\ [Next]_vars => IInv'
  BY InvStep
<1>3. QED
  BY <1>1, <1>2, PTL DEF Spec

\* The data of the Bluetooth driver and the places of the threads keep their
\* types in every run.
THEOREM TypeCorrect == Spec => []TypeOK
<1>1. IInv => TypeOK
  BY DEF IInv
<1>2. QED
  BY <1>1, Inductive, PTL

\* Without an ioctl the driver uses no freed adapter, whenever the card goes:
\* common_hal_deinit flushes the work queue before it removes BT.
THEOREM NoIoctlNoFaultTheorem == Spec => []NoIoctlNoFault
<1>1. IInv => NoIoctlNoFault
  BY DEF IInv
<1>2. QED
  BY <1>1, Inductive, PTL

\* bt_gpl_lock is never left behind: the early return of bt_remove that keeps
\* it is not reached, because nobody else makes the driver inactive meanwhile.
THEOREM LockReturnedTheorem == Spec => []LockReturned
<1>1. IInv => LockReturned
  BY DEF IInv
<1>2. QED
  BY <1>1, Inductive, PTL

\* Between bt_insert and bt_remove the driver is ACTIVE with one initialised
\* adapter at priv, or has none: a failed insertion frees what it allocated.
THEOREM SettledTheorem == Spec => []Settled
<1>1. IInv => Settled
  <2> SUFFICES ASSUME IInv, Serial, ~Busy PROVE
          /\ drv_state = "ACTIVE" => priv # NULL /\ adapters[priv] = "ready"
          /\ \A a \in Adapters : \/ adapters[a] \in {"unborn", "freed"}
                                 \/ drv_state = "ACTIVE" /\ a = priv
    BY DEF Settled
  <2>1. ~Midway
    BY DEF Busy, Midway, InsertPC
  <2>2. QED
    BY <2>1 DEF IInv, SettledInv, AliveOnly
<1>2. QED
  BY <1>1, Inductive, PTL

\* The worker delivers to an adapter in use only while the firmware is up: the
\* deregister frame is sent under the lock that the delivery holds.
THEOREM DeliveredWhileUpTheorem == Spec => []DeliveredWhileUp
<1>1. IInv => DeliveredWhileUp
  BY DEF IInv
<1>2. QED
  BY <1>1, Inductive, PTL

-----------------------------------------------------------------------------
\* The life of one driver

USE DEF Life!vars, Life!Next, Life!At, Life!Becomes

\* What DriverLife sees of the state.
seen == <<adapters, priv, drv_state, fw_state, bt_deregister_sent, aux>>

\* The reader depends on the worker and on the adapters only.
LEMMA ReaderSame ==
  ASSUME UNCHANGED <<pc["worker"], bt_adapter["worker"], adapters>>
  PROVE  Reader' = Reader
BY DEF Reader, InUse

\* Nothing that is seen changes.
LEMMA LifeSame ==
  ASSUME UNCHANGED seen, Reader' = Reader
  PROVE  UNCHANGED Life!vars
BY DEF seen, AwaitsCardReady

\* A step that only DriverLife's own actions describe.
LEMMA LifeStep ==
  ASSUME Serial, Serial', UNCHANGED ioctls, Life!Live
  PROVE  Life!Next
OBVIOUS

\* When things go wrong, an ioctl was issued.
LEMMA LifeBroken ==
  ASSUME IInv, [Next]_vars, ~Serial'
  PROVE  Life!Next
<1>1. NoIoctlNoFault'
  BY NoFaultStep
<1>2. ioctls' # "none"
  BY <1>1 DEF NoIoctlNoFault
<1>3. QED
  BY <1>2

\* bt_insert creates, publishes, activates and starts an adapter, or frees it.
LEMMA LifeInsert ==
  ASSUME IInv, [Next]_vars, Serial',
         NEW th \in {"worker", "user"}, Insert(th)
  PROVE  [Life!Next]_(Life!vars)
<1> USE DEF TypeOK, DataOK, PlacesOK
<1>0. /\ Serial /\ TypeOK /\ TurnInv /\ BornInv
      /\ InsertInv /\ SettledInv /\ UpInv
  BY SerialBack DEF IInv
<1>1. /\ pc[th] \in InsertPC
      /\ \E to \in InsertPC \cup {"idle"} : pc' = [pc EXCEPT ![th] = to]
  BY InsertMoves
<1>2. /\ th = "worker" => Reader = NULL /\ Reader' = NULL
      /\ th = "user" => UNCHANGED <<pc["worker"], bt_adapter["worker"]>>
  <2>1. th = "worker" => Reader = NULL /\ Reader' = NULL
    BY <1>0, <1>1 DEF Reader, InsertPC
  <2>2. th = "user" => UNCHANGED <<pc["worker"], bt_adapter["worker"]>>
    BY <1>0, <1>1 DEF Insert, InsertLock, InsertPriv, InsertActive, InsertCore,
       InsertFree, InsertDone
  <2>3. QED
    BY <2>1, <2>2
<1>3. ~AwaitsCardReady
  BY <1>0, <1>1 DEF UpInv, CardReadyPC
<1>4. CASE InsertLock(th)
  <2>1. CASE UNCHANGED adapters
    BY <1>2, <1>4, <2>1, ReaderSame, LifeSame DEF InsertLock, seen
  <2>2. CASE drv_state # "ACTIVE" /\ \E a \in Adapters :
                /\ adapters[a] = "unborn"
                /\ adapters' = [adapters EXCEPT ![a] = "raw"]
    <3>1. ~Midway
      <4>1. \A t \in Threads : t # th => pc[t] \notin InsertPC \cup RemovePC
        BY <1>0, <1>1, Alone
      <4>2. QED
        BY <1>4, <4>1 DEF Midway, InsertLock, InsertPC, RemovePC
    <3>2. Life!Alive = {}
      BY <1>0, <2>2, <3>1 DEF SettledInv, AliveOnly, Life!Alive
    <3>3. Reader' = Reader
      BY <1>0, <1>2, <2>2 DEF Reader, InUse, BornInv
    <3>4. UNCHANGED <<priv, state, ioctls>>
      BY <1>4 DEF InsertLock
    <3>5. PICK a \in Adapters : /\ adapters[a] = "unborn"
                               /\ adapters' = [adapters EXCEPT ![a] = "raw"]
      BY <2>2
    <3>6. Life!Create
      <4>1. a # NULL
        OBVIOUS
      <4>2. QED
        BY <2>2, <3>2, <3>3, <3>4, <3>5, <4>1 DEF Life!Create, AwaitsCardReady
    <3>7. QED
      BY <1>0, <3>4, <3>6, LifeStep DEF Life!Live
  <2>3. QED
    BY <1>4, <2>1, <2>2 DEF InsertLock
<1>5. CASE InsertPriv(th)
  <2>1. Life!Publish
    BY <1>0, <1>2, <1>5, ReaderSame
       DEF Life!Publish, InsertPriv, InsertInv, AwaitsCardReady
  <2>2. QED
    BY <1>0, <1>5, <2>1, LifeStep DEF Life!Live, InsertPriv
<1>6. CASE InsertActive(th)
  <2>1. Life!Activate
    BY <1>0, <1>2, <1>3, <1>6, ReaderSame
       DEF Life!Activate, InsertActive, InsertInv, AwaitsCardReady
  <2>2. QED
    BY <1>0, <1>6, <2>1, LifeStep DEF Life!Live, InsertActive
<1>7. CASE InsertCore(th)
  <2>1. /\ drv_state = "ACTIVE" /\ priv = bt_adapter[th] /\ priv # NULL
        /\ adapters[priv] = "raw"
    BY <1>0, <1>7 DEF InsertInv, InsertCore
  <2>2. Reader' = Reader
    BY <1>0, <1>2, <1>7, <2>1 DEF InsertCore, Reader, InUse
  <2>3. Life!Start
    BY <1>3, <1>7, <2>1, <2>2 DEF Life!Start, InsertCore, AwaitsCardReady
  <2>4. QED
    BY <1>0, <1>7, <2>3, LifeStep DEF Life!Live, InsertCore
<1>8. CASE InsertFree(th)
  <2>1. /\ drv_state # "ACTIVE" /\ bt_adapter[th] \in Adapters
        /\ adapters[bt_adapter[th]] = "raw"
    BY <1>0, <1>8 DEF InsertInv, InsertFree
  <2>2. Reader' = IF Reader = bt_adapter[th] THEN NULL ELSE Reader
    BY <1>0, <1>2, <1>8, <2>1 DEF InsertFree, Reader, InUse
  <2>3. Life!Free
    BY <1>8, <2>1, <2>2 DEF Life!Free, InsertFree, AwaitsCardReady
  <2>4. QED
    BY <1>0, <1>8, <2>3, LifeStep DEF Life!Live, InsertFree
<1>9. CASE InsertDone(th)
  <2>1. Reader' = Reader
    BY <1>2, <1>9, ReaderSame DEF InsertDone
  <2>2. QED
    BY <1>9, <2>1, LifeSame DEF InsertDone, seen
<1>10. QED
  BY <1>4, <1>5, <1>6, <1>7, <1>8, <1>9 DEF Insert

\* The adapter being removed is the only one, and nobody reads with it: the
\* reader would hold the same lock.
LEMMA NoReader ==
  ASSUME IInv, Serial, NEW th \in {"user", "unplug"},
         Removing(th), HoldsLock(th), pc[th] # "remRelease"
  PROVE  /\ Reader = NULL /\ drv_state = "ACTIVE"
         /\ bt_adapter[th] # NULL /\ priv = bt_adapter[th]
         /\ priv \in Adapters /\ adapters[priv] = "ready"
<1> USE DEF TypeOK, DataOK
<1>1. TypeOK /\ RemoveInv /\ LockInv
  BY DEF IInv
<1>2. /\ bt_adapter[th] # NULL /\ priv = bt_adapter[th]
      /\ adapters[priv] = "ready" /\ AliveOnly({priv})
      /\ drv_state = "ACTIVE"
  BY <1>1 DEF RemoveInv
<1>3. ASSUME Reader # NULL PROVE FALSE
  <2>1. /\ pc["worker"] = "deliver"
        /\ adapters[bt_adapter["worker"]] \in {"raw", "ready"}
    BY <1>3 DEF Reader, InUse
  <2>2. /\ bt_adapter["worker"] \in Adapters
        /\ bt_gpl_lock[bt_adapter["worker"]] = "worker"
    BY <1>1, <2>1 DEF LockInv
  <2>3. bt_adapter["worker"] = priv
    BY <1>2, <2>1, <2>2 DEF AliveOnly
  <2>4. bt_gpl_lock[priv] = th
    BY <1>1, <1>2 DEF LockInv
  <2>5. QED
    BY <2>2, <2>3, <2>4
<1>4. QED
  BY <1>1, <1>2, <1>3

\* bt_remove takes the firmware down, kills and frees the adapter, and only
\* then makes the driver inactive and forgets the adapter.
LEMMA LifeRemove ==
  ASSUME IInv, [Next]_vars, Serial',
         NEW th \in {"user", "unplug"}, Remove(th)
  PROVE  [Life!Next]_(Life!vars)
<1> USE DEF TypeOK, DataOK, PlacesOK
<1>0. Serial /\ TypeOK /\ RemoveInv
  BY SerialBack DEF IInv
<1>1. Removing(th)
  BY RemoveMoves
<1>2. UNCHANGED <<pc["worker"], bt_adapter["worker"]>>
  BY <1>0 DEF Remove, RemovePriv, RemoveLock, RemoveTest, RemoveUpdate,
     RemoveCheck, RemoveArm, RemoveWoken, RemoveTimeout, RemoveSend,
     RemoveWrite, RemoveIntention, RemoveAccess, RemoveStatus,
     RemoveInactive, RemoveDeinit, RemoveRelease, RemoveFree,
     RemoveInserted, RemoveNull
<1>3. CASE RemoveSend(th) \/ RemoveInactive(th)
  <2>1. /\ Reader = NULL /\ drv_state = "ACTIVE"
        /\ priv # NULL /\ adapters[priv] = "ready"
    BY <1>1, <1>3, NoReader DEF RemoveSend, RemoveInactive
  <2>2. /\ UNCHANGED <<priv, adapters, drv_state, aux>>
        /\ Reader' = Reader
    BY <1>2, <1>3, ReaderSame DEF RemoveSend, RemoveInactive
  <2>3. CASE AwaitsCardReady' <=> AwaitsCardReady
    BY <2>2, <2>3
  <2>4. CASE ~AwaitsCardReady /\ AwaitsCardReady'
    <3>1. Life!GoDown
      BY <2>1, <2>2, <2>4 DEF Life!GoDown
    <3>2. QED
      BY <1>0, <2>2, <3>1, LifeStep DEF Life!Live
  <2>5. QED
    BY <1>3, <2>3, <2>4 DEF RemoveSend, RemoveInactive, AwaitsCardReady
<1>4. CASE RemoveDeinit(th)
  <2>1. /\ Reader = NULL /\ drv_state = "ACTIVE" /\ priv = bt_adapter[th]
        /\ priv # NULL /\ adapters[priv] = "ready"
    BY <1>1, <1>4, NoReader DEF RemoveDeinit
  <2>2. Reader' = Reader
    BY <1>0, <1>2, <1>4, <2>1 DEF RemoveDeinit, Reader, InUse
  <2>3. Life!Kill
    BY <1>4, <2>1, <2>2 DEF Life!Kill, RemoveDeinit, AwaitsCardReady
  <2>4. QED
    BY <1>0, <1>4, <2>3, LifeStep DEF Life!Live, RemoveDeinit
<1>5. CASE RemoveFree(th)
  <2>1. /\ bt_adapter[th] \in Adapters /\ bt_adapter[th] # NULL
        /\ adapters[bt_adapter[th]] = "dead"
    BY <1>0, <1>1, <1>5 DEF RemoveFree, RemoveInv
  <2>2. Reader' = Reader /\ Reader # bt_adapter[th]
    BY <1>0, <1>2, <1>5, <2>1 DEF RemoveFree, Reader, InUse
  <2>3. /\ UNCHANGED <<priv, state>>
        /\ adapters' = [adapters EXCEPT ![bt_adapter[th]] = "freed"]
    BY <1>5 DEF RemoveFree
  <2>4. Life!Free
    BY <2>1, <2>2, <2>3 DEF Life!Free, AwaitsCardReady
  <2>5. QED
    BY <1>0, <1>5, <2>4, LifeStep DEF Life!Live, RemoveFree
<1>6. CASE RemoveInserted(th)
  <2>1. drv_state = "ACTIVE" /\ Life!Alive = {}
    BY <1>0, <1>1, <1>6
       DEF RemoveInserted, RemoveInv, AliveOnly, Life!Alive
  <2>2. Life!Deactivate
    BY <1>2, <1>6, <2>1, ReaderSame
       DEF Life!Deactivate, RemoveInserted, AwaitsCardReady
  <2>3. QED
    BY <1>0, <1>6, <2>2, LifeStep DEF Life!Live, RemoveInserted
<1>7. CASE RemoveNull(th)
  <2>1. drv_state # "ACTIVE" /\ Life!Alive = {}
    BY <1>0, <1>1, <1>7 DEF RemoveNull, RemoveInv, AliveOnly, Life!Alive
  <2>2. Life!Unpublish
    BY <1>2, <1>7, <2>1, ReaderSame
       DEF Life!Unpublish, RemoveNull, AwaitsCardReady
  <2>3. QED
    BY <1>0, <1>7, <2>2, LifeStep DEF Life!Live, RemoveNull
<1>8. CASE /\ ~RemoveSend(th) /\ ~RemoveInactive(th) /\ ~RemoveDeinit(th)
           /\ ~RemoveFree(th) /\ ~RemoveInserted(th) /\ ~RemoveNull(th)
  <2>1. UNCHANGED <<adapters, priv, state, ioctls>>
    BY <1>8 DEF Remove, RemovePriv, RemoveLock, RemoveTest, RemoveUpdate,
       RemoveCheck, RemoveArm, RemoveWoken, RemoveTimeout, RemoveWrite,
       RemoveIntention, RemoveAccess, RemoveStatus, RemoveRelease
  <2>2. QED
    BY <1>0, <1>2, <2>1, ReaderSame, LifeSame DEF seen
<1>9. QED
  BY <1>3, <1>4, <1>5, <1>6, <1>7, <1>8

\* With drv_state ACTIVE an adapter in use is the one at priv.
LEMMA InUseAtPriv ==
  ASSUME IInv, Serial, drv_state = "ACTIVE",
         NEW a \in Adapters, adapters[a] \in {"raw", "ready"}
  PROVE  priv = a
<1>1. TypeOK /\ InsertInv /\ RemoveInv /\ SettledInv
  BY DEF IInv
<1>2. CASE ~Midway
  BY <1>1, <1>2 DEF SettledInv, AliveOnly
<1>3. CASE \E th \in Threads : pc[th] \in {"insPriv", "insActive", "insCore", "insFree"}
  BY <1>1, <1>3 DEF InsertInv, AliveOnly
<1>4. CASE \E th \in Threads : Removing(th) /\ pc[th] # "remPriv"
  <2>1. PICK th \in Threads : Removing(th) /\ pc[th] # "remPriv"
    BY <1>4
  <2>2. pc[th] \notin {"remInserted", "remNull", "remDone"}
    BY <1>1, <2>1 DEF RemoveInv, AliveOnly
  <2>3. ASSUME pc[th] \in {"remRelease", "remFree"} PROVE FALSE
    <3>1. adapters[bt_adapter[th]] = "dead" /\ AliveOnly({bt_adapter[th]})
      BY <1>1, <2>1, <2>3 DEF RemoveInv
    <3>2. a = bt_adapter[th]
      BY <3>1 DEF AliveOnly
    <3>3. QED
      BY <3>1, <3>2
  <2>4. pc[th] = "remLock" \/ (HoldsLock(th) /\ pc[th] # "remRelease")
    <3>1. th # "worker"
      BY <1>1, <2>1, PlacesOf DEF RemovePC, InsertPC, WorkerPC, TypeOK, PlacesOK
    <3>2. QED
      BY <2>1, <2>2, <2>3, <3>1 DEF RemovePC
  <2>5. QED
    BY <1>1, <2>1, <2>4 DEF RemoveInv, AliveOnly
<1>5. QED
  BY <1>2, <1>3, <1>4 DEF Midway

\* The worker brings the firmware up when there is no adapter, and reads
\* packets with the adapter at priv.
LEMMA LifeWorker ==
  ASSUME IInv, [Next]_vars, Serial', Worker, ~Insert("worker")
  PROVE  [Life!Next]_(Life!vars)
<1> USE DEF TypeOK, DataOK, PlacesOK
<1>0. Serial /\ TypeOK /\ TurnInv /\ SettledInv /\ UpInv /\ DeliveredWhileUp'
  BY SerialBack, DeliverStep DEF IInv
<1>1. CASE RxCardReady
  <2>1. pc["user"] = "idle" /\ pc["worker"] = "idle"
    BY <1>0, <1>1 DEF RxCardReady, Received
  <2>2. ~Midway
    BY <1>0, <2>1, PlacesOf
       DEF Midway, TurnInv, RemovePC, InsertPC, UnplugPC
  <2>3. AwaitsCardReady /\ ~AwaitsCardReady'
    BY <1>1 DEF RxCardReady, AwaitsCardReady
  <2>4. drv_state # "ACTIVE" /\ Life!Alive = {}
    BY <1>0, <2>1, <2>2, <2>3
       DEF UpInv, SettledInv, AliveOnly, Life!Alive, Telling
  <2>5. UNCHANGED <<adapters, priv, drv_state, ioctls>>
    BY <1>0, <1>1, <2>1 DEF RxCardReady
  <2>6. Reader' = Reader
    BY <1>0, <1>1, <2>1 DEF Reader, RxCardReady
  <2>7. Life!ComeUp
    BY <2>3, <2>4, <2>5, <2>6 DEF Life!ComeUp
  <2>8. QED
    BY <1>0, <2>5, <2>7, LifeStep DEF Life!Live
<1>2. CASE ReadLock
  <2>1. UNCHANGED <<adapters, priv, state, bt_adapter, aux>>
        /\ Reader = NULL /\ bt_adapter["worker"] \in Adapters
    BY <1>0, <1>2 DEF ReadLock, Reader
  <2>2. CASE Reader' = NULL
    BY <2>1, <2>2, LifeSame DEF seen
  <2>3. CASE Reader' # NULL
    <3>1. /\ pc'["worker"] = "deliver" /\ Reader' = bt_adapter["worker"]
          /\ adapters[bt_adapter["worker"]] \in {"raw", "ready"}
      BY <2>1, <2>3 DEF Reader, InUse
    <3>2. drv_state = "ACTIVE"
      BY <1>0, <1>2, <3>1 DEF ReadLock
    <3>3. priv = bt_adapter["worker"]
      BY <1>0, <2>1, <3>1, <3>2, InUseAtPriv
    <3>4. ~AwaitsCardReady
      BY <1>0, <2>1, <3>1 DEF DeliveredWhileUp, AwaitsCardReady
    <3>5. Life!StartReading
      BY <2>1, <3>1, <3>2, <3>3, <3>4 DEF Life!StartReading, AwaitsCardReady
    <3>6. QED
      BY <1>0, <2>1, <3>5, LifeStep DEF Life!Live
  <2>4. QED
    BY <2>2, <2>3
<1>3. CASE ReadDeliver
  <2>1. UNCHANGED <<adapters, priv, state, aux>> /\ Reader' = NULL
    BY <1>0, <1>3 DEF ReadDeliver, Reader
  <2>2. CASE Reader = NULL
    BY <2>1, <2>2, LifeSame DEF seen
  <2>3. CASE Reader # NULL
    <3>1. Life!StopReading
      BY <2>1, <2>3 DEF Life!StopReading, AwaitsCardReady
    <3>2. QED
      BY <1>0, <2>1, <3>1, LifeStep DEF Life!Live
  <2>4. QED
    BY <2>2, <2>3
<1>4. CASE ModuleInit
  <2>1. drv_state # "ACTIVE" /\ drv_state' # "ACTIVE"
    BY <1>0, <1>4 DEF ModuleInit, UpInv
  <2>2. Reader' = Reader
    BY <1>0, <1>4 DEF ModuleInit, Reader
  <2>3. QED
    BY <1>4, <2>1, <2>2 DEF ModuleInit, AwaitsCardReady
<1>5. CASE ~RxCardReady /\ ~ReadLock /\ ~ReadDeliver /\ ~ModuleInit
  <2>1. /\ UNCHANGED seen
        /\ pc["worker"] # "deliver" /\ pc'["worker"] # "deliver"
    BY <1>0, <1>5 DEF Worker, RxPacket, RxSleepEntry, RxSleepExit, Received,
       GrantFlag, GrantAccess, ReadPriv, ReadUnlock, seen
  <2>2. QED
    BY <2>1, LifeSame DEF Reader
<1>6. QED
  BY <1>1, <1>2, <1>3, <1>4, <1>5

\* An ioctl is asked for; the unplugging itself takes nothing away.
LEMMA LifeOthers ==
  ASSUME IInv, [Next]_vars, Serial',
         \/ Enable \/ Disable \/ DisableDone \/ Unplug \/ Flush \/ Detach
         \/ UnregisterNetdev \/ DisconnectBt \/ DisconnectDone
  PROVE  [Life!Next]_(Life!vars)
<1> USE DEF TypeOK, DataOK, PlacesOK
<1>0. Serial /\ TypeOK /\ RemoveInv
  BY SerialBack DEF IInv
<1>1. UNCHANGED <<adapters, priv, fw_state, bt_deregister_sent>>
  BY DEF Enable, Disable, DisableDone, Unplug, Flush, Detach,
     UnregisterNetdev, DisconnectBt, DisconnectDone
<1>2. Reader' = Reader
  <2>1. CASE Flush
    BY <1>0, <2>1 DEF Flush, Reader
  <2>2. CASE ~Flush
    <3>1. UNCHANGED <<pc["worker"], bt_adapter["worker"]>>
      BY <1>0, <2>2 DEF Enable, Disable, DisableDone, Unplug, Detach,
         UnregisterNetdev, DisconnectBt, DisconnectDone
    <3>2. QED
      BY <1>1, <3>1, ReaderSame
  <2>3. QED
    BY <2>1, <2>2
<1>3. CASE Enable \/ Disable
  <2>1. UNCHANGED drv_state /\ ioctls' # "none"
    BY <1>3 DEF Enable, Disable, Issued
  <2>2. Life!Ask
    BY <1>1, <1>2, <2>1 DEF Life!Ask, AwaitsCardReady
  <2>3. QED
    BY <1>0, <2>2
<1>4. CASE DisconnectDone
  <2>1. drv_state # "ACTIVE" /\ drv_state' # "ACTIVE"
    BY <1>0, <1>4 DEF DisconnectDone, RemoveInv, RemovePC
  <2>2. QED
    BY <1>1, <1>2, <1>4, <2>1 DEF DisconnectDone, AwaitsCardReady
<1>5. CASE ~Enable /\ ~Disable /\ ~DisconnectDone
  <2>1. UNCHANGED <<drv_state, aux>>
    BY <1>5 DEF DisableDone, Unplug, Flush, Detach, UnregisterNetdev,
       DisconnectBt
  <2>2. QED
    BY <1>1, <1>2, <2>1, LifeSame DEF seen
<1>6. QED
  BY <1>3, <1>4, <1>5

\* Every step of the threads is one of DriverLife's, or none.
LEMMA LifeRefines ==
  ASSUME IInv, [Next]_vars
  PROVE  [Life!Next]_(Life!vars)
<1>1. CASE ~Serial'
  BY <1>1, LifeBroken
<1>2. CASE UNCHANGED core
  BY <1>2, LifeSame, ReaderSame DEF core, seen
<1>3. CASE Serial' /\ ~UNCHANGED core
  <2>1. ~UseFreed
    BY <1>3 DEF UseFreed
  <2>2. QED
    BY <1>3, <2>1, Quiet, LifeInsert, LifeRemove, LifeWorker, LifeOthers
       DEF Next, Worker, User, Deinit
<1>4. QED
  BY <1>1, <1>2, <1>3

\* The life of the Bluetooth driver is one adapter after another: created when
\* there is none, started under a firmware that is up, killed while nobody
\* reads with it, freed once; before any ioctl nothing else ever happens.
THEOREM KeepsLifeTheorem == Spec => KeepsLife
<1>1. Init => Life!Init
  <2> SUFFICES ASSUME Init PROVE Life!Init
    OBVIOUS
  <2>1. Reader = NULL
    BY DEF Init, Reader
  <2>2. QED
    BY <2>1 DEF Init, Life!Init, AwaitsCardReady
<1>2. IInv /\ [Next]_vars => [Life!Next]_(Life!vars)
  BY LifeRefines
<1>3. QED
  BY <1>1, <1>2, Inductive, PTL DEF Spec, KeepsLife, Life!Spec
=============================================================================
