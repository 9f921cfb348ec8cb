----------------------------- MODULE BtLifeCycle -----------------------------
(***************************************************************************)
(* The life cycle of the Bluetooth driver: card ready and bt_insert, the   *)
(* ENABLE and DISABLE requests of the protocol ioctl, bt_remove, the       *)
(* delivery of received packets through bt_gpl_read_pkt, and the removal   *)
(* of the card (common_hal_deinit).  From onebox_bt_osd_init.c, the BT     *)
(* parts of onebox_common_rx.c, onebox_wlan_ioctl.c, onebox_common_init.c  *)
(* and coex_pkt_processor.                                                 *)
(*                                                                         *)
(* Threads: "worker" is the work queue of the received packets, "user" the *)
(* one ioctl that holds RTNL, "unplug" the disconnect callback of the USB  *)
(* core; the coex thread is any writer of BT's access.  The threads share  *)
(* no lock except the one inside the adapter they remove, so each write of *)
(* a shared field is a step.  The ULP handshake itself is TxAccess; here a *)
(* sleep ack closes the bus at once.                                       *)
(*                                                                         *)
(* A step that uses a freed adapter, or frees twice, sets fault and is the *)
(* last one: what such a program does next is not defined.                 *)
(***************************************************************************)
EXTENDS Naturals, Sequences

CONSTANTS
    MaxAdapters,  \* bound: adapters allocated; the next allocation fails
    RxBound,      \* bound: messages on deferred_rx_queue
    StepsMayFail  \* allocations and onebox_core_init may fail

ASSUME ConstantsAssumption ==
    /\ MaxAdapters \in Nat \ {0}
    /\ RxBound \in Nat \ {0}
    /\ StepsMayFail \in BOOLEAN

VARIABLES
    card_state, netdev,       \* card aboard; the WLAN netdev takes ioctls
    wlan_mode,                \* oper_mode contains WLAN: ENABLE inserts BT
    drv_state, fw_state,      \* techs[BT_ID]
    bt_deregister_sent, default_ps_en, protocol_enabled,
    priv, adapters,           \* techs[BT_ID].priv; what became of each bt_priv
    bt_gpl_lock, bt_init_lock,                  \* holder, or "free"
    tx_intention, tx_access, deregister_flags,  \* techs[BT_ID]
    bus_open,                 \* common_hal_tx_access && !ulp_sleep_ack_sent
    sleep_entry_recvd,
    deferred_rx_queue,        \* received messages
    dev, bt_fw,               \* the device: its sleep, its BT firmware
    pc, bt_adapter,           \* per thread: place, local variable bt_adapter
    ioctls,                   \* history: how ioctls and card readies met
    fault

Threads  == {"worker", "user", "unplug"}
NULL     == 0
Adapters == 1 .. MaxAdapters
Message  == {"cardReady", "packet", "entry", "exit"}

card   == <<card_state, netdev, wlan_mode>>
state  == <<drv_state, fw_state, bt_deregister_sent>>
flags  == <<default_ps_en, protocol_enabled>>
memory == <<priv, adapters, bt_gpl_lock, bt_init_lock>>
access == <<tx_intention, tx_access, deregister_flags>>
bus    == <<bus_open, sleep_entry_recvd, dev>>
io     == <<deferred_rx_queue, bt_fw>>
aux    == <<ioctls, fault>>
vars   == <<card, state, flags, memory, access, bus, io, pc, bt_adapter, aux>>

InsertPC == {"insLock", "insPriv", "insActive", "insCore", "insFree", "insDone"}
RemovePC == {"remPriv", "remLock", "remTest", "remUpdate", "remCheck",
             "remArm", "remWait", "remSend", "remWrite", "remIntention", "remAccess",
             "remStatus", "remInactive", "remDeinit", "remRelease",
             "remFree", "remInserted", "remNull", "remDone"}
WorkerPC == {"exitFlag", "exitAccess", "readyFlag", "readyAccess",
             "moduleInit", "readPriv", "getLock", "deliver", "unlock"}
UnplugPC == {"flush", "detach", "unregister", "removeBt"}
PC == [worker |-> {"idle", "gone"} \cup WorkerPC \cup InsertPC,
       user   |-> {"idle"} \cup InsertPC \cup RemovePC,
       unplug |-> {"idle", "gone"} \cup UnplugPC \cup RemovePC]

Running == fault = "none"
At(th, from) == Running /\ pc[th] = from
Goto(th, to) == pc' = [pc EXCEPT ![th] = to]
Go(th, from, to) == At(th, from) /\ Goto(th, to)

\* A local variable is gone with its function.
Forget(th) == bt_adapter' = [bt_adapter EXCEPT ![th] = NULL]

Live(a) == a # NULL /\ adapters[a] # "freed"

\* protocol_tx_access, as far as BT is concerned.
BtIntends == drv_state = "ACTIVE" /\ tx_intention

-----------------------------------------------------------------------------
\* update_tx_status(d_assets, BT_ID): take the access if the bus is open, or,
\* without intention, answer a pending sleep request unless WLAN or ZigBee
\* intend to transmit (others).  Changes tx_access and the bus.
update_tx_status ==
    \/ /\ drv_state # "REMOVED" /\ tx_intention
       /\ tx_access' = (tx_access \/ bus_open)
       /\ UNCHANGED bus
    \/ /\ drv_state # "REMOVED" /\ ~tx_intention
       /\ sleep_entry_recvd /\ bus_open
       /\ bus_open' = FALSE /\ dev' = "asleep"
       /\ UNCHANGED <<sleep_entry_recvd, tx_access>>
    \/ /\ drv_state = "REMOVED" \/ ~tx_intention   \* nothing to do, or others
       /\ UNCHANGED <<tx_access, bus>>

\* A release by WLAN or ZigBee answers the request that BT's left pending.
OthersRelease ==
    /\ Running
    /\ sleep_entry_recvd /\ bus_open /\ ~BtIntends
    /\ bus_open' = FALSE /\ dev' = "asleep"
    /\ UNCHANGED <<card, state, flags, memory, access, sleep_entry_recvd, io,
                   pc, bt_adapter, aux>>

-----------------------------------------------------------------------------
\* bt_insert, by the worker (bt_module_init) or by the ioctl (ENABLE)

\* bt_init_lock, the test of drv_state and the allocation of the adapter.
InsertLock(th) ==
    /\ At(th, "insLock")
    /\ bt_init_lock = "free"
    /\ bt_init_lock' = th
    /\ \/ /\ \/ drv_state = "ACTIVE" \/ StepsMayFail
             \/ \A a \in Adapters : adapters[a] # "unborn"
          /\ Goto(th, "insDone")
          /\ UNCHANGED <<adapters, bt_adapter>>
       \/ /\ drv_state # "ACTIVE"
          /\ \E a \in Adapters :
                /\ adapters[a] = "unborn"
                /\ \A b \in 1 .. a - 1 : adapters[b] # "unborn"
                /\ adapters' = [adapters EXCEPT ![a] = "raw"]
                /\ bt_adapter' = [bt_adapter EXCEPT ![th] = a]
          /\ Goto(th, "insPriv")
    /\ UNCHANGED <<card, state, flags, priv, bt_gpl_lock, access, bus, io, aux>>

InsertPriv(th) ==
    /\ Go(th, "insPriv", "insActive")
    /\ priv' = bt_adapter[th]
    /\ UNCHANGED <<card, state, flags, adapters, bt_gpl_lock, bt_init_lock,
                   access, bus, io, bt_adapter, aux>>

InsertActive(th) ==
    /\ Go(th, "insActive", "insCore")
    /\ drv_state' = "ACTIVE"
    /\ UNCHANGED <<card, fw_state, bt_deregister_sent, flags, memory, access,
                   bus, io, bt_adapter, aux>>

\* Mutant of InsertCore: a failure leaves drv_state ACTIVE.
InsertCoreKeepsActive(th) ==
    /\ At(th, "insCore")
    /\ Live(bt_adapter[th])
    /\ \/ /\ Goto(th, "insDone")
          /\ adapters' = [adapters EXCEPT ![bt_adapter[th]] = "ready"]
          /\ default_ps_en' = TRUE
       \/ /\ StepsMayFail
          /\ Goto(th, "insFree")
          /\ UNCHANGED <<adapters, default_ps_en>>
    /\ UNCHANGED <<card, state, protocol_enabled, priv,
                   bt_gpl_lock, bt_init_lock, access, bus, io, bt_adapter, aux>>

\* onebox_core_init, after drv_state is set: on failure drv_state goes back
\* and the adapter is freed; priv keeps pointing at it.
InsertCore(th) ==
    /\ At(th, "insCore")
    /\ Live(bt_adapter[th])
    /\ \/ /\ Goto(th, "insDone")
          /\ adapters' = [adapters EXCEPT ![bt_adapter[th]] = "ready"]
          /\ default_ps_en' = TRUE
          /\ UNCHANGED drv_state
       \/ /\ StepsMayFail
          /\ Goto(th, "insFree")
          /\ drv_state' = "INSERTED"
          /\ UNCHANGED <<adapters, default_ps_en>>
    /\ UNCHANGED <<card, fw_state, bt_deregister_sent, protocol_enabled, priv,
                   bt_gpl_lock, bt_init_lock, access, bus, io, bt_adapter, aux>>

\* Mutant of InsertFree: the adapter of a failed insertion is leaked.
InsertLeaks(th) ==
    /\ Go(th, "insFree", "insDone")
    /\ Live(bt_adapter[th])
    /\ UNCHANGED <<card, state, flags, memory, access, bus, io, bt_adapter, aux>>

InsertFree(th) ==
    /\ Go(th, "insFree", "insDone")
    /\ Live(bt_adapter[th])
    /\ adapters' = [adapters EXCEPT ![bt_adapter[th]] = "freed"]
    /\ UNCHANGED <<card, state, flags, priv, bt_gpl_lock, bt_init_lock, access,
                   bus, io, bt_adapter, aux>>

\* Leave bt_insert; the ioctl marks BT enabled whatever bt_insert returned.
InsertDone(th) ==
    /\ Go(th, "insDone", "idle")
    /\ bt_init_lock' = "free"
    /\ protocol_enabled' = (protocol_enabled \/ th = "user")
    /\ Forget(th)
    /\ UNCHANGED <<card, state, default_ps_en, priv, adapters, bt_gpl_lock,
                   access, bus, io, aux>>

Insert(th) == \/ InsertLock(th) \/ InsertPriv(th) \/ InsertActive(th)
              \/ InsertCore(th) \/ InsertFree(th) \/ InsertDone(th)

-----------------------------------------------------------------------------
\* bt_remove, by the ioctl (DISABLE) or by disconnect_assets

RemovePriv(th) ==
    /\ Go(th, "remPriv", "remLock")
    /\ bt_adapter' = [bt_adapter EXCEPT ![th] = priv]
    /\ UNCHANGED <<card, state, flags, memory, access, bus, io, aux>>

\* bt_gpl_lock, and the test of drv_state: the early return keeps the lock.
RemoveLock(th) ==
    LET a == bt_adapter[th] IN
    /\ At(th, "remLock")
    /\ Live(a) /\ bt_gpl_lock[a] = "free"
    /\ bt_gpl_lock' = [bt_gpl_lock EXCEPT ![a] = th]
    /\ Goto(th, IF drv_state = "ACTIVE" THEN "remTest" ELSE "remDone")
    /\ UNCHANGED <<card, state, flags, priv, adapters, bt_init_lock, access,
                   bus, io, bt_adapter, aux>>

\* With the card aboard the firmware is to be told: ask for access.
RemoveTest(th) ==
    /\ At(th, "remTest")
    /\ IF card_state = "aboard"
       THEN Goto(th, "remUpdate") /\ tx_intention' = TRUE
       ELSE Goto(th, "remDeinit") /\ UNCHANGED tx_intention
    /\ UNCHANGED <<card, state, flags, memory, tx_access, deregister_flags, bus,
                   io, bt_adapter, aux>>

RemoveUpdate(th) ==
    /\ Go(th, "remUpdate", "remCheck")
    /\ update_tx_status
    /\ UNCHANGED <<card, state, flags, memory, tx_intention, deregister_flags,
                   io, bt_adapter, aux>>

RemoveCheck(th) ==
    /\ At(th, "remCheck")
    /\ Goto(th, IF tx_access THEN "remSend" ELSE "remArm")
    /\ UNCHANGED <<card, state, flags, memory, access, bus, io, bt_adapter, aux>>

RemoveArm(th) ==
    /\ Go(th, "remArm", "remWait")
    /\ deregister_flags' = TRUE
    /\ UNCHANGED <<card, state, flags, memory, tx_intention, tx_access, bus, io,
                   bt_adapter, aux>>

\* deregister_flags == 0 within 6000 ms, for whatever reason ...
RemoveWoken(th) ==
    /\ Go(th, "remWait", "remSend")
    /\ ~deregister_flags
    /\ UNCHANGED <<card, state, flags, memory, access, bus, io, bt_adapter, aux>>

\* Mutant of RemoveTimeout: only the removal of the card ends the wait.
RemoveWaitsForEver(th) ==
    /\ Go(th, "remWait", "remDeinit")
    /\ deregister_flags /\ card_state = "detach"
    /\ UNCHANGED <<card, state, flags, memory, access, bus, io, bt_adapter, aux>>

\* ... or "Failed to get sleep exit": the removal goes on without telling.
RemoveTimeout(th) ==
    /\ Go(th, "remWait", "remDeinit")
    /\ deregister_flags
    /\ UNCHANGED <<card, state, flags, memory, access, bus, io, bt_adapter, aux>>

\* bt_deregister_fw: without memory for the frame nothing at all is done.
RemoveSend(th) ==
    /\ At(th, "remSend")
    /\ Live(bt_adapter[th])
    /\ \/ /\ StepsMayFail
          /\ Goto(th, "remDeinit")
          /\ UNCHANGED bt_deregister_sent
       \/ /\ Goto(th, "remWrite")
          /\ bt_deregister_sent' = TRUE
    /\ UNCHANGED <<card, drv_state, fw_state, flags, memory, access, bus, io,
                   bt_adapter, aux>>

\* send_pkt_to_coex(VIP_Q): the firmware gets the frame and starts over.  A
\* failure is only logged; without access send_pkt_to_coex frees the frame,
\* which bt_deregister_fw then frees as well.
RemoveWrite(th) ==
    /\ Go(th, "remWrite", "remIntention")
    /\ fault' = IF fw_state /\ ~(tx_access /\ bus_open) THEN "twice" ELSE fault
    /\ \/ /\ fw_state /\ tx_access /\ bus_open /\ pc["unplug"] = "idle"
          /\ bt_fw' = "booted"
       \/ /\ fw_state => StepsMayFail \/ pc["unplug"] # "idle" \/ fault' = "twice"
          /\ UNCHANGED bt_fw
    /\ UNCHANGED <<card, state, flags, memory, access, bus, deferred_rx_queue,
                   bt_adapter, ioctls>>

RemoveIntention(th) ==
    /\ Go(th, "remIntention", "remAccess")
    /\ tx_intention' = FALSE
    /\ UNCHANGED <<card, state, flags, memory, tx_access, deregister_flags, bus,
                   io, bt_adapter, aux>>

RemoveAccess(th) ==
    /\ Go(th, "remAccess", "remStatus")
    /\ tx_access' = FALSE
    /\ UNCHANGED <<card, state, flags, memory, tx_intention, deregister_flags,
                   bus, io, bt_adapter, aux>>

RemoveStatus(th) ==
    /\ Go(th, "remStatus", "remInactive")
    /\ update_tx_status
    /\ UNCHANGED <<card, state, flags, memory, tx_intention, deregister_flags,
                   io, bt_adapter, aux>>

RemoveInactive(th) ==
    /\ Go(th, "remInactive", "remDeinit")
    /\ fw_state' = FALSE
    /\ UNCHANGED <<card, drv_state, bt_deregister_sent, flags, memory, access,
                   bus, io, bt_adapter, aux>>

\* onebox_core_deinit ...
RemoveDeinit(th) ==
    /\ Go(th, "remDeinit", "remRelease")
    /\ Live(bt_adapter[th])
    /\ adapters' = [adapters EXCEPT ![bt_adapter[th]] = "dead"]
    /\ UNCHANGED <<card, state, flags, priv, bt_gpl_lock, bt_init_lock, access,
                   bus, io, bt_adapter, aux>>

\* Mutant of RemoveRelease: the lock is not given back.
RemoveForgetsRelease(th) ==
    /\ Go(th, "remRelease", "remFree")
    /\ Live(bt_adapter[th])
    /\ UNCHANGED <<card, state, flags, memory, access, bus, io, bt_adapter, aux>>

\* ... then bt_gpl_lock is released, with drv_state still MODULE_ACTIVE, ...
RemoveRelease(th) ==
    /\ Go(th, "remRelease", "remFree")
    /\ Live(bt_adapter[th])
    /\ bt_gpl_lock' = [bt_gpl_lock EXCEPT ![bt_adapter[th]] = "free"]
    /\ UNCHANGED <<card, state, flags, priv, adapters, bt_init_lock, access,
                   bus, io, bt_adapter, aux>>

\* ... the adapter is freed, ...
RemoveFree(th) ==
    /\ Go(th, "remFree", "remInserted")
    /\ Live(bt_adapter[th])
    /\ adapters' = [adapters EXCEPT ![bt_adapter[th]] = "freed"]
    /\ UNCHANGED <<card, state, flags, priv, bt_gpl_lock, bt_init_lock, access,
                   bus, io, bt_adapter, aux>>

\* ... and only then drv_state and priv say so.
RemoveInserted(th) ==
    /\ Go(th, "remInserted", "remNull")
    /\ drv_state' = "INSERTED"
    /\ UNCHANGED <<card, fw_state, bt_deregister_sent, flags, memory, access,
                   bus, io, bt_adapter, aux>>

RemoveNull(th) ==
    /\ Go(th, "remNull", "remDone")
    /\ priv' = NULL
    /\ UNCHANGED <<card, state, flags, adapters, bt_gpl_lock, bt_init_lock,
                   access, bus, io, bt_adapter, aux>>

Remove(th) ==
    \/ RemovePriv(th) \/ RemoveLock(th) \/ RemoveTest(th) \/ RemoveUpdate(th)
    \/ RemoveCheck(th) \/ RemoveArm(th) \/ RemoveWoken(th) \/ RemoveTimeout(th)
    \/ RemoveSend(th) \/ RemoveWrite(th) \/ RemoveIntention(th)
    \/ RemoveAccess(th) \/ RemoveStatus(th) \/ RemoveInactive(th)
    \/ RemoveDeinit(th) \/ RemoveRelease(th) \/ RemoveFree(th)
    \/ RemoveInserted(th) \/ RemoveNull(th)

-----------------------------------------------------------------------------
\* The ioctl SIOCGPROTOCOL, under RTNL

\* An ioctl is issued: history of whether it meets a card ready half handled.
CardReadyPC == {"readyFlag", "readyAccess", "moduleInit"} \cup InsertPC
Issued == ioctls' = IF ioctls = "overlap" \/ pc["worker"] \in CardReadyPC
                    THEN "overlap" ELSE "serial"

\* ENABLE: the firmware is up and BT is not inserted.  fw_state is set before
\* bt_module_init sets the pointer inaugurate: then it is called unset.
Enable ==
    /\ At("user", "idle")
    /\ netdev
    /\ ~protocol_enabled /\ fw_state /\ drv_state # "ACTIVE"
    /\ Issued
    /\ IF drv_state = "REMOVED"
       THEN fault' = "null" /\ UNCHANGED pc
       ELSE Goto("user", "insLock") /\ UNCHANGED fault
    /\ UNCHANGED <<card, state, flags, memory, access, bus, io, bt_adapter>>

Disable ==
    /\ Go("user", "idle", "remPriv")
    /\ netdev
    /\ protocol_enabled /\ drv_state = "ACTIVE"
    /\ Issued
    /\ UNCHANGED <<card, state, flags, memory, access, bus, io, bt_adapter, fault>>

DisableDone ==
    /\ Go("user", "remDone", "idle")
    /\ protocol_enabled' = FALSE
    /\ Forget("user")
    /\ UNCHANGED <<card, state, default_ps_en, memory, access, bus, io, aux>>

User == Enable \/ Disable \/ DisableDone \/ Insert("user") \/ Remove("user")

-----------------------------------------------------------------------------
\* The worker: deploy_packet_to_assets

Received(m) == /\ At("worker", "idle")
               /\ deferred_rx_queue # <<>>
               /\ Head(deferred_rx_queue) = m
               /\ deferred_rx_queue' = Tail(deferred_rx_queue)

\* The BT firmware is not up, or was told to deregister, as far as known.
AwaitsCardReady == ~fw_state \/ bt_deregister_sent

\* Card ready: the firmware is up again, the bus is open, and a waiting
\* thread gets its access before bt_module_init.
RxCardReady ==
    /\ Received("cardReady")
    /\ AwaitsCardReady
    /\ fw_state' = TRUE /\ bt_deregister_sent' = FALSE
    /\ bus_open' = TRUE
    /\ Goto("worker", "readyFlag")
    /\ ioctls' = IF pc["user"] = "idle" THEN ioctls ELSE "overlap"
    /\ UNCHANGED <<card, drv_state, flags, memory, access, sleep_entry_recvd,
                   dev, bt_fw, bt_adapter, fault>>

\* A packet for a BT that is up is delivered if the driver is active.
RxPacket ==
    /\ \E m \in {"cardReady", "packet"} :
          Received(m) /\ (m = "packet" \/ ~AwaitsCardReady)
    /\ Goto("worker", IF ~AwaitsCardReady /\ drv_state = "ACTIVE"
                      THEN "readPriv" ELSE "idle")
    /\ UNCHANGED <<card, state, flags, memory, access, bus, bt_fw,
                   bt_adapter, aux>>

\* sleep_entry_recvd: refused while somebody intends to transmit, or answered.
RxSleepEntry ==
    /\ Received("entry")
    /\ sleep_entry_recvd' = TRUE
    /\ \/ /\ bus_open' = TRUE
          /\ Goto("worker", "exitFlag")
          /\ UNCHANGED dev
       \/ /\ ~BtIntends
          /\ bus_open' = FALSE /\ dev' = "asleep"
          /\ UNCHANGED pc
    /\ UNCHANGED <<card, state, flags, memory, access, bt_fw, bt_adapter,
                   aux>>

RxSleepExit ==
    /\ Received("exit")
    /\ sleep_entry_recvd' = FALSE /\ bus_open' = TRUE
    /\ Goto("worker", "exitFlag")
    /\ UNCHANGED <<card, state, flags, memory, access, dev, bt_fw,
                   bt_adapter, aux>>

\* A thread that waits for access: its flag first, then the access.
GrantFlag(flag, give, done) ==
    /\ At("worker", flag)
    /\ LET waits == deregister_flags /\ drv_state = "ACTIVE" IN
          /\ deregister_flags' = (deregister_flags /\ ~waits)
          /\ Goto("worker", IF waits THEN give ELSE done)
    /\ UNCHANGED <<card, state, flags, memory, tx_intention, tx_access, bus, io,
                   bt_adapter, aux>>

GrantAccess(give, done) ==
    /\ Go("worker", give, done)
    /\ tx_access' = TRUE
    /\ UNCHANGED <<card, state, flags, memory, tx_intention, deregister_flags,
                   bus, io, bt_adapter, aux>>

\* bt_module_init: the driver is (again) INSERTED, and without WLAN inserted.
ModuleInit ==
    /\ At("worker", "moduleInit")
    /\ drv_state' = "INSERTED"
    /\ Goto("worker", IF card_state = "aboard" /\ ~wlan_mode /\ fw_state
                      THEN "insLock" ELSE "idle")
    /\ UNCHANGED <<card, fw_state, bt_deregister_sent, flags, memory, access,
                   bus, io, bt_adapter, aux>>

\* bt_gpl_read_pkt: priv is read before the lock, drv_state tested under it.
ReadPriv ==
    /\ Go("worker", "readPriv", "getLock")
    /\ bt_adapter' = [bt_adapter EXCEPT !["worker"] = priv]
    /\ UNCHANGED <<card, state, flags, memory, access, bus, io, aux>>

\* Mutant of ReadLock: the packet is handed over whoever holds the lock.
ReadLockIgnored ==
    LET a == bt_adapter["worker"] IN
    /\ At("worker", "getLock")
    /\ Live(a)
    /\ bt_gpl_lock' = [bt_gpl_lock EXCEPT ![a] = "worker"]
    /\ Goto("worker", IF drv_state = "ACTIVE" THEN "deliver" ELSE "unlock")
    /\ UNCHANGED <<card, state, flags, priv, adapters, bt_init_lock, access,
                   bus, io, bt_adapter, aux>>

ReadLock ==
    LET a == bt_adapter["worker"] IN
    /\ At("worker", "getLock")
    /\ Live(a) /\ bt_gpl_lock[a] = "free"
    /\ bt_gpl_lock' = [bt_gpl_lock EXCEPT ![a] = "worker"]
    /\ Goto("worker", IF drv_state = "ACTIVE" THEN "deliver" ELSE "unlock")
    /\ UNCHANGED <<card, state, flags, priv, adapters, bt_init_lock, access,
                   bus, io, bt_adapter, aux>>

ReadDeliver ==
    /\ Go("worker", "deliver", "unlock")
    /\ Live(bt_adapter["worker"])
    /\ UNCHANGED <<card, state, flags, memory, access, bus, io, bt_adapter, aux>>

ReadUnlock ==
    /\ Go("worker", "unlock", "idle")
    /\ Live(bt_adapter["worker"])
    /\ bt_gpl_lock' = [bt_gpl_lock EXCEPT ![bt_adapter["worker"]] = "free"]
    /\ Forget("worker")
    /\ UNCHANGED <<card, state, flags, priv, adapters, bt_init_lock, access,
                   bus, io, aux>>

Worker ==
    \/ RxCardReady \/ RxPacket \/ RxSleepEntry \/ RxSleepExit
    \/ GrantFlag("exitFlag", "exitAccess", "idle")
    \/ GrantAccess("exitAccess", "idle")
    \/ GrantFlag("readyFlag", "readyAccess", "moduleInit")
    \/ GrantAccess("readyAccess", "moduleInit")
    \/ ModuleInit \/ Insert("worker")
    \/ ReadPriv \/ ReadLock \/ ReadDeliver \/ ReadUnlock

-----------------------------------------------------------------------------
\* The card goes: common_hal_deinit, disconnect_assets

Unplug ==
    /\ Go("unplug", "idle", "flush")
    /\ UNCHANGED <<card, state, flags, memory, access, bus, io, bt_adapter, aux>>

\* Mutant of Flush: the work queue is not flushed before the removal.
FlushLater ==
    /\ Go("unplug", "flush", "detach")
    /\ UNCHANGED <<card, state, flags, memory, access, bus, io, bt_adapter, aux>>

\* flush_workqueue and destroy_workqueue: the worker is gone ...
Flush ==
    /\ At("unplug", "flush")
    /\ pc["worker"] = "idle" /\ deferred_rx_queue = <<>>
    /\ pc' = [pc EXCEPT !["unplug"] = "detach", !["worker"] = "gone"]
    /\ UNCHANGED <<card, state, flags, memory, access, bus, io, bt_adapter, aux>>

Detach ==
    /\ Go("unplug", "detach", "unregister")
    /\ card_state' = "detach"
    /\ UNCHANGED <<netdev, wlan_mode, state, flags, memory, access, bus, io,
                   bt_adapter, aux>>

\* ... WLAN goes first: unregister_netdev waits for the ioctl that holds RTNL.
UnregisterNetdev ==
    /\ Go("unplug", "unregister", "removeBt")
    /\ netdev => pc["user"] = "idle"
    /\ netdev' = FALSE
    /\ UNCHANGED <<card_state, wlan_mode, state, flags, memory, access, bus, io,
                   bt_adapter, aux>>

DisconnectBt ==
    /\ At("unplug", "removeBt")
    /\ IF drv_state = "ACTIVE"
       THEN Goto("unplug", "remPriv") /\ deregister_flags' = FALSE
       ELSE Goto("unplug", "gone") /\ UNCHANGED deregister_flags
    /\ UNCHANGED <<card, state, flags, memory, tx_intention, tx_access, bus, io,
                   bt_adapter, aux>>

DisconnectDone ==
    /\ Go("unplug", "remDone", "gone")
    /\ drv_state' = "INSERTED"
    /\ Forget("unplug")
    /\ UNCHANGED <<card, fw_state, bt_deregister_sent, flags, memory, access,
                   bus, io, aux>>

Deinit == \/ Flush \/ Detach \/ UnregisterNetdev \/ DisconnectBt
          \/ DisconnectDone \/ Remove("unplug")

-----------------------------------------------------------------------------
\* coex_pkt_processor: with default_ps_en and empty queues the coex thread
\* gives BT's access up, for a packet in BT_Q it asks and waits for it.  The
\* order of its writes is TxAccess's; here each may come at any time, until
\* common_hal_deinit, last of all, kills the thread.
Coex ==
    /\ Running /\ default_ps_en /\ pc["unplug"] # "gone"
    /\ \/ tx_intention' \in BOOLEAN /\ UNCHANGED <<tx_access, deregister_flags, bus>>
       \/ tx_access' = FALSE /\ UNCHANGED <<tx_intention, deregister_flags, bus>>
       \/ deregister_flags' = TRUE /\ UNCHANGED <<tx_intention, tx_access, bus>>
       \/ update_tx_status /\ UNCHANGED <<tx_intention, deregister_flags>>
    /\ UNCHANGED <<card, state, flags, memory, io, pc, bt_adapter, aux>>

-----------------------------------------------------------------------------
\* The device, until it is unplugged

Tell(m) ==
    /\ Running
    /\ pc["unplug"] = "idle"
    /\ Len(deferred_rx_queue) < RxBound
    /\ deferred_rx_queue' = Append(deferred_rx_queue, m)
    /\ UNCHANGED <<card, state, flags, memory, access, bus_open,
                   sleep_entry_recvd, pc, bt_adapter, aux>>

DevCardReady == /\ Tell("cardReady")
                /\ dev = "awake" /\ bt_fw = "booted" /\ bt_fw' = "running"
                /\ UNCHANGED dev
DevPacket    == /\ Tell("packet")
                /\ dev = "awake" /\ bt_fw = "running"
                /\ UNCHANGED <<dev, bt_fw>>
DevSleep     == /\ Tell("entry")
                /\ dev = "awake" /\ dev' = "requested"
                /\ UNCHANGED bt_fw
DevWake      == /\ Tell("exit")
                /\ dev = "asleep" /\ dev' = "awake"
                /\ UNCHANGED bt_fw

Device == DevCardReady \/ DevPacket \/ DevSleep \/ DevWake

-----------------------------------------------------------------------------
\* A thread dereferences, locks or frees an adapter that is freed, or NULL.
Derefs == {"getLock", "deliver", "unlock", "insCore", "insFree", "remLock",
           "remSend", "remDeinit", "remRelease", "remFree"}
UseFreed ==
    /\ Running
    /\ \E th \in Threads :
          /\ pc[th] \in Derefs
          /\ ~Live(bt_adapter[th])
          /\ fault' = IF bt_adapter[th] = NULL THEN "null" ELSE "freed"
    /\ UNCHANGED <<card, state, flags, memory, access, bus, io, pc, bt_adapter,
                   ioctls>>

\* After probe and the common card ready; WLAN has come up, or never does.
Init ==
    /\ card_state = "aboard" /\ netdev \in BOOLEAN /\ wlan_mode \in BOOLEAN
    /\ drv_state = "REMOVED" /\ fw_state = FALSE /\ bt_deregister_sent = FALSE
    /\ default_ps_en = FALSE /\ protocol_enabled = FALSE
    /\ priv = NULL /\ adapters = [a \in Adapters |-> "unborn"]
    /\ bt_gpl_lock = [a \in Adapters |-> "free"] /\ bt_init_lock = "free"
    /\ tx_intention = FALSE /\ tx_access = FALSE /\ deregister_flags = FALSE
    /\ bus_open = TRUE /\ sleep_entry_recvd = FALSE /\ dev = "awake"
    /\ deferred_rx_queue = <<>> /\ bt_fw = "booted"
    /\ pc = [th \in Threads |-> "idle"]
    /\ bt_adapter = [th \in Threads |-> NULL]
    /\ ioctls = "none" /\ fault = "none"

Next == \/ Worker \/ User \/ Unplug \/ Deinit \/ Coex \/ Device
        \/ OthersRelease \/ UseFreed

Spec == Init /\ [][Next]_vars

-----------------------------------------------------------------------------
\* The type invariant: the data, and where each thread can be.
DataOK ==
    /\ card_state \in {"aboard", "detach"} /\ netdev \in BOOLEAN
    /\ wlan_mode \in BOOLEAN
    /\ drv_state \in {"REMOVED", "INSERTED", "ACTIVE"}
    /\ fw_state \in BOOLEAN /\ bt_deregister_sent \in BOOLEAN
    /\ default_ps_en \in BOOLEAN /\ protocol_enabled \in BOOLEAN
    /\ priv \in Adapters \cup {NULL}
    /\ adapters \in [Adapters -> {"unborn", "raw", "ready", "dead", "freed"}]
    /\ bt_gpl_lock \in [Adapters -> Threads \cup {"free"}]
    /\ bt_init_lock \in Threads \cup {"free"}
    /\ tx_intention \in BOOLEAN /\ tx_access \in BOOLEAN
    /\ deregister_flags \in BOOLEAN
    /\ bus_open \in BOOLEAN /\ sleep_entry_recvd \in BOOLEAN
    /\ dev \in {"awake", "requested", "asleep"}
    /\ deferred_rx_queue \in Seq(Message)
    /\ bt_fw \in {"booted", "running"}
    /\ bt_adapter \in [Threads -> Adapters \cup {NULL}]
    /\ ioctls \in {"none", "serial", "overlap"}
    /\ fault \in {"none", "null", "freed", "twice"}

PlacesOK ==
    /\ pc \in [Threads -> UNION {PC[th] : th \in Threads}]
    /\ \A th \in Threads : pc[th] \in PC[th]

TypeOK == DataOK /\ PlacesOK

\* A message, an ioctl or a card that goes is dealt with, a sleeping device
\* wakes, a thread that uses freed memory finds out.  down() is first come
\* first served: SF for the lock that the worker takes again and again.
\* Users, the device's other messages and the coex thread are not fair.
Fairness ==
    /\ WF_vars(Worker) /\ WF_vars(Insert("user") \/ Remove("user") \/ DisableDone)
    /\ SF_vars(RemoveLock("user") \/ RemoveLock("unplug"))
    /\ WF_vars(Deinit) /\ WF_vars(DevWake) /\ WF_vars(UseFreed)

FairSpec == Spec /\ Fairness

\* Which thread inserts or removes, and where the lock of bt_remove is held.
Inserting(th) == pc[th] \in InsertPC
Removing(th)  == pc[th] \in RemovePC
HoldsLock(th) == IF th = "worker" THEN pc[th] \in {"deliver", "unlock"}
                 ELSE pc[th] \in {"remTest", "remUpdate", "remCheck", "remArm",
                          "remWait", "remSend", "remWrite", "remIntention",
                          "remAccess", "remStatus", "remInactive", "remDeinit",
                          "remRelease"}
\* bt_deregister_fw, from the frame on.
Telling == {"remWrite", "remIntention", "remAccess", "remStatus", "remInactive"}
Busy == \E th \in Threads : Inserting(th) \/ Removing(th)

\* No memory fault yet, and no ioctl has met a card ready that is half handled.
Serial == Running /\ ioctls # "overlap"

\* Insertion by card ready, delivery, the sleep handshake and the removal of
\* the card at any moment never use freed memory: only an ioctl can (the
\* order of common_hal_deinit: work queue, WLAN netdev, BT, coex thread).
NoIoctlNoFault == ioctls = "none" => Running

\* bt_gpl_lock is held only by a thread inside bt_remove or bt_gpl_read_pkt:
\* the return of bt_remove that keeps the lock (line 212) is not reached.
LockReturned ==
    Serial => \A a \in Adapters :
                 LET th == bt_gpl_lock[a] IN
                 th # "free" => HoldsLock(th) /\ bt_adapter[th] = a

\* Between insertions and removals, the driver is ACTIVE exactly with one
\* initialised adapter, the one at priv: none is leaked, none is forgotten.
Settled ==
    Serial /\ ~Busy =>
        /\ drv_state = "ACTIVE" => priv # NULL /\ adapters[priv] = "ready"
        /\ \A a \in Adapters : \/ adapters[a] \in {"unborn", "freed"}
                               \/ drv_state = "ACTIVE" /\ a = priv

\* A packet given to an adapter in use comes from a firmware that is up: none
\* is delivered from the deregister frame on until the next card ready.
DeliveredWhileUp ==
    Serial /\ pc["worker"] = "deliver"
           /\ adapters[bt_adapter["worker"]] \in {"raw", "ready"}
        => fw_state /\ ~bt_deregister_sent

\* bt_remove ends, also when it waits under bt_gpl_lock for a sleep exit that
\* the worker, waiting for that lock, cannot deliver.
SomeRemoval == Removing("user") \/ Removing("unplug")
RemovalEnds == SomeRemoval ~> ~SomeRemoval \/ ~Running

-----------------------------------------------------------------------------
\* The strengthening that makes the safety properties above inductive.

\* Who can be where at the same time: RTNL and the order of common_hal_deinit
\* leave one thread at a time inside bt_insert and bt_remove.
TurnInv ==
    /\ pc["unplug"] \notin {"idle", "flush"} => pc["worker"] = "gone"
    /\ pc["unplug"] \in {"removeBt", "gone"} \cup RemovePC
         => ~netdev
    /\ ~netdev => pc["user"] = "idle"
    /\ pc["unplug"] \in {"unregister", "removeBt"} \cup RemovePC
         => card_state = "detach"
    /\ pc["unplug"] \notin {"remUpdate", "remCheck", "remArm", "remWait",
                            "remSend"} \cup Telling
    /\ Serial /\ pc["worker"] \in CardReadyPC => pc["user"] = "idle"

\* The adapters that are neither unborn nor freed are in S.
AliveOnly(S) == \A a \in Adapters : adapters[a] \in {"unborn", "freed"} \/ a \in S

\* What becomes of the one adapter along bt_insert and bt_remove.
InsertInv == \A th \in Threads :
    pc[th] \in {"insPriv", "insActive", "insCore", "insFree"} =>
        /\ bt_adapter[th] # NULL
        /\ adapters[bt_adapter[th]] = "raw" /\ AliveOnly({bt_adapter[th]})
        /\ pc[th] # "insPriv" => priv = bt_adapter[th]
        /\ drv_state = "ACTIVE" <=> pc[th] = "insCore"

RemoveInv == \A th \in Threads : Removing(th) =>
    /\ drv_state = "ACTIVE" <=> pc[th] \notin {"remNull", "remDone"}
    /\ pc[th] \in {"remInserted", "remNull", "remDone"} => AliveOnly({})
    /\ pc[th] \in {"remRelease", "remFree"} =>
          /\ bt_adapter[th] # NULL
          /\ adapters[bt_adapter[th]] = "dead" /\ AliveOnly({bt_adapter[th]})
    /\ pc[th] = "remLock" \/ (HoldsLock(th) /\ pc[th] # "remRelease") =>
          /\ bt_adapter[th] # NULL /\ priv = bt_adapter[th]
          /\ adapters[priv] = "ready" /\ AliveOnly({priv})

\* Outside of those steps the driver is settled.
Midway == \E th \in Threads :
             \/ pc[th] \in {"insPriv", "insActive", "insCore", "insFree"}
             \/ Removing(th) /\ pc[th] # "remPriv"
SettledInv ==
    ~Midway => /\ drv_state = "ACTIVE" => priv # NULL /\ adapters[priv] = "ready"
               /\ AliveOnly(IF drv_state = "ACTIVE" THEN {priv} ELSE {})

\* An active driver has a firmware that is up, except while it is removed.
UpInv ==
    /\ fw_state /\ bt_deregister_sent => pc["user"] \in Telling
    /\ drv_state = "ACTIVE" /\ AwaitsCardReady
         => pc["user"] \in Telling \cup {"remDeinit", "remRelease", "remFree",
                                         "remInserted"}
    /\ pc["worker"] \in CardReadyPC \/ Inserting("user") => ~AwaitsCardReady
    /\ pc["worker"] \in {"readyFlag", "readyAccess", "moduleInit"}
         => drv_state # "ACTIVE"

\* A thread inside the region of an adapter's lock holds it.
LockInv == \A th \in Threads :
    HoldsLock(th) => /\ bt_adapter[th] # NULL
                     /\ bt_gpl_lock[bt_adapter[th]] = th

\* Without an ioctl what the worker reads stays as it is until it is done.
ReaderInv ==
    ioctls = "none" =>
        /\ pc["user"] = "idle"
        /\ pc["worker"] \in {"readPriv", "getLock", "deliver", "unlock"}
             => drv_state = "ACTIVE"
        /\ pc["worker"] \in {"getLock", "deliver", "unlock"}
             => bt_adapter["worker"] = priv

\* A pointer leads to an adapter that was allocated.
BornInv == /\ priv # NULL => adapters[priv] # "unborn"
           /\ \A th \in Threads :
                 bt_adapter[th] # NULL => adapters[bt_adapter[th]] # "unborn"

IInv == /\ TypeOK /\ TurnInv /\ BornInv /\ NoIoctlNoFault /\ LockReturned
        /\ DeliveredWhileUp
        /\ Serial => /\ InsertInv /\ RemoveInv /\ SettledInv /\ UpInv
                     /\ LockInv /\ ReaderInv

-----------------------------------------------------------------------------
\* The threads keep the promise of DriverLife.  The firmware is up from its
\* card ready to the deregister frame; a thread that still reads with a dead
\* adapter, after bt_gpl_lock was released, reads nothing.
InUse(a) == a # NULL /\ adapters[a] \in {"raw", "ready"}
Reader == IF pc["worker"] = "deliver" /\ InUse(bt_adapter["worker"])
          THEN bt_adapter["worker"] ELSE NULL

Life == INSTANCE DriverLife
            WITH Instances <- Adapters, None <- NULL,
                 instance <- adapters, home <- priv,
                 active <- drv_state = "ACTIVE", up <- ~AwaitsCardReady,
                 reader <- Reader, asked <- ioctls # "none",
                 broken <- ~Serial

\* bt_insert, bt_remove and the delivery implement the life of one driver: an
\* adapter after the other, each initialised under a firmware that is up,
\* killed only when no packet is delivered to it, and freed once; only after
\* an ioctl may this fail, and NoIoctlNoFault with it.
KeepsLife == Life!Spec
=============================================================================
