# Verification of the RS9113 "OneBox" host driver

TLA+ models, model-checking configurations and machine-checked proofs for the
Linux driver of the Redpine RS9113 module (`src/source/host`). The module
carries three radios, WLAN, Bluetooth and ZigBee, behind one SDIO or USB
interface. The driver is a *common HAL* that owns the bus and three protocol
drivers on top of it.

## 1. The system

    net80211 / cfg80211      BlueZ / bluedroid       netlink app
           |                        |                    |
      wlan_hal (thread)            bt                  zigbee
           |  send_pkt_to_coex      |                    |
    +------+------------------------+--------------------+------+
    | common_hal: coex thread (BT_Q, ZIGB_Q, COEX_Q), transmit  |
    | access, power manager, rx work queue, bring-up, loader    |
    +-----------------------------+-----------------------------+
                         SDIO  or  USB (urb ring)
                                  |
                             RS9113 device

### 1.1 Inventory

| Component | State it keeps | Operations | What makes it correct |
|---|---|---|---|
| Power manager, transmit access (`onebox_common_pwr_mngr.c`) | per technology `tx_intention`, `tx_access`, `deregister_flags`; `common_hal_tx_access`, `sleep_entry_recvd`, `ulp_sleep_ack_sent`; `tx_access_lock` | `update_tx_status`, `sleep_entry_recvd`, `sleep_exit_recvd`, `send_ulp_sleep_ack` | one ack per sleep request; no access between the ack and the wake-up; nothing written to a sleeping device |
| Coex transmit (`onebox_common_tx.c`) | `coex_queues[]`, the thread's event, `transmit_lock` | `coex_transmit_thread`, `coex_pkt_processor`, `send_pkt_to_coex` | queued packets leave; acks first; one writer on the bus |
| Receive and bring-up (`onebox_common_rx.c`) | `deferred_rx_queue`, `common_hal_fsm`, per technology `fw_state`, `drv_state` | `onebox_read_pkt`, `deferred_rx_packet_parser`, `deploy_packet_to_assets`, `onebox_process_coex_rx_pkt`, `inaugurate_assets` | messages handled in order; no message to a removed driver |
| Driver load and removal (`onebox_common_init.c`, `onebox_bt_osd_init.c`, `onebox_zigb_osd_init.c`) | `drv_state`, `fw_state`, `priv`, `deregister_flags`, `bt_deregister_sent`, `bt_gpl_lock`, `bt_init_lock` | `bt_insert`, `bt_remove`, `bt_deregister_fw`, `bt_gpl_read_pkt`, `bt_module_init`, `disconnect_assets`, the ENABLE and DISABLE ioctls | removal ends; no freed adapter is used; after it there is one adapter or none |
| WLAN thread (`onebox_core_wlan.c`, `onebox_dev_ops.c`) | `host_tx_queue[]`, `selected_qnum`, `pkt_cnt`, `buffer_full`, `beacon_event`, the scheduler event | `core_qos_processor`, `core_xmit`, the two scheduler threads | queued frames are eventually sent; no frame written to a full device |
| WMM queue choice (`onebox_core_wmm.c`) | `qinfo[].weight`, `selected_qnum`, `pkt_cnt` | `core_determine_hal_queue` | management first, weighted round over the access categories, no starvation |
| USB transmit (`onebox_usb_main_osi.c`, `onebox_usb_main_osd.c`) | `tx_pending_urb_cnt`, `pkt_write_pending`, `write_urb`, `urb in_use`, `write_fail` | `onebox_wlan_usb_card_write`, `wlan_usb_card_write`, `wlan_usb_tx_done_handler` | an outstanding urb is not reused; the flow starts again after a stop |
| USB suspend and resume (`onebox_usb_main_osd.c`) | `usb_intf_suspend`, `common_hal_tx_access`, the resume timer | `onebox_usb_suspend`, `onebox_usb_resume`, `onebox_resume_usb_intf_timer` | no write to a suspended interface; a suspended interface is resumed when somebody wants it |
| SDIO interface (`onebox_sdio_main_osi.c`, `onebox_sdio_main_osd.c`) | `buffer_full`, `semi_buffer_full`, `mgmt_buffer_full` | `sdio_device_operations` (interrupt), card read and write | buffer status not lost |
| Boot loader (`onebox_common_devops.c`, `onebox_flashing.c`, `device_init`) | `fw_load_mode`, `bl_timer`, `bl_timer_expired`, the registers REGIN and REGOUT, the two buffers | `bl_cmd`, `bl_write_cmd`, `load_fw_thru_sbl`, `auto_fw_upgrade`, `verify_flash_content` | a damaged image is not booted; a buffer is not rewritten while it is burned; the load returns whatever the device does |
| WLAN management (`onebox_devdep_mgmt.c`) | `fsm_state`, `sta_data_block`, `block_ap_queues` | state machine of configuration frames, block and unblock | the device is configured once, in order |
| WLAN power save (`onebox_ps.c`) | `PS_STATE`, parameters, the delay flags, the traffic timer | `update_pwr_save_status`, `pwr_sve_event_handler`, `traffic_timer_callback`, `check_traffic_pwr_save` | one request at a time; PS states follow the device; frames held for a request leave |
| Interface stop and start (`onebox_core_os_intf.c`, `onebox_core_wlan.c`, `ndiface.c`) | `stop_per_q`, the interface's queue, lengths of `host_tx_queue[]` | `ieee80211_hardstart`, `core_xmit`, the thread's restart, scans | queues stay near their limit; a stopped interface starts again |
| net80211 glue (`onebox_core_vap.c`, `onebox_core_os_intf.c`, `onebox_core_hal_intf.c`) | vaps, keys, scan state | vap create and delete, key install | |
| Rate control, radar, PER (`onebox_core_autorate.c`, `onebox_radar.c`, `onebox_wlan_per.c`) | tables and statistics | numeric algorithms | bounds of table indices |
| Receive reordering (`onebox_reorder.c`) | per TID sequence numbers | | order kept |
| Bluetooth (`bt/osi_bt`, `bt/osd_bt`) | `bt_cw` event and its answer, BER ring | command/answer, packet hand-over | the answer reaches the caller |
| ZigBee (`zigbee/osi_zigb`, `zigbee/osd_zigb`) | as Bluetooth | as Bluetooth | as Bluetooth |
| Kernel thread wrapper (`onebox_thread.c`, `onebox_osd_ops.c`) | thread events, completion | `wait_event`, `set_event`, `kill_thread` | a kill ends the thread |

The vendored parts of the repository (net80211, hostapd, wpa_supplicant, the
applications under `APPS`, the ZigBee user-space stack and profiles, the tools
under `utils`) are outside this project.

### 1.2 How the components interact

Four kernel contexts meet in `common_hal`: the coex thread, the WLAN scheduler
thread, the one-thread work queue that handles received packets, and the
callers (network stack, ioctls, module removal). They share `techs[]` in
`struct driver_assets` without a lock for most fields; `tx_access_lock` covers
the decisions of the power manager and `transmit_lock` covers writing one
packet. The device starts both sleep entry and sleep exit.

### 1.3 What is hard here

* Intentions, access and the device's requests are written by four contexts,
  most of them outside the lock that decides on them.
* Waiting is done with events and flags that are tested, set and reset in
  separate steps; a lost wake-up is a queue that stands still.
* The device may fall asleep or wake between any two steps, and answers late.
* Allocations and bus writes fail, and most callers go on.
* On USB a write is only started; its completion runs in interrupt context
  against the thread that counts the outstanding blocks.
* Drivers are removed while their packets are being delivered, and an ioctl may
  insert or remove one while the device's card ready is handled.
* The USB core suspends the interface on its own, and the driver's part of it
  does not pair its operations on `tx_access_lock`.
* The boot loader of the device is late, fails or never answers, and the timer
  that bounds each wait may fire after it was removed.

`PROJECT.json` lists these as hazards, each at its line, with the property that
covers it or the module of the plan that will.

## 2. The modules

| Module | What it is |
|---|---|
| `SleepHandshake` | abstract: the device asks, one ack goes out, the device sleeps and wakes |
| `TxAccess` | the threads of the common HAL and the WLAN thread around transmit access; implements `SleepHandshake` |
| `MCTxAccess`, `TxAccess_*.cfg` | instances for TLC |
| `TxAccess_proofs` | proofs about `TxAccess` |
| `WmmScheduler` | the WLAN thread's choice of a queue, its sleep and its producers (SDIO) |
| `MCWmmScheduler`, `WmmScheduler_*.cfg`, `WmmScheduler_proofs` | instances, proofs |
| `UsbRing` | abstract: a circular buffer with a window for data and a block for the ack |
| `UsbTxFlow` | the ring of USB request blocks and the flow control around it; implements `UsbRing` |
| `MCUsbTxFlow`, `UsbTxFlow_*.cfg`, `UsbTxFlow_proofs` | instances, proofs |
| `PowerSaveAgreement` | abstract: a host that believes, one request at a time, a device that obeys and confirms |
| `WlanPowerSave` | the power save handshake of the WLAN station and everybody who drives it; implements `PowerSaveAgreement` |
| `MCWlanPowerSave`, `WlanPowerSave_*.cfg`, `WlanPowerSave_proofs` | instances, proofs |
| `DriverLife` | abstract: one driver instance after the other, from creation to its memory's end |
| `BtLifeCycle`, `BtLifeCycle_life.cfg`, `BtLifeCycle_proofs` | insertion, removal and delivery of the Bluetooth driver; implements `DriverLife` |
| `UsbSuspend`, `UsbSuspend_suspend.cfg`, `UsbSuspend_proofs` | selective suspend and resume of the USB interface |
| `TxQueueStop`, `TxQueueStop_stop.cfg`, `TxQueueStop_proofs` | stopping and starting the interfaces of access points |
| `ImageBurn` | abstract: an image is checked, erased, burned chunk by chunk, booted and reported |
| `BootLoader`, `BootLoader_load.cfg`, `BootLoader_proofs` | loading and upgrading the firmware through the boot loader; implements `ImageBurn` |

Names are those of the source where TLA+ allows it; a program counter
(`cpc`, `wpc`, `rpc`, `pc`, `hpc`, `tpc`, `spc`) says where a thread is. Operators whose
comment begins with "Mutant of" are deliberately wrong versions of a definition,
kept to show that a property fails when the code does the wrong thing; no
specification uses them.

### 2.1 TxAccess

State: the access fields of `struct driver_assets` and `techs[]`, the coex
queues, the WLAN queue (a count), the receive queue of sleep messages, the two
locks, the two thread events, the device. Actors: the coex thread (`Coex*`),
the WLAN thread (`Wlan*`), the work queue (`Rx*`), the users that queue packets
(`SendPkt`, `SendWlanPkt`) and the device (`FwRequestSleep`, `FwWake`).

*Steps.* Every access to a field that another context uses outside a lock is a
step of its own. A region of `tx_access_lock` is one step, except for the loops
that grant access, where `deregister_flags = 0` and `tx_access = 1` are two
steps, since the waiter looks at the first without the lock. A thread's test of
its access and the write of its own intention are one step: nobody else writes
that intention, and moving it next to the test hides nothing. The decision reads all intentions in one
step: writes of different threads to different intentions commute, so some
order of whole reads gives every outcome of a field-by-field read.

*The device* asks for sleep once and waits for the answer, sleeps as soon as
the ack is written (the worst case for whoever still writes), and wakes on its
own. It is external and modelled from the messages the driver expects.

*Failures.* With `AllocMayFail` the ack's buffer is missing; with
`WriteMayFail` a write fails. Waits of 3 s may time out at any time.

`PS_STATE` is not modelled here: at the end of its loop the WLAN thread keeps
or releases its access as either value would have it. `Init` is the state after
the device reported ready.

Properties. `OneAckPerRequest`, `WlanWritesAwake`, `ClosedBusInv` and
`NoGrantAfterAck` are the safety of the handshake; `KeepsHandshake` says that
`TxAccess` implements `SleepHandshake` under the mapping in the module;
`AckGetsWritten` says that a queued ack is written although the coex thread may
be waiting for access itself.

### 2.2 WmmScheduler

`core_determine_hal_queue` is four steps (select, choose, adjust, decide), since producers run between
its reads. Each step reads the queue lengths once; an enqueue that happens
between two reads of one step has the effect of one before or after it.
Producers queue and then signal in two steps. The event's reset is part of the
wait that it ends. Beacons, full buffers, blocking of queues and WME updates
come from the environment; `Interference` chooses which. A block or unblock
changes its flags and queues its frame in one step. `Used` bounds the queues that
ever hold a packet; the others never contend and are left out of `EDCA` (queue 0,
the scan's first answer, stays).

*WME updates.* `onebox_set_contention_vals` runs in another thread and shares no
lock with the WLAN thread; `IEEE80211_LOCK` only keeps two updates apart. Each
entry of `wme_org_q`, `per_q_wt` (memcpy) and `pkt_contended` (memset) is stored
in a step of its own (`StoreOrg`, `CopyWt`, `ClearContended`). The thread goes
through the queues one by one too, reading early entries before and late ones
after such a store. Its scan and its adjustment nevertheless remain one step each: no
entry depends on another, so that what they see is what they would see if the stores
came in another order between the queues, and the model allows every such order.
Of one queue the thread reads `pkt_contended` first and a back-off next, and the
update stores in the opposite order, so that what was read is what some moment in
between shows. Two places need more. The adjustment may have read an entry of
`per_q_wt` before the memcpy and write it afterwards (`CopyWt` may be lost while the
thread is at `"decide"`). And the scan compares an entry, looks at the queue, and loads the
entry again: it may load another value than it compared (`ScanOnFrom`). Assumed is that the accesses of each thread take effect in the order
in which they are written, and that `per_q_wt[ii] -= min` loads what the comparison
above it loaded, as no call lies in between.

`left` is a history variable: why the thread last left its loop. So is `turns`: for
each queue of `Counted` that waits, how often each other one was chosen meanwhile
(`CountTurns`). No guard reads either.
`ChosenHasPacket`: the chosen queue is never empty, although a burst is counted
down without looking. `SleepsWithReason`: if the thread sleeps over a packet,
then the reason for which it stopped still holds, or a signal is on its way.
`NoStarvation`: a category with packets is served in the end.

`Proportional`: queue j has at most
1 + `wme_org_q[i]` / `wme_org_q[j]` turns before a waiting queue i, which is what
the back-offs are for. Packets may come between the scan and the adjustment. Turns are
counted from the end of the last WME update on (`CountTurns`): while an update is
under way the thread mixes old and new back-offs, and the bound would not hold.
The property says that nothing of this outlives the memset: a scan that began
with half-stored values, or an adjustment that wrote an old one over a new one,
leaves no back-off above `wme_org_q` in a queue that contends. Without the memset
(mutant `KeepContended`) it would.

### 2.3 UsbTxFlow

A write is one step: writers hold `transmit_lock`, and the completion handler
only frees blocks. The handler is three steps, as the thread can run between
the block being free, the count going down and the flag being looked at. The
thread reads the count in one step and sets `pkt_write_pending` in another.
The bus completes the blocks of the endpoint in order (WLAN frames and acks use
endpoint 1). One ack is outstanding at a time, which is what `OneAckPerRequest`
of `TxAccess` gives. Beacons and their multicast frames have their own tests of
the count, as in `send_beacon`. Access, blocking and the choice of a queue are
the other modules' matter: here the queues are a count, and a packet may be
dropped instead of written. A beacon's flag and its signal are one step.

`NextBlockFree`: the block a writer takes is never still on the bus.
`CountCovers`: the count never falls short of it. `StoppedIsPending`: a thread
that sleeps over packets has set the flag. `Restarts`: if it stopped with the
ring still fuller than `BUFFER_FREE`, it runs again. `KeepsRing`: under the
mapping at the end of the module, every write takes the block behind the last one,
the data stays in its window, the ack has one block besides, and blocks come back
in the order they were used.

### 2.4 WlanPowerSave

State: `PS_STATE` and the other members of `driver_ps`, the user's parameters
(whether power save is on, and the monitor interval, which is all the control
depends on), the management queue, the WLAN thread, and what of net80211 the
handler tests. Actors: the ioctl (`Ioctl*`), the traffic timer (`Timer*`), the
data path (`Data*`), the receive path (`RxConfirm`), the WLAN thread
(`Thread*`), net80211 (scan, association, vaps) and the firmware, which obeys
and confirms each request in order (external).

*Steps.* `pwr_sve_event_handler` holds `IEEE80211_LOCK` and is one step, with
one exception. A request is queued, and the WLAN thread woken, before the
handler assigns `PS_STATE`; that thread takes no lock. So the request is one
step and the assignment another (`AssignState`), with `ic_lock` held and the
value to come in `next_state` between them. (A wakeup request assigns
`PS_DIS_REQ_SENT` itself before it queues.) A caller that reads `PS_STATE`
before it calls the handler does so in a step of its own, so that its decision
may be stale. A load of data is any load. `AUTH` stands for net80211's states
`AUTH` and `ASSOC`; handlers that change the vap are taken to be steps under
the lock. The delay and the parameters follow
`update_pwr_save_status` case by case.

A management frame that is no request leaves as soon as it is dequeued. At
`MgmtBound` a further one is merged with those that wait, since only their
presence and their position relative to requests matter.

`OneRequest`: at most one request is between the queue and the receipt of its
confirm. `BeliefMatches`: `PS_NONE` and `DEV_IN_PWR_SVE` are true of the
device. `WakeAnswered` and `SleepAnswered`: the waiting states are left once
the request was queued. `MgmtDrains`: frames that are held back leave.

### 2.5 BtLifeCycle

State: the entry `techs[BT_ID]`, each adapter ever allocated with what became of
it, the two locks, the queue of received messages, the device with its BT
firmware. Threads: `worker` (the received packets: `deploy_packet_to_assets`,
card ready with `bt_insert`, `bt_gpl_read_pkt`, the sleep messages), `user` (an
ioctl: ENABLE ends in `bt_insert`, DISABLE in `bt_remove`; RTNL admits one),
`unplug` (the disconnect callback: `common_hal_deinit`, flush, WLAN's netdev,
`bt_remove`). Each write of a shared field is a step, since the threads share no
lock except the one inside the adapter they remove. A step that uses a freed
adapter sets `fault` and is the last one. `ioctls` is a history variable: has an
ioctl touched Bluetooth, and has one met a card ready that was half handled?

`NoIoctlNoFault`: the order of `common_hal_deinit` keeps every thread off freed
memory; only an ioctl, which flushes nothing, can break it. `LockReturned`: the
early return of `bt_remove` that keeps `bt_gpl_lock` is not reached.
`Settled`: between insertions and removals there is one live adapter, at `priv`,
or none. `KeepsLife`: as long as no ioctl meets a half-handled card ready, the
steps of all threads are those of `DriverLife`; for the abstract specification
that meeting is one step, after which it promises nothing. `DeliveredWhileUp`: no packet is delivered between the deregister frame
and the next card ready. `RemovalEnds`: `bt_remove` ends, although it waits up to
6 s under a lock that the worker may want. `LockReturned`, `Settled` and
`DeliveredWhileUp` assume that no ioctl meets a half-handled card ready; what
happens then is in section 5.

### 2.6 UsbSuspend

State: `tx_access_lock` as the counting semaphore it is, the access fields, the
pending blocks, `usb_intf_suspend`, the resume timer, the receive blocks, the USB
core's view and the device. Threads: `wlan` (`core_qos_processor` with the
suspend branch of `update_tx_status`), `worker` (the sleep exit), `pm` (the USB
core's thread that calls `onebox_usb_suspend` and `onebox_usb_resume`), and the
timer. A region of the lock is several steps, because `onebox_usb_suspend` keeps
the lock on one path and releases it untaken on another; `mistakes` records which
of these has happened. The handshake that sends the device to sleep is one step.

`SuspendedIsQuiet`: nothing is written to a suspended interface, unless the lock
was released untaken or a resume wiped out a sleep request (section 5).
`SomethingResumes`: a suspended interface always has an armed timer or a resume
that is queued. `RequestResumes`: a request finds the interface resumed in the
end; its exceptions are the kept lock, the timer without a function (a BUG), and
a resume that leaves the driver's flag because power save was switched off.

### 2.7 TxQueueStop

State: the queues with the vap of each frame, `stop_per_q`, whether each
interface is stopped, the block flags. All access points share the queues.
Contexts: per vap of `Stacks` the network stack
(`ieee80211_hardstart`, only while the interface is started), the worker that
hands over bridged frames without looking, the WLAN thread, and a scan. No
test or write is under a lock that another takes, so each is a step.

`QueueBounded`: how far the unlocked test of the length lets a queue exceed its
limit: by twice the contexts less two. `FlagClears`: the flag that makes
an interface drop does not outlive that interface's frames in the queue.
`InterfaceStarts`: a stopped interface with frames starts again. Both have the
exception `LeftBehind`: when the last frame of an access point leaves, the frames
of others may keep the queue above the mark, and the code neither clears the flag nor
starts the interface then (section 5). Without the exception TLC finds both
violated as soon as two access points share a queue.

### 2.8 BootLoader

State: the host's place in `device_init`, `load_fw_thru_sbl` and
`auto_fw_upgrade` (`label`, the labels of the source where it has one) and in
`bl_write_cmd` (`wpc`), `bl_timer` with a callback that may be under way, REGIN,
REGOUT and the two buffers, the device's boot loader and its flash. The image is
a number of whole chunks and perhaps a shorter one; the flash holds chunks in
order or nothing of it. Each register access is a step; a failed write may have
reached the device or not. The boot loader is external: it takes a command,
answers well (when it has reason to) or badly, or never, and burns a buffer while
the host fills the other. The fields `crc` and `seen` tell what the host knows.

`BootsWhole`: the device boots from flash only an image that is whole; the one
exception is a CRC check whose answer the host did not get (section 5).
`BufferFree` (proved, in no run): no chunk is written into a buffer that the
device still burns; this rests on every answer being the answer to the last
command, also after failures.
`TimerOnce`: the timer is never initialised while the kernel has it, nor left
there. `KeepsLoad`: seen from the flash, the load is the one of `ImageBurn`: only
an image that failed its check, or is to be replaced anyway, is burned, chunk after
chunk with at most two under way, whatever command fails. `LoadEnds`:
`device_init` returns whatever the device does.

## 3. The runs

| Run | Instance and bounds | Shows |
|---|---|---|
| `wlan_bt` | WLAN and BT, 1 packet per queue, both failures, fair threads | safety of the handshake, the inductive invariant, the refinement, and that a queued ack is written |
| `bt_stuck` | WLAN and BT, fair threads and device | finding: a BT packet stays queued for ever |
| `wmm_safe` | queues 3, 5 and 8, 2 packets each, 1 late producer, beacon, full, block | the queue choice, no lost wake-up |
| `wmm_live` | queues 0 and 3, 2 packets each, 1 WME update at any moment, fair thread | the turns, no starvation |
| `usb_flow` | ring of 8, limit 7, 1 packet, 1 multicast frame, both faults, fair | ring and flow control, the refinement, restart |
| `ps_safe` | USB, three settings of the parameters, one caller between decision and handler, one other frame, failed allocations | one request, true beliefs, the refinement |
| `ps_live` | USB, off and on with monitoring, no failures, fair thread and firmware | requests are answered, frames leave |
| `ps_disable` | as `ps_live` | finding: a sleep request where a disable was meant |
| `bt_life` | two adapters, one message, failing steps, fair threads | insertion, delivery and removal in any order; the refinement; removal ends |
| `usb_suspend` | one block, one untaken release, fair threads and timer | suspend and resume; requests are served |
| `txq_stop` | two access points that share a queue of length 4, room of 2; one has a stack, the worker serves both; fair thread | queue limit, flags and interfaces |
| `boot_load` | all six modes, images of 0 to 3 whole chunks with and without a shorter one, fair host and timer | what is booted, the timer, the refinement; the load ends |

Runs that check `IInv` check `TypeOK` with it, as its first conjunct. The inductive
invariants of the other modules are proved and no longer part of a run; adding
`IInv` to a run's `INVARIANTS` checks them.

*Why the bounds are enough.* The access protocol has one outstanding request of
the device, two technologies already compete for every field, and one packet
per queue lets every queue be empty or not, which is all the code asks. For the
queue choice the interesting cases are a station queue, an access point's queue
and management, with a burst longer than the queue; two packets let a queue
shrink without becoming empty. For the turns two queues suffice, one that
waits and one that is chosen, with an update to other back-offs or to the same; the
step of an update for one queue meets every step of the thread. In the ring only three distances matter: empty,
`BUFFER_FREE` and the limit that is one short of the size, which a ring of 8
has as one of 16 does. For power save, off, on, and on with monitoring are the
cases the handler tells apart; `CallerBound` lets one of timer, ioctl and data
path stand between its read and its call while confirms, net80211 and the
thread go on, and one frame besides the requests is enough to be held and to be
overtaken. For the life cycle two adapters let one be freed while the next is
made, and one message at a time lets every message meet every step of a removal.
Suspend asks only whether blocks are pending, and one untaken release already
ends the exclusion. Two access points and one queue let the frames of one keep the
queue long for the other; a limit of four with a room of two keeps full, above the
mark, below it and empty apart, and the bound of `QueueBounded` is attained. The second
access point's frames come from the worker, so its stack need not run as well; the
proof of `QueueBounded` covers any number of stacks and queues, while
the two liveness properties are checked for one queue only. Three chunks use each buffer again, with and without a shorter
last one; the chunk that is no chunk occurs for every size. The proofs remove
the bounds for the safety properties.

`CHECK_DEADLOCK FALSE` is given where the system may rest: the users owe no
packets, the device need not ask for sleep, and the findings stop threads.

*Fairness.* Threads and the work queue get weak fairness, as the kernel schedules what can
run; steps that take a semaphore get strong fairness, since the kernel's
semaphores serve waiters in order; `IEEE80211_LOCK` is a ticket spinlock, so
`RxConfirm` and the WLAN thread get strong fairness too. The bus completes submitted blocks and a
sleeping device wakes up in the end; the firmware answers power save requests.
In `BtLifeCycle` and `UsbSuspend` the steps that take a semaphore get strong
fairness (`RemoveLock`, and the USB core's thread), everything else of the threads weak fairness. In
`TxQueueStop` the thread takes frames of each queue again and again (strong
fairness of `Dequeue`), which is what `NoStarvation` of `WmmScheduler` shows. In
`BootLoader` only the host and the kernel's timer are fair: neither the device
nor a failing read has to come to the rescue. Users,
the power save timer, traffic, scans and connections, suspends, requests for sleep, beacons, failures and the
unblocking of queues are not fair: nothing may depend on them.

## 4. The proofs

TLAPS checks the `*_proofs` modules; the only assumptions are the named
`ASSUME`s on the constants.

* `TxAccess_proofs`: `IInv` is the type invariant, the three safety invariants, and
  `HandshakeInv` (the driver's flags, the ack's place and the device's state fit
  together), `GrantLoopInv` (the worker grants only while the bus is open) and
  `TransmitInv` (what a thread that holds `transmit_lock` has checked still holds). None of the safety
  properties is inductive alone: whether a write is safe depends on the ack not
  being between queue and bus. `Inductive` gives `TypeCorrect`, `OneAck`,
  `WlanSafe` and `ClosedBus`; `NoGrant` and `Refinement` follow from the
  invariant step by step.
* `WmmScheduler_proofs`: `ChosenHasPacket` rests on `BurstInv` (the packets a
  burst still counts on are in the queue, since only the thread takes any out),
  `SleepsWithReason` on `SeenInv` (what a scan missed came after the event's
  reset, so a signal is on its way). `WeightsInv` says what a WME update leaves
  behind whatever the thread read and wrote meanwhile: for a queue it has done with,
  a back-off no greater than `wme_org_q`, and a chosen queue that has not been
  lowered since. `Proportional` rests on it and on `CountsInv`, a budget
  that holds while no update is under way:
  the cost of j's turns after the first, what j was lowered by since its last one,
  and what i has still to be lowered by, never exceed i's first back-off
  (`BudgetInv`). An update takes exactly `min` from i, since a queue that counts
  turns was seen by the scan (`ScanInv`), and gives at most `min` to j; a turn of j
  moves j's back-off from the second term to the first. When an update ends no turn
  has been counted (`NoTurns`), and the first one counted finds `WeightsInv`. No
  assumption on the back-offs is needed.
* `UsbTxFlow_proofs`: `NextBlockFree` rests on `RingInv`. The blocks in use are those on the bus, they
  lie in a row behind `write_urb`, and the limit keeps one block for the ack. The lemmas `NextFree`,
  `WriteKeepsRing` and `DoneKeepsRing` are the ring's arithmetic, for every size.
  `KeepsRingTheorem` maps the blocks in use, the search's start, the count and the
  ack's block to `UsbRing`: the search finds the block `next` at once because it is
  free, and the block a completion frees is the oldest by `RingInv`.
* `WlanPowerSave_proofs`: `OneRequest` and `BeliefMatches` are proved together:
  a request is made only with the lock free and `PS_STATE` settled, where
  `BeliefMatches` says that none is under way, or when the single confirm is
  taken. `LockHolds` (the handler in the gap found a settled state and leaves a
  waiting one), `ThreadHolds` (the thread's frame is where its counter says)
  and `ConfirmTells` (a confirm on its way says what the device does) carry
  this over the steps of the thread. The lemmas count requests in a queue to
  which one is added at either end. The theorem covers SDIO as well as USB.
  For `KeepsAgreementTheorem` the state is mapped to what the host believes (only
  while it is settled and the lock is free) and to the one request on its way;
  that there is at most one makes the mapping a function, and `ConfirmTells` makes
  a belief taken from a confirm true.
* `BtLifeCycle_proofs`: `TurnInv` (RTNL and the order of `common_hal_deinit`
  leave one thread at a time in insertion or removal) carries `InsertInv` and
  `RemoveInv`, which follow the one live adapter along both; outside of them
  `SettledInv` holds. `UpInv`, `LockInv` and `ReaderInv` say what the firmware,
  the lock's holder and the worker may rely on. All but `TurnInv` hold while no
  ioctl has met a half-handled card ready. `KeepsLifeTheorem` needs `BornInv`
  besides (a pointer leads to an adapter that was allocated). Its lemmas follow the
  threads: most steps leave the abstract state alone, an insertion's map to
  `Create`, `Publish`, `Activate`, `Start`, a removal's to `GoDown`, `Kill`, `Free`,
  `Deactivate`, `Unpublish`; `LockInv` says that nobody reads when an adapter is
  killed, and the ioctl's step is the one that breaks the promise.
* `UsbSuspend_proofs`: `MutexInv` (the semaphore excludes while only who took it
  released it) is proved by three lemmas: a step takes it, gives it back, or
  leaves it alone. `SleepInv` ties the device's sleep to the driver's flags
  without the lock; `SuspendInv` says that the device sleeps from the status
  that suspend accepts until the resume, and carries `SomethingResumes`.
* `TxQueueStop_proofs`: `RoomInv` counts, for each queue, its frames and the
  contexts that have passed the test; it is tighter while the thread is about to
  clear the flag, which lets all contexts pass at once. The lemmas are about the
  cardinality of the set of passing contexts.
* `BootLoader_proofs`: `IInv` has a part for the timer (`TimerInv`), for the time
  before the first command (`BoardInv`), for command and answer (`AskInv`: when a
  command is sent nothing is under way, so what is read is its answer), for what
  the host knows of the flash (`CrcInv`, `EraseInv`), for the buffers (`FillInv`)
  and for the boot (`BootInv`). There is one lemma per part, with one step per
  action. `KeepsLoadTheorem` needs two more: `PathInv` (the ways through the load on
  which something is burned are those of an image that failed its check or is not
  checked) and `PipeInv` (the buffers hold the chunks behind those in flash, in
  order, also after a failure). With them a command that the device takes is a
  `Hold` or `Erase`, a burned buffer a `Burn`, and the answer to the CRC check the
  `Check` of `ImageBurn`.

Left to TLC: the liveness properties (`AckGetsWritten`, `NoStarvation`,
`Restarts`, `WakeAnswered`, `SleepAnswered`, `MgmtDrains`, `RemovalEnds`,
`RequestResumes`, `FlagClears`, `InterfaceStarts`, `LoadEnds`), which TLAPS cannot
treat, and the counterexamples.

## 5. What the runs found

* `BtQueueDrains`: `onebox_common_tx.c:340`, a packet left queued.
* `DisableMeansWake`: `onebox_ps.c:672`, a sleep request sent to disable.

`PROJECT.json` quotes the line each one disagrees with. Also seen while
modelling, without a run (file and line in the driver):

*Transmit access and the WLAN thread*

* `onebox_core_vap.c:1211`: the comment asks for a lock around the WME update.
  Without one a queue may be passed over or preferred while the update lasts; the
  effect ends with it (`Proportional`), and no packet or wake-up is lost.
* `onebox_common_tx.c:406`: the record that an ack was sent comes after the
  write, and may answer the next request of the device, which then waits for an
  ack that nobody sends.
* `onebox_common_tx.c:337`, `onebox_common_pwr_mngr.c:188`: a grant that lands
  after the waiter gave its access up lets a BT packet go to a sleeping device.
* `onebox_common_tx.c:422`: with USB the ack's type is read when the completion
  handler may have freed the packet.
* `onebox_core_wlan.c:103`: the first queue of the access point (`BK_Q_AP`) is
  not covered by the test that blocks the access point's queues.
* `onebox_core_wlan.c:208`: the count is read outside the lock; if all blocks
  complete in between and the count is below `BUFFER_FREE`, the thread stops with
  nobody to start it.
* `onebox_usb_main_osd.c:779`: after a failed write packets are neither
  submitted nor freed. `onebox_common_tx.c:175`, with `onebox_bt_osd_init.c:97`:
  a frame that gets no access is freed twice on USB.
* `onebox_core_os_intf.c:851`, `onebox_core_wlan.c:312`: with several access
  points the thread starts only the interface whose frame it took ("Has to be
  taken care for multiple vaps case in a different way"). With a limit of 4, room of
  2 and the queue v, w, w: the next frame of v is refused and v flagged, v's last
  frame leaves above the mark, and no later one is queued. From then on the flag
  makes the interface drop every frame of v, and nothing clears it. A context that is
  stalled between its look and the flag may set `stop_per_q` after the queue has
  drained; only a later frame of that queue clears it.

*Power save*

* `onebox_core_wlan.c:250`: SDIO writes a sleep request before it changes
  `PS_STATE`. With `Interface = "SDIO"` TLC finds `SleepAnswered` violated: a
  confirm between the two is ignored, and the thread waits for it.
* `onebox_core_vap.c:764` and `:863`: the paths for a created and a deleted vap
  are no cases of `update_pwr_save_status`, which only prints "Invalid Path".
* `onebox_ps.c:496`: a request without a buffer leaves `PS_STATE` waiting for
  an answer. With `AllocMayFail = TRUE` TLC finds `MgmtDrains` violated: with two
  vaps the wakeup request that a sleep confirm sends is lost, nothing else
  schedules the thread, and a frame it held back stays.

*Bluetooth's life cycle*

* `onebox_bt_osd_init.c:240`: `bt_remove` takes the adapter down (line 236),
  gives `bt_gpl_lock` back, frees the adapter (line 242), and only then leaves
  `MODULE_ACTIVE` (line 243). A DISABLE flushes nothing, so `bt_gpl_read_pkt`,
  which waited for that lock, then delivers to the dead adapter, where line 30
  says "WLAN is being removed.. Dropping Pkt".
* `onebox_bt_osd_init.c:211`: the early return keeps the lock. TLC reaches it
  only when an ENABLE or DISABLE meets a card ready that is half handled; such a
  meeting can also leak an adapter.
* `onebox_bt_osd_init.c:86-97`: a card ready that arrives between
  `bt_deregister_sent = 1` and `fw_state = FW_INACTIVE` is lost, and a deregister
  frame that could not be written leaves BT unusable until the next one.
* `onebox_common_rx.c:774`, `onebox_bt_osd_init.c:254`: an ENABLE between the two
  inserts BT, and the worker then sets its state back.

*USB suspend*

* `onebox_usb_main_osd.c:110`, `:172`: with access or blocks pending,
  `onebox_usb_suspend` falls off its end with the lock taken and no return value.
* `onebox_usb_main_osd.c:169`: with power save off it releases a lock that it
  did not take.
* `onebox_usb_main_osd.c:219`: the lock is released before `sleep_exit_recvd`. A
  sleep request that arrives in between is wiped out, and the bus opened to a
  device that sleeps.
* `onebox_usb_main_osd.c:223`: if power save was switched off meanwhile, resume
  leaves `usb_intf_suspend` set although the core is active again.
* `onebox_usb_main_osd.c:157-159`: a request between the flag and the timer's
  first initialisation modifies a timer that has no function, a BUG in the
  kernel.
* `onebox_common_init.c:426`: the coex queues are purged before the coex thread
  is killed.

*Boot loader*

* `onebox_common_devops.c:513-520`: a CRC check that times out, or is answered
  by anything but CMD_FAIL (an invalid address, say), goes on as "CRC Pass..Issuing
  Polling Command", although lines 402-403 say that the load includes "verifying
  CRC, upgrade fw if CRC fails". An image that nobody checked is booted; the late
  answer may also be taken for that of the polling command. Without its exception
  TLC finds `BootsWhole` violated.
* `onebox_common_devops.c:228-232`: when REGOUT cannot be invalidated the old
  answer stays. After the CRC check the upgrade goes on with it.
* `onebox_common_devops.c:571-572`: after an upgrade in `FLASH_RAM_SBL` mode the
  device is told to load the image in flash; the image for the RAM is not loaded.
* `onebox_common_devops.c:155-162`: the timer's callback may still run after the
  timer was removed. The wait that follows then ends at once.
* `onebox_flashing.c:562`: the buffer for comparing is freed on one failure only.
* `onebox_usb_main_osd.c:471-475`: the probe goes on when `device_init` fails
  (`goto fail` is commented out), so that a load that ended badly looks loaded.

## 6. What is not modelled

Of the modelled parts: roaming, the measured data loads, background scan
parameters and PER mode in `WlanPowerSave`; `PS_STATE` in `TxAccess` and the
other views of the WLAN thread; a failed read of the buffer status register
(`onebox_core_wlan.c:120-124`); a failed allocation of the frame that unblocks
queues (`onebox_devdep_mgmt.c:2111`); BT and ZigBee writes on endpoint 2
(synchronous); packet contents and statistics. The GPIO handshake and the
sub-queues are not compiled.

* `BtLifeCycle`: WLAN's own insertion and removal, ZigBee, the loss of messages
  beyond the queue's bound, the HCI sockets above the adapter.
* `UsbSuspend`: the USB core is external, and the decisions of a sleep request
  are one step, which is exact only while the lock excludes (hence the exception
  of `SuspendedIsQuiet`). The device sleeps for as long as it said, so that the
  steps of the suspend find it asleep.
* `TxQueueStop`: EAPOL and management frames, which are not counted against the
  limit, the stop for UDP, station vaps with their exemption while connecting,
  the deletion of a vap, and the flow control of the bus.
* `BootLoader`: timer periods, the words and blocks of a transfer, SDIO's base
  address, file contents and the choice of the file. The tests of size and address
  of an image are one refusal that may happen. One callback of the timer is under
  way at most. Flashing through the firmware (`manual_load_flash_content`) and
  the calibration data.

The rest of the inventory is not modelled yet or at all; `PROJECT.json` gives the
reason for each part.

## 7. Plan

Done: transmit access, queue choice, USB ring, power save, the life cycle of
Bluetooth, USB suspend, interface stop and start, the boot loader. Next, in this
order:

1. `CardBringUp`: the card-ready messages of all technologies and the initial
   access, composed with `TxAccess`; its final states are the initial states of
   `TxAccess`.
2. ZigBee's removal, as a second technology in `BtLifeCycle`.
3. `SdioInterrupt`: the buffer-status interrupt and the failed register read.
4. `BtCommand`, `KernelThread`: a command and its answer, events and the end of a
   thread.
5. `DeployRx`: the bound of the received queue and the loss of a sleep message.
6. Rate control and radar tables as operators checked over bounded inputs.

Proved: every safety invariant and action property of the runs, and the five
refinements. Theorems to come: abstract specifications of `UsbSuspend` (an
interface that sleeps and is woken) and of `TxQueueStop` (a gate in front of
bounded queues) with their refinements, and the hand-over from `CardBringUp` to
`TxAccess`.
