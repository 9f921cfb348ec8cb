----------------------------- MODULE UsbSuspend -----------------------------
(***************************************************************************)
(* Selective suspend of the USB interface: onebox_usb_suspend,             *)
(* onebox_usb_resume and the resume timer (onebox_usb_main_osd.c), against *)
(* the WLAN thread that asks for transmit access (core_qos_processor,      *)
(* update_tx_status), the worker that serves the device's sleep exit, and  *)
(* the power save ioctl.                                                   *)
(*                                                                         *)
(* TxAccess takes tx_access_lock for a mutex.  Here it is what it is, a    *)
(* counting semaphore, and a region under it is several steps, because     *)
(* onebox_usb_suspend does not pair its operations on it.  The handshake   *)
(* that sends the device to sleep is one step (TxAccess has its parts).    *)
(* The USB core calls suspend and resume from one thread at a time, "pm".  *)
(***************************************************************************)
EXTENDS Naturals, FiniteSets

CONSTANTS
    LockBound,    \* bound: how far untaken releases raise the semaphore
    PendingBound  \* bound: blocks of one burst that the bus still has

ASSUME ConstantsAssumption ==
    /\ LockBound \in Nat \ {0}
    /\ PendingBound \in Nat \ {0}

VARIABLES
    ps_en_ioctl,           \* the user wants power save
    tx_access_lock,        \* the semaphore's count
    common_hal_tx_access, sleep_entry_recvd, ulp_sleep_ack_sent,
    ack_queued,            \* a sleep ack waits in COEX_Q
    ack_written,           \* the coex thread wrote one and has the bus to close
    tx_intention, tx_access, deregister_flags,  \* techs[WLAN_ID]
    tx_pending_urb_cnt,
    usb_intf_suspend, usb_in_deep_ps,
    usb_resume_timer,      \* "none" (no function yet), "idle" or "armed"
    rx_urbs,               \* the receive blocks are with the bus
    core,                  \* the USB core's view: "active" or "suspended"
    resume_wanted,         \* an asynchronous resume is queued in the core
    fw,                    \* the device: "awake", "requested" sleep or "asleep"
    pc,                    \* where the threads are
    mistakes               \* history: what suspend and resume did wrong

common == <<common_hal_tx_access, sleep_entry_recvd, ulp_sleep_ack_sent,
            ack_queued, ack_written>>
access == <<tx_intention, tx_access, deregister_flags>>
usb    == <<usb_intf_suspend, usb_in_deep_ps, rx_urbs>>
timer  == <<usb_resume_timer, resume_wanted>>
vars == <<ps_en_ioctl, tx_access_lock, common, access,
          tx_pending_urb_cnt, usb, timer, core, fw, pc, mistakes>>

Threads   == {"wlan", "worker", "pm"}
WlanPC    == {"idle", "request", "test", "kick", "release", "arm", "wait",
              "send", "write", "dropUpdate", "dead"}
ExitPC    == {"exitLock", "exitOpen", "exitGrant"}
SuspendPC == {"susLock", "susTest", "susStatus", "susClose", "susRelease",
              "susFlag", "susTimer"}
ResumePC  == {"resLock", "resRead"}

\* Where a thread is between its down and its up.
Region == {"test", "kick", "release", "exitOpen", "susTest",
           "susStatus", "susClose", "susRelease", "resRead"}
Inside == {t \in Threads : pc[t] \in Region}

Goto(t, from, to) == pc[t] = from /\ pc' = [pc EXCEPT ![t] = to]
Acquire(t, from, to) ==
    /\ Goto(t, from, to)
    /\ tx_access_lock > 0
    /\ tx_access_lock' = tx_access_lock - 1
Release(t, from, to) ==
    /\ Goto(t, from, to)
    /\ tx_access_lock' = tx_access_lock + 1

-----------------------------------------------------------------------------
\* The WLAN thread: core_qos_processor, update_tx_status with an intention

WlanAsk ==
    /\ ~tx_access
    /\ Goto("wlan", "idle", "request")
    /\ tx_intention' = TRUE
    /\ UNCHANGED <<ps_en_ioctl, tx_access_lock, common, tx_access,
                   deregister_flags, tx_pending_urb_cnt, usb, timer, core, fw,
                   mistakes>>

WlanHas ==
    /\ tx_access
    /\ Goto("wlan", "idle", "send")
    /\ UNCHANGED <<ps_en_ioctl, tx_access_lock, common, access,
                   tx_pending_urb_cnt, usb, timer, core, fw, mistakes>>

WlanLock ==
    /\ Acquire("wlan", "request", "test")
    /\ UNCHANGED <<ps_en_ioctl, common, access,
                   tx_pending_urb_cnt, usb, timer, core, fw, mistakes>>

\* The grant, if the common access is open and no ack is under way.
WlanTest ==
    /\ Goto("wlan", "test", IF common_hal_tx_access THEN "release" ELSE "kick")
    /\ tx_access' = (tx_access \/ (common_hal_tx_access /\ ~ulp_sleep_ack_sent))
    /\ UNCHANGED <<ps_en_ioctl, tx_access_lock, common, tx_intention,
                   deregister_flags, tx_pending_urb_cnt, usb, timer, core, fw,
                   mistakes>>

\* Mutant of WlanKick: the timer is stopped instead of shortened.
KickStops ==
    /\ pc["wlan"] = "kick"
    /\ IF usb_intf_suspend /\ usb_resume_timer = "none"
       THEN Goto("wlan", "kick", "dead") /\ UNCHANGED usb_resume_timer
       ELSE /\ Goto("wlan", "kick", "release")
            /\ usb_resume_timer' = IF usb_intf_suspend THEN "idle"
                                                       ELSE usb_resume_timer
    /\ UNCHANGED <<ps_en_ioctl, tx_access_lock, common, access,
                   tx_pending_urb_cnt, usb, resume_wanted, core, fw, mistakes>>

\* A suspended interface is to be resumed in 1 ms.  mod_timer of a timer that
\* has no function yet is a BUG that kills the thread.
WlanKick ==
    /\ pc["wlan"] = "kick"
    /\ IF usb_intf_suspend /\ usb_resume_timer = "none"
       THEN Goto("wlan", "kick", "dead") /\ UNCHANGED usb_resume_timer
       ELSE /\ Goto("wlan", "kick", "release")
            /\ usb_resume_timer' = IF usb_intf_suspend THEN "armed"
                                                       ELSE usb_resume_timer
    /\ UNCHANGED <<ps_en_ioctl, tx_access_lock, common, access,
                   tx_pending_urb_cnt, usb, resume_wanted, core, fw, mistakes>>

\* update_tx_status returns; its caller looks whether access was given.
WlanRelease ==
    /\ Release("wlan", "release", IF tx_access THEN "send" ELSE "arm")
    /\ UNCHANGED <<ps_en_ioctl, common, access,
                   tx_pending_urb_cnt, usb, timer, core, fw, mistakes>>

WlanArm ==
    /\ Goto("wlan", "arm", "wait")
    /\ deregister_flags' = TRUE
    /\ UNCHANGED <<ps_en_ioctl, tx_access_lock, common,
                   tx_intention, tx_access, tx_pending_urb_cnt, usb, timer,
                   core, fw, mistakes>>

\* Woken, or after 6 s.  After the time-out the intention and the flag stay.
WlanWait ==
    /\ Goto("wlan", "wait",
            IF ~deregister_flags /\ tx_access THEN "send" ELSE "idle")
    /\ UNCHANGED <<ps_en_ioctl, tx_access_lock, common, access,
                   tx_pending_urb_cnt, usb, timer, core, fw, mistakes>>

\* transmit_lock: from WlanSend to WlanWrite the WLAN thread has it, from
\* AckWritten to AckClosesBus the coex thread.

\* send_pkt_to_coex looks at both accesses under transmit_lock (and frees the
\* packet if one is missing) ...
WlanSend ==
    /\ ~ack_written
    /\ tx_access /\ common_hal_tx_access
    /\ Goto("wlan", "send", "write")
    /\ UNCHANGED <<ps_en_ioctl, tx_access_lock, common, access,
                   tx_pending_urb_cnt, usb, timer, core, fw, mistakes>>

\* ... and writes under it.
WlanWrite ==
    /\ Goto("wlan", "write", "send")
    /\ tx_pending_urb_cnt < PendingBound
    /\ tx_pending_urb_cnt' = tx_pending_urb_cnt + 1
    /\ UNCHANGED <<ps_en_ioctl, tx_access_lock, common, access,
                   usb, timer, core, fw, mistakes>>

\* The loop over the queues ends; in power save the thread gives access up.
WlanSent ==
    /\ \/ Goto("wlan", "send", "idle") /\ UNCHANGED <<tx_intention, tx_access>>
       \/ /\ Goto("wlan", "send", "dropUpdate")
          /\ tx_intention' = FALSE
          /\ tx_access' = FALSE
    /\ UNCHANGED <<ps_en_ioctl, tx_access_lock, common, deregister_flags,
                   tx_pending_urb_cnt, usb, timer, core, fw, mistakes>>

send_ulp_sleep_ack ==
    /\ ulp_sleep_ack_sent' = TRUE
    /\ ack_queued' = TRUE

\* update_tx_status without an intention answers a sleep request.
WlanDropUpdate ==
    /\ Goto("wlan", "dropUpdate", "idle")
    /\ tx_access_lock > 0
    /\ IF sleep_entry_recvd /\ ~ulp_sleep_ack_sent /\ ~tx_intention
       THEN send_ulp_sleep_ack
       ELSE UNCHANGED <<ulp_sleep_ack_sent, ack_queued>>
    /\ UNCHANGED <<ps_en_ioctl, tx_access_lock, common_hal_tx_access,
                   sleep_entry_recvd, ack_written, access, tx_pending_urb_cnt,
                   usb, timer, core, fw, mistakes>>

\* wlan_usb_tx_done_handler
TxDone ==
    /\ tx_pending_urb_cnt > 0
    /\ tx_pending_urb_cnt' = tx_pending_urb_cnt - 1
    /\ UNCHANGED <<ps_en_ioctl, tx_access_lock, common, access,
                   usb, timer, core, fw, pc, mistakes>>

-----------------------------------------------------------------------------
\* sleep_exit_recvd, by the worker and at the end of a resume

ExitLock(t) ==
    /\ Acquire(t, "exitLock", "exitOpen")
    /\ UNCHANGED <<ps_en_ioctl, common, access,
                   tx_pending_urb_cnt, usb, timer, core, fw, mistakes>>

\* At the end of a resume the device, whose messages are read again, may have
\* asked for sleep once more: the exit wipes that request out.
ExitOpen(t) ==
    /\ Release(t, "exitOpen", "exitGrant")
    /\ sleep_entry_recvd' = FALSE
    /\ common_hal_tx_access' = TRUE
    /\ ulp_sleep_ack_sent' = FALSE
    /\ mistakes' = IF t = "pm" /\ fw # "awake" THEN mistakes \cup {"late"}
                                               ELSE mistakes
    /\ UNCHANGED <<ps_en_ioctl, ack_queued, ack_written, access,
                   tx_pending_urb_cnt, usb, timer, core, fw>>

\* onebox_usb_resume returns after it.
Exited(t) == core' = IF t = "pm" THEN "active" ELSE core

\* Whoever waits has the access and is woken (in TxAccess: two steps).
ExitGrant(t) ==
    /\ Goto(t, "exitGrant", "idle")
    /\ tx_access' = (tx_access \/ deregister_flags)
    /\ deregister_flags' = FALSE
    /\ Exited(t)
    /\ UNCHANGED <<ps_en_ioctl, tx_access_lock, common, tx_intention,
                   tx_pending_urb_cnt, usb, timer, fw, mistakes>>

-----------------------------------------------------------------------------
\* The device

\* The device asks for sleep and the worker answers, or keeps the bus (with the
\* loop over those that wait).  A step of its own where suspend and WLAN have
\* several: TxAccess has the others.
SleepEntry ==
    /\ fw = "awake" /\ rx_urbs /\ pc["worker"] = "idle" /\ tx_access_lock > 0
    /\ fw' = "requested"
    /\ sleep_entry_recvd' = TRUE
    /\ IF ~tx_intention
       THEN send_ulp_sleep_ack /\ UNCHANGED <<common_hal_tx_access, access>>
       ELSE /\ common_hal_tx_access' = TRUE
            /\ ulp_sleep_ack_sent' = FALSE
            /\ tx_access' = (tx_access \/ deregister_flags)
            /\ deregister_flags' = FALSE
            /\ UNCHANGED <<ack_queued, tx_intention>>
    /\ UNCHANGED <<ps_en_ioctl, tx_access_lock, ack_written,
                   tx_pending_urb_cnt, usb, timer, core, pc, mistakes>>

\* The coex thread writes the ack, and the device that has it sleeps ...
AckWritten ==
    /\ ack_queued /\ ~ack_written /\ pc["wlan"] # "write"
    /\ tx_pending_urb_cnt < PendingBound
    /\ tx_pending_urb_cnt' = tx_pending_urb_cnt + 1
    /\ ack_queued' = FALSE /\ ack_written' = TRUE
    /\ fw' = "asleep"
    /\ UNCHANGED <<ps_en_ioctl, tx_access_lock, common_hal_tx_access,
                   sleep_entry_recvd, ulp_sleep_ack_sent, access, usb, timer,
                   core, pc, mistakes>>

\* Mutant of AckClosesBus: the bus stays open.
AckLeavesBus ==
    /\ ack_written /\ tx_access_lock > 0
    /\ ack_written' = FALSE
    /\ ulp_sleep_ack_sent' = (ulp_sleep_ack_sent \/ sleep_entry_recvd)
    /\ UNCHANGED <<ps_en_ioctl, tx_access_lock, common_hal_tx_access,
                   sleep_entry_recvd, ack_queued, access, tx_pending_urb_cnt,
                   usb, timer, core, fw, pc, mistakes>>

\* ... and then the thread closes the bus, unless the device left sleep.
AckClosesBus ==
    /\ ack_written /\ tx_access_lock > 0
    /\ ack_written' = FALSE
    /\ ulp_sleep_ack_sent' = (ulp_sleep_ack_sent \/ sleep_entry_recvd)
    /\ common_hal_tx_access' = (common_hal_tx_access /\ ~sleep_entry_recvd)
    /\ UNCHANGED <<ps_en_ioctl, tx_access_lock, sleep_entry_recvd, ack_queued,
                   access, tx_pending_urb_cnt, usb, timer, core, fw, pc,
                   mistakes>>

\* It wakes and says so, unless it has just told the host that it sleeps for
\* some time: suspend goes no further when that is less than 5 ms.
DeviceWakes ==
    /\ fw = "asleep" /\ rx_urbs /\ pc["pm"] # "susClose"
    /\ fw' = "awake"
    /\ Goto("worker", "idle", "exitLock")
    /\ UNCHANGED <<ps_en_ioctl, tx_access_lock, common, access,
                   tx_pending_urb_cnt, usb, timer, core, mistakes>>

\* PS_REQUEST
PsRequest ==
    /\ ps_en_ioctl' \in BOOLEAN
    /\ UNCHANGED <<tx_access_lock, common, access,
                   tx_pending_urb_cnt, usb, timer, core, fw, pc, mistakes>>

-----------------------------------------------------------------------------
\* onebox_usb_suspend

SuspendCall ==
    /\ core = "active"
    /\ ps_en_ioctl
    /\ Goto("pm", "idle", "susLock")
    /\ UNCHANGED <<ps_en_ioctl, tx_access_lock, common, access,
                   tx_pending_urb_cnt, usb, timer, core, fw, mistakes>>

\* Power save is off: EBUSY, after an up that no down goes before.
SuspendOff ==
    /\ core = "active" /\ pc["pm"] = "idle"
    /\ ~ps_en_ioctl
    /\ tx_access_lock < LockBound
    /\ tx_access_lock' = tx_access_lock + 1
    /\ mistakes' = mistakes \cup {"unpaired"}
    /\ UNCHANGED <<ps_en_ioctl, common, access,
                   tx_pending_urb_cnt, usb, timer, core, fw, pc>>

SuspendLock ==
    /\ Acquire("pm", "susLock", "susTest")
    /\ UNCHANGED <<ps_en_ioctl, common, access,
                   tx_pending_urb_cnt, usb, timer, core, fw, mistakes>>

\* protocol_tx_access, tx_pending_urb_cnt
InUse == tx_intention \/ tx_pending_urb_cnt > 0

SuspendTest ==
    /\ ~InUse
    /\ Goto("pm", "susTest", "susStatus")
    /\ UNCHANGED <<ps_en_ioctl, tx_access_lock, common, access,
                   tx_pending_urb_cnt, usb, timer, core, fw, mistakes>>

\* The function ends without an up and without a return: the core may take what
\* is in the register for success, and then stops the interface's blocks.
SuspendLeak ==
    /\ InUse
    /\ Goto("pm", "susTest", "idle")
    /\ core' \in {"active", "suspended"}
    /\ rx_urbs' = (rx_urbs /\ core' = "active")
    /\ resume_wanted' = FALSE
    /\ mistakes' = mistakes \cup {"leak"}
    /\ UNCHANGED <<ps_en_ioctl, tx_access_lock, common, access,
                   tx_pending_urb_cnt, usb_intf_suspend, usb_in_deep_ps,
                   usb_resume_timer, fw>>

\* The status cannot be read, the device is awake, or it sleeps for less than
\* 5 ms: EBUSY.
SuspendBusy ==
    /\ Release("pm", "susStatus", "idle")
    /\ \/ UNCHANGED usb_in_deep_ps
       \/ fw = "asleep" /\ usb_in_deep_ps' = FALSE
    /\ resume_wanted' = FALSE
    /\ UNCHANGED <<ps_en_ioctl, common, access,
                   tx_pending_urb_cnt, usb_intf_suspend, rx_urbs,
                   usb_resume_timer, core, fw, mistakes>>

\* The device sleeps, for a time it tells or, in deep power save, for ever.
SuspendAccept ==
    /\ fw = "asleep"
    /\ Goto("pm", "susStatus", "susClose")
    /\ usb_in_deep_ps' \in BOOLEAN
    /\ UNCHANGED <<ps_en_ioctl, tx_access_lock, common, access,
                   tx_pending_urb_cnt, usb_intf_suspend, rx_urbs, timer, core,
                   fw, mistakes>>

\* The bus is closed, onebox_cancel_rx_urbs.
SuspendClose ==
    /\ Goto("pm", "susClose", "susRelease")
    /\ common_hal_tx_access' = FALSE
    /\ rx_urbs' = FALSE
    /\ UNCHANGED <<ps_en_ioctl, tx_access_lock, sleep_entry_recvd,
                   ulp_sleep_ack_sent, ack_queued, ack_written, access,
                   tx_pending_urb_cnt, usb_intf_suspend, usb_in_deep_ps, timer,
                   core, fw, mistakes>>

SuspendRelease ==
    /\ Release("pm", "susRelease", "susFlag")
    /\ UNCHANGED <<ps_en_ioctl, common, access,
                   tx_pending_urb_cnt, usb, timer, core, fw, mistakes>>

SuspendFlag ==
    /\ Goto("pm", "susFlag", "susTimer")
    /\ usb_intf_suspend' = TRUE
    /\ UNCHANGED <<ps_en_ioctl, tx_access_lock, common, access,
                   tx_pending_urb_cnt, usb_in_deep_ps, rx_urbs, timer, core,
                   fw, mistakes>>

\* Mutant of SuspendTimer: a timer that has its function is not started again.
TimerOnlyOnce ==
    /\ Goto("pm", "susTimer", "idle")
    /\ usb_resume_timer' = IF usb_resume_timer = "none" THEN "armed"
                                                        ELSE usb_resume_timer
    /\ core' = "suspended"
    /\ UNCHANGED <<ps_en_ioctl, tx_access_lock, common, access,
                   tx_pending_urb_cnt, usb, resume_wanted, fw, mistakes>>

\* onebox_init_sw_timer, or onebox_mod_timer; return 0.
SuspendTimer ==
    /\ Goto("pm", "susTimer", "idle")
    /\ usb_resume_timer' = "armed"
    /\ core' = "suspended"
    /\ UNCHANGED <<ps_en_ioctl, tx_access_lock, common, access,
                   tx_pending_urb_cnt, usb, resume_wanted, fw, mistakes>>

-----------------------------------------------------------------------------
\* onebox_resume_usb_intf_timer, onebox_usb_resume

\* In deep power save nobody is woken for nothing.
StaysDown == usb_in_deep_ps /\ ~tx_intention

\* usb_autopm_get_interface_async: a suspend under way is followed by a resume.
CanWant == \/ core = "suspended" /\ pc["pm"] = "idle"
           \/ pc["pm"] \in SuspendPC

\* Mutant of TimerFires: in deep power save the timer is not started again.
FiresOnce ==
    /\ usb_resume_timer = "armed"
    /\ usb_resume_timer' = "idle"
    /\ resume_wanted' =
         (resume_wanted \/ (usb_intf_suspend /\ ~StaysDown /\ CanWant))
    /\ UNCHANGED <<ps_en_ioctl, tx_access_lock, common, access,
                   tx_pending_urb_cnt, usb, core, fw, pc, mistakes>>

TimerFires ==
    /\ usb_resume_timer = "armed"
    /\ usb_resume_timer' =
         IF usb_intf_suspend /\ StaysDown THEN "armed" ELSE "idle"
    /\ resume_wanted' =
         (resume_wanted \/ (usb_intf_suspend /\ ~StaysDown /\ CanWant))
    /\ UNCHANGED <<ps_en_ioctl, tx_access_lock, common, access,
                   tx_pending_urb_cnt, usb, core, fw, pc, mistakes>>

\* With power save off there is nothing to do: return 0.
ResumeCall ==
    /\ core = "suspended" /\ resume_wanted
    /\ \/ ps_en_ioctl /\ Goto("pm", "idle", "resLock") /\ UNCHANGED core
       \/ ~ps_en_ioctl /\ Goto("pm", "idle", "idle") /\ core' = "active"
    /\ resume_wanted' = FALSE
    /\ UNCHANGED <<ps_en_ioctl, tx_access_lock, common, access,
                   tx_pending_urb_cnt, usb, usb_resume_timer, fw, mistakes>>

ResumeLock ==
    /\ Acquire("pm", "resLock", "resRead")
    /\ UNCHANGED <<ps_en_ioctl, common, access,
                   tx_pending_urb_cnt, usb, timer, core, fw, mistakes>>

\* The device does not answer; the core takes the interface for active anyway.
ResumeFails ==
    /\ Release("pm", "resRead", "idle")
    /\ core' = "active"
    /\ UNCHANGED <<ps_en_ioctl, common, access,
                   tx_pending_urb_cnt, usb, timer, fw, mistakes>>

\* The device is up, the receive blocks are submitted; sleep_exit_recvd follows.
ResumeOpen ==
    /\ Release("pm", "resRead", "exitLock")
    /\ fw' = "awake"
    /\ rx_urbs' = TRUE
    /\ usb_intf_suspend' = FALSE
    /\ UNCHANGED <<ps_en_ioctl, common, access,
                   tx_pending_urb_cnt, usb_in_deep_ps, timer, core, mistakes>>

-----------------------------------------------------------------------------
\* WLAN is up, power save not asked for, no suspend tried so far.
Init ==
    /\ ps_en_ioctl = FALSE
    /\ tx_access_lock = 1
    /\ common_hal_tx_access = TRUE /\ sleep_entry_recvd = FALSE
    /\ ulp_sleep_ack_sent = FALSE
    /\ ack_queued = FALSE /\ ack_written = FALSE
    /\ tx_intention = FALSE /\ tx_access = FALSE /\ deregister_flags = FALSE
    /\ tx_pending_urb_cnt = 0
    /\ usb_intf_suspend = FALSE /\ usb_in_deep_ps = FALSE /\ rx_urbs = TRUE
    /\ usb_resume_timer = "none" /\ resume_wanted = FALSE
    /\ core = "active" /\ fw = "awake"
    /\ pc = [t \in Threads |-> "idle"]
    /\ mistakes = {}

WlanStep ==
    \/ WlanAsk \/ WlanHas \/ WlanLock \/ WlanTest \/ WlanKick \/ WlanRelease
    \/ WlanArm \/ WlanWait
    \/ WlanSend \/ WlanWrite \/ WlanSent \/ WlanDropUpdate
ExitStep(t) == ExitLock(t) \/ ExitOpen(t) \/ ExitGrant(t)
SuspendStep ==
    \/ SuspendLock \/ SuspendTest \/ SuspendLeak \/ SuspendBusy
    \/ SuspendAccept \/ SuspendClose \/ SuspendRelease \/ SuspendFlag
    \/ SuspendTimer
ResumeStep == ResumeCall \/ ResumeLock \/ ResumeFails \/ ResumeOpen

Next ==
    \/ WlanStep \/ TxDone
    \/ \E t \in {"worker", "pm"} : ExitStep(t)
    \/ SleepEntry \/ AckWritten \/ AckClosesBus \/ DeviceWakes \/ PsRequest
    \/ SuspendCall \/ SuspendOff \/ SuspendStep
    \/ TimerFires \/ ResumeStep

Spec == Init /\ [][Next]_vars

\* The threads run when they can, the timer expires, and a down is served in the
\* order of arrival.  Nobody need suspend; the device need not sleep, nor wake.
FairSpec ==
    /\ Spec
    /\ WF_vars(WlanStep) /\ WF_vars(ExitStep("worker")) /\ WF_vars(TimerFires)
    /\ SF_vars(SuspendStep \/ ResumeStep \/ ExitStep("pm"))

-----------------------------------------------------------------------------
FlagsOK ==
    /\ ps_en_ioctl \in BOOLEAN
    /\ common_hal_tx_access \in BOOLEAN /\ sleep_entry_recvd \in BOOLEAN
    /\ ulp_sleep_ack_sent \in BOOLEAN
    /\ ack_queued \in BOOLEAN /\ ack_written \in BOOLEAN
    /\ tx_intention \in BOOLEAN /\ tx_access \in BOOLEAN
    /\ deregister_flags \in BOOLEAN
    /\ usb_intf_suspend \in BOOLEAN /\ usb_in_deep_ps \in BOOLEAN
    /\ rx_urbs \in BOOLEAN /\ resume_wanted \in BOOLEAN

CountsOK ==
    /\ tx_access_lock \in Nat
    /\ tx_pending_urb_cnt \in 0 .. PendingBound

StatesOK ==
    /\ usb_resume_timer \in {"none", "idle", "armed"}
    /\ core \in {"active", "suspended"}
    /\ fw \in {"awake", "requested", "asleep"}
    /\ mistakes \subseteq {"unpaired", "leak", "late"}

PlacesOK ==
    /\ pc \in [Threads -> WlanPC \cup ExitPC \cup SuspendPC \cup ResumePC]
    /\ pc["wlan"] \in WlanPC
    /\ pc["worker"] \in {"idle"} \cup ExitPC
    /\ pc["pm"] \in {"idle"} \cup ExitPC \cup SuspendPC \cup ResumePC

TypeOK == FlagsOK /\ CountsOK /\ StatesOK /\ PlacesOK

\* While the semaphore was never released untaken, and no resume has wiped out a
\* sleep request, nothing is written to a suspended interface ("WHY U came to
\* write in suspended state"): the WLAN thread states its intention without the
\* lock, at any step of the suspend, and the ack that let the device sleep may
\* still be on its way to closing the bus.
SuspendedIsQuiet ==
    mistakes \cap {"unpaired", "late"} = {} /\ usb_intf_suspend
        => pc["wlan"] # "write"

\* A suspended interface is never left without something that resumes it,
\* although a request between the release of the lock and the flag does not
\* hurry the timer, and the timer may run out before the suspend is over.
SomethingResumes ==
    usb_intf_suspend /\ core = "suspended" /\ pc["pm"] = "idle"
        => usb_resume_timer = "armed" \/ resume_wanted \/ "leak" \in mistakes

\* The strengthening behind both.  The lock excludes while it was only released
\* by who took it; a device asleep has the bus closed, or about to be by the
\* coex thread with transmit_lock; from the status that suspend accepts until
\* the resume the device stays asleep; and the core's view agrees with the
\* thread's.
MutexInv ==
    "unpaired" \notin mistakes =>
        /\ tx_access_lock <= 1
        /\ tx_access_lock = 1 => Inside = {}
        /\ \A t1, t2 \in Inside : t1 = t2

SleepInv ==
    "late" \notin mistakes =>
        /\ ack_queued => fw = "requested" /\ ulp_sleep_ack_sent
        /\ sleep_entry_recvd /\ ~ulp_sleep_ack_sent => fw = "requested"
        /\ fw \in {"requested", "asleep"} => sleep_entry_recvd
        /\ fw = "asleep" => ack_written \/ ~common_hal_tx_access
        /\ pc["worker"] \in {"exitLock", "exitOpen"} => fw = "awake"
        /\ pc["wlan"] = "write" => fw # "asleep" /\ ~ack_written

SuspendInv ==
    /\ usb_intf_suspend \/ pc["pm"] \in {"susRelease", "susFlag", "susTimer"}
           => fw = "asleep" /\ ~rx_urbs
    /\ pc["pm"] = "susClose" => fw = "asleep"
    /\ pc["pm"] \in SuspendPC => core = "active"
    /\ pc["pm"] \in ResumePC \cup ExitPC => core = "suspended"
    /\ pc["pm"] \in ResumePC => usb_intf_suspend /\ ~resume_wanted
    /\ resume_wanted => usb_intf_suspend

IInv == TypeOK /\ MutexInv /\ SleepInv /\ SuspendInv /\ SomethingResumes

\* The core is done resuming and the driver has not opened the bus: power save
\* was switched off meanwhile, or the device did not answer.
LeftSuspended == core = "active" /\ usb_intf_suspend

\* A request finds the interface resumed in the end, if the core's resume may
\* act on it and onebox_usb_suspend has not kept the lock.
RequestResumes ==
    usb_intf_suspend /\ tx_intention
        ~> \/ ~usb_intf_suspend \/ ~tx_intention
           \/ LeftSuspended \/ "leak" \in mistakes \/ pc["wlan"] = "dead"
=============================================================================
