---------------------------- MODULE WlanPowerSave ----------------------------
(***************************************************************************)
(* Power save of the WLAN station (onebox_ps.c): the state machine         *)
(* PS_STATE that asks the firmware to sleep and to wake, the callers that  *)
(* drive it through update_pwr_save_status (ioctl, traffic timer, data     *)
(* path, management frames, confirms), and the part of the WLAN thread     *)
(* (core_qos_processor) that dequeues the requests and holds management    *)
(* frames back.                                                            *)
(*                                                                         *)
(* pwr_sve_event_handler runs under IEEE80211_LOCK and is one step, but    *)
(* for one thing: send_ps_params_req makes the request visible to the WLAN *)
(* thread before the handler assigns PS_STATE, and the thread reads and    *)
(* writes PS_STATE without the lock.  ic_lock and next_state carry the     *)
(* handler over that gap.  What the callers read before they take the lock *)
(* is a step of its own.  The state of the vap is net80211's, changed      *)
(* under the same lock; AUTH stands for AUTH and ASSOC.                    *)
(***************************************************************************)
EXTENDS Naturals, Sequences, FiniteSets

CONSTANTS
    Interface,    \* host_intf_type: "SDIO" or "USB"
    Params,       \* power save parameters the user may set
    MgmtBound,    \* bound: other management frames in the queue
    CallerBound,  \* bound: callers between their decision and the handler
    AllocMayFail  \* onebox_alloc_skb may return NULL for a request

Parameters == [ps_en : BOOLEAN, monitor_interval : Nat]
NoParams   == [ps_en |-> FALSE, monitor_interval |-> 0]

ASSUME ConstantsAssumption ==
    /\ Interface \in {"SDIO", "USB"}
    /\ Params \subseteq Parameters /\ NoParams \in Params
    /\ MgmtBound \in Nat /\ CallerBound \in Nat
    /\ AllocMayFail \in BOOLEAN

VARIABLES
    PS_STATE,
    queue,             \* host_tx_queue[MGMT_SOFT_Q]
    scheduler_event,   \* sdio_scheduler_event of the WLAN thread
    ic_lock,           \* who holds IEEE80211_LOCK between two steps
    next_state,        \* PS_STATE the holder of the lock is to assign
    ps_params, ps_params_ioctl, update_ta, disable_ps_for_change_in_params,
    delay_pwr_sve_decision_flag, delay_sta_support_decision_flag,
    traffic_timer,     \* the timer is pending
    tpc, ipc, dpc,     \* traffic timer's callback, ioctl, data path
    wpc, hand,         \* WLAN thread, and the request it holds
    iv_state, scanning, conn_in_prog, sc_nvaps,   \* net80211's
    bus,               \* requests on their way to the firmware
    asleep,            \* the firmware sleeps
    cnf                \* confirms on their way to the host

request  == <<PS_STATE, queue, scheduler_event, ic_lock, next_state>>
settings == <<ps_params, update_ta, disable_ps_for_change_in_params>>
delays   == <<delay_pwr_sve_decision_flag, delay_sta_support_decision_flag>>
callers  == <<tpc, ipc, dpc>>
thread   == <<wpc, hand>>
vap      == <<iv_state, scanning, conn_in_prog, sc_nvaps>>
device   == <<bus, asleep, cnf>>
vars == <<request, settings, ps_params_ioctl, delays, traffic_timer, callers,
          thread, vap, device>>

PsState  == {"PS_NONE", "PS_EN_REQ_QUEUED", "PS_EN_REQ_SENT",
             "DEV_IN_PWR_SVE", "PS_DIS_REQ_SENT"}
VapState == {"INIT", "SCAN", "AUTH", "RUN"}
Lockers  == {"wlan", "rx", "ioctl", "timer", "data"}
\* Wake requests carry the kind of sleep they end: connected or deep.
Requests == {"sleep", "wake", "wakeDeep"}
Frames   == Requests \cup {"mgmt"}
NoFrame  == "none"
Confirms == {"PS_EN_REQ_CNFM_PATH", "PS_DIS_REQ_CNFM_PATH"}
PS_ENABLE  == TRUE
PS_DISABLE == FALSE

RUN == iv_state = "RUN"
TRAFFIC_PS_EN == ps_params.monitor_interval # 0

-----------------------------------------------------------------------------
\* onebox_ps.c: requests

\* Queue a request, at the head if it must overtake, wake the WLAN thread,
\* and leave PS_STATE to be assigned by the caller; a wakeup request assigns
\* it before the frame is queued.  With several vaps every request is a
\* wakeup request.  A failed allocation only loses the frame.
send_ps_params_req(from, to, ps_en, to_head, who) ==
    LET enable == ps_en /\ sc_nvaps < 2
        frame  == IF enable THEN "sleep" ELSE IF RUN THEN "wake" ELSE "wakeDeep"
        seen   == IF enable THEN from ELSE "PS_DIS_REQ_SENT"
    IN /\ \/ /\ queue' = IF to_head THEN <<frame>> \o queue
                                    ELSE Append(queue, frame)
             /\ scheduler_event' = TRUE
          \/ AllocMayFail /\ UNCHANGED <<queue, scheduler_event>>
       /\ PS_STATE' = seen
       /\ next_state' = to
       /\ ic_lock' = IF seen = to THEN "free" ELSE who

\* The holder of the lock assigns PS_STATE and leaves.
AssignState ==
    /\ ic_lock # "free"
    /\ PS_STATE' = next_state
    /\ ic_lock' = "free"
    /\ UNCHANGED <<queue, scheduler_event, next_state, settings,
                   ps_params_ioctl, delays, traffic_timer, callers, thread,
                   vap, device>>

\* No request: PS_STATE is what the handler found or confirmed.
NoRequest(from) ==
    /\ PS_STATE' = from
    /\ UNCHANGED <<queue, scheduler_event, ic_lock, next_state>>

\* The user has set parameters since the last decision.
UpdateTA(from, ps_status, to_head, who) ==
    LET on == ps_params_ioctl.ps_en
        changed == ps_params_ioctl # ps_params
        asleepNow == from = "DEV_IN_PWR_SVE"
    IN /\ update_ta
       /\ ps_params' = ps_params_ioctl
       /\ update_ta' = FALSE
       /\ disable_ps_for_change_in_params' =
              (disable_ps_for_change_in_params \/ (on /\ asleepNow /\ changed))
       /\ \/ /\ IF on THEN asleepNow /\ ~changed ELSE ~asleepNow
             /\ NoRequest(from)
          \/ /\ ~on /\ asleepNow
             /\ send_ps_params_req(from, "PS_DIS_REQ_SENT", ps_status,
                                   to_head, who)
          \/ /\ on /\ asleepNow /\ changed
             /\ send_ps_params_req(from, "PS_DIS_REQ_SENT", PS_DISABLE,
                                   to_head \/ ~RUN, who)
          \/ /\ on /\ ~asleepNow
             /\ send_ps_params_req(from, "PS_EN_REQ_QUEUED", PS_ENABLE,
                                   FALSE, who)

\* case PS_NONE, DEV_IN_PWR_SVE: decide whether to ask for anything.
Decide(from, ps_status, path, to_head, who) ==
    LET pending == /\ path = "MGMT_PENDING_PATH" /\ from = "DEV_IN_PWR_SVE"
                   /\ ~RUN
        again == /\ disable_ps_for_change_in_params
                 /\ ps_params.ps_en /\ from = "PS_NONE"
    IN \/ /\ pending
          /\ send_ps_params_req(from, "PS_DIS_REQ_SENT", ps_status, to_head, who)
          /\ UNCHANGED settings
       \/ ~pending /\ UpdateTA(from, ps_status, to_head, who)
       \/ /\ ~pending /\ ~update_ta /\ path \notin Confirms /\ ps_params.ps_en
          /\ send_ps_params_req(from, IF ps_status THEN "PS_EN_REQ_QUEUED"
                                      ELSE "PS_DIS_REQ_SENT",
                                ps_status, to_head, who)
          /\ UNCHANGED settings
       \/ /\ ~pending /\ ~update_ta /\ (path \in Confirms \/ ~ps_params.ps_en)
          /\ disable_ps_for_change_in_params' = FALSE
          /\ UNCHANGED <<ps_params, update_ta>>
          /\ IF again
             THEN send_ps_params_req(from, "PS_EN_REQ_QUEUED", PS_ENABLE,
                                     to_head, who)
             ELSE NoRequest(from)

-----------------------------------------------------------------------------
\* onebox_ps.c: pwr_sve_event_handler

\* Mutant of Refused: the delay flag also refuses confirms.
RefusedAll(ps_status, path) ==
    \/ iv_state = "SCAN" /\ scanning /\ PS_STATE = "PS_NONE"
    \/ /\ iv_state # "INIT" /\ conn_in_prog /\ ps_status = PS_ENABLE
       /\ path \notin Confirms
    \/ delay_pwr_sve_decision_flag

\* The early returns.
Refused(ps_status, path) ==
    \/ iv_state = "SCAN" /\ scanning /\ PS_STATE = "PS_NONE"
    \/ /\ iv_state # "INIT" /\ conn_in_prog /\ ps_status = PS_ENABLE
       /\ path \notin Confirms
    \/ delay_pwr_sve_decision_flag /\ path \notin Confirms

\* Mutants: any confirm ends a wakeup request; the state PS_DIS_REQ_SENT does
\* not wait for its confirm.
AnyConfirm(path) == PS_STATE = "PS_DIS_REQ_SENT" /\ path \in Confirms

DisableConfirmed(path) ==
    PS_STATE = "PS_DIS_REQ_SENT" /\ path = "PS_DIS_REQ_CNFM_PATH"

\* Mutant: any caller that finds PS_EN_REQ_SENT takes the device to sleep.
EnableAssumed(path) == PS_STATE = "PS_EN_REQ_SENT"

EnableConfirmed(path) ==
    PS_STATE = "PS_EN_REQ_SENT" /\ path = "PS_EN_REQ_CNFM_PATH"

DecidesEarly ==
    PS_STATE \in {"PS_NONE", "DEV_IN_PWR_SVE", "PS_DIS_REQ_SENT"}

\* The states in which a call may ask for something new.
MayDecide == PS_STATE \in {"PS_NONE", "DEV_IN_PWR_SVE"}

\* Mutant of SleepConfirmed: held management frames are not scheduled.
SleepUnscheduled ==
    /\ PS_STATE' = "DEV_IN_PWR_SVE"
    /\ UNCHANGED <<queue, scheduler_event, ic_lock, next_state, settings,
                   traffic_timer>>

\* The device sleeps: schedule the frames held since.  The case falls through
\* into PS_DIS_REQ_SENT, which leaves, whatever loop is.
SleepConfirmed ==
    /\ PS_STATE' = "DEV_IN_PWR_SVE"
    /\ scheduler_event' = TRUE
    /\ UNCHANGED <<queue, ic_lock, next_state, settings, traffic_timer>>

\* The device is awake: start to monitor, and decide at once unless a scan, a
\* connection or the delay timer is in progress.
WakeConfirmed(ps_status, path, to_head, who) ==
    /\ traffic_timer' = (traffic_timer \/ (RUN /\ TRAFFIC_PS_EN))
    /\ IF delay_pwr_sve_decision_flag \/ conn_in_prog \/ scanning
       THEN NoRequest("PS_NONE") /\ UNCHANGED settings
       ELSE Decide("PS_NONE", ps_status, path, to_head, who)

\* One vap: the switch over PS_STATE.
OneVap(ps_status, path, to_head, who) ==
    \/ EnableConfirmed(path) /\ SleepConfirmed
    \/ DisableConfirmed(path) /\ WakeConfirmed(ps_status, path, to_head, who)
    \/ /\ MayDecide /\ ~DisableConfirmed(path)
       /\ Decide(PS_STATE, ps_status, path, to_head, who)
       /\ UNCHANGED traffic_timer
    \/ /\ ~EnableConfirmed(path) /\ ~DisableConfirmed(path) /\ ~MayDecide
       /\ UNCHANGED <<request, settings, traffic_timer>>

\* Several vaps: no power save; wake the device as soon as that can be asked.
SeveralVaps(path, to_head, who) ==
    LET sleeps == ps_params.ps_en /\ PS_STATE = "DEV_IN_PWR_SVE"
    IN /\ UNCHANGED <<settings, traffic_timer>>
       /\ \/ /\ sleeps \/ EnableConfirmed(path)
             /\ send_ps_params_req(PS_STATE, "PS_DIS_REQ_SENT", PS_DISABLE,
                                   to_head /\ ~sleeps, who)
          \/ DisableConfirmed(path) /\ NoRequest("PS_NONE")
          \/ /\ ~sleeps /\ ~EnableConfirmed(path) /\ ~DisableConfirmed(path)
             /\ UNCHANGED request

pwr_sve_event_handler(ps_status, path, to_head, who) ==
    /\ ic_lock = "free"
    /\ \/ /\ Refused(ps_status, path)
          /\ UNCHANGED <<request, settings, traffic_timer>>
       \/ /\ ~Refused(ps_status, path) /\ sc_nvaps < 2
          /\ OneVap(ps_status, path, to_head, who)
       \/ /\ ~Refused(ps_status, path) /\ sc_nvaps >= 2
          /\ SeveralVaps(path, to_head, who)

-----------------------------------------------------------------------------
\* The callers

MayCall ==
    Cardinality({c \in 1 .. 3 : <<tpc, ipc, dpc>>[c] # "idle"}) < CallerBound

\* WAKEUP_SLEEP_REQUEST confirm, in the receive path.
RxConfirm ==
    /\ cnf # <<>>
    /\ cnf' = Tail(cnf)
    /\ pwr_sve_event_handler(PS_DISABLE,
           IF Head(cnf) = "sleep" THEN "PS_EN_REQ_CNFM_PATH"
                                  ELSE "PS_DIS_REQ_CNFM_PATH", FALSE, "rx")
    /\ UNCHANGED <<ps_params_ioctl, delays, callers, thread, vap, bus, asleep>>

\* ioctl PS_REQUEST: the parameters first, the handler after.
IoctlSet ==
    /\ ipc = "idle" /\ MayCall
    /\ ps_params_ioctl' \in Params
    /\ update_ta' = TRUE
    /\ ipc' = "update"
    /\ UNCHANGED <<request, ps_params, disable_ps_for_change_in_params, delays,
                   traffic_timer, tpc, dpc, thread, vap, device>>

\* IOCTL_PATH is dropped while the vap scans or connects.
IoctlUpdate ==
    /\ ipc = "update"
    /\ ipc' = "idle"
    /\ IF iv_state \in {"INIT", "RUN"}
       THEN pwr_sve_event_handler(ps_params_ioctl.ps_en, "IOCTL_PATH", FALSE,
                                  "ioctl")
       ELSE UNCHANGED <<request, settings, traffic_timer>>
    /\ UNCHANGED <<ps_params_ioctl, delays, tpc, dpc, thread, vap, device>>

\* check_traffic_pwr_save: the data load is over the threshold.
DataBurst ==
    /\ dpc = "idle" /\ MayCall
    /\ ps_params.ps_en /\ TRAFFIC_PS_EN /\ RUN
    /\ ~delay_pwr_sve_decision_flag
    /\ IF PS_STATE = "DEV_IN_PWR_SVE"
       THEN dpc' = "disable" /\ UNCHANGED traffic_timer
       ELSE traffic_timer' = TRUE /\ UNCHANGED dpc
    /\ UNCHANGED <<request, settings, ps_params_ioctl, delays, tpc, ipc,
                   thread, vap, device>>

DataUpdate ==
    /\ dpc = "disable"
    /\ dpc' = "idle"
    /\ pwr_sve_event_handler(PS_DISABLE, "TX_RX_PATH", FALSE, "data")
    /\ UNCHANGED <<ps_params_ioctl, delays, tpc, ipc, thread, vap, device>>

\* traffic_timer_callback, up to its first call of the handler.
TimerFires ==
    /\ traffic_timer /\ tpc = "idle" /\ MayCall
    /\ traffic_timer' = FALSE
    /\ LET connected == ~conn_in_prog /\ RUN
           deepSleep == /\ ~conn_in_prog /\ ~RUN /\ ~scanning
                        /\ delay_pwr_sve_decision_flag
       IN /\ delay_pwr_sve_decision_flag' =
                 (delay_pwr_sve_decision_flag /\ ~connected /\ ~deepSleep)
          /\ tpc' = IF connected
                    THEN IF delay_sta_support_decision_flag
                         THEN "features" ELSE "traffic"
                    ELSE IF deepSleep THEN "enable" ELSE "idle"
    /\ UNCHANGED <<request, settings, ps_params_ioctl,
                   delay_sta_support_decision_flag, ipc, dpc, thread, vap,
                   device>>

\* onebox_send_sta_supported_features ends in an enable of its own; no
\* background scan is configured.
TimerFeatures ==
    /\ tpc = "features"
    /\ tpc' = "reset"
    /\ pwr_sve_event_handler(PS_ENABLE, "TIMER_PATH", FALSE, "timer")
    /\ UNCHANGED <<ps_params_ioctl, delays, ipc, dpc, thread, vap, device>>

\* Compare the load, here any load, with the thresholds.
TimerTraffic ==
    /\ tpc \in {"reset", "traffic"} /\ ic_lock # "timer"
    /\ delay_sta_support_decision_flag' =
           (delay_sta_support_decision_flag /\ tpc = "traffic")
    /\ \/ /\ ps_params.ps_en /\ TRAFFIC_PS_EN
          /\ \/ PS_STATE = "DEV_IN_PWR_SVE" /\ tpc' = "disable"
             \/ PS_STATE = "PS_NONE" /\ tpc' = "enable"
          /\ UNCHANGED traffic_timer
       \/ /\ tpc' = "idle"
          /\ traffic_timer' = \/ traffic_timer
                              \/ /\ ps_params.ps_en /\ TRAFFIC_PS_EN
                                 /\ PS_STATE # "DEV_IN_PWR_SVE"
    /\ UNCHANGED <<request, settings, ps_params_ioctl,
                   delay_pwr_sve_decision_flag, ipc, dpc, thread, vap, device>>

TimerUpdate ==
    /\ tpc \in {"enable", "disable"}
    /\ tpc' = "idle"
    /\ pwr_sve_event_handler(tpc = "enable", "TIMER_PATH", FALSE, "timer")
    /\ UNCHANGED <<ps_params_ioctl, delays, ipc, dpc, thread, vap, device>>

-----------------------------------------------------------------------------
\* The WLAN thread: core_qos_processor

InDeepSleep == PS_STATE = "DEV_IN_PWR_SVE" /\ ~RUN

threadOnly == <<PS_STATE, queue, ic_lock, next_state, settings,
                ps_params_ioctl, callers, vap, device>>

\* Woken, or round the loop: break while the device goes to sleep.
ThreadWakes ==
    /\ wpc = "idle" /\ scheduler_event
    /\ scheduler_event' = FALSE
    /\ wpc' = "top"
    /\ UNCHANGED <<threadOnly, delays, traffic_timer, hand>>

ThreadTop ==
    /\ wpc = "top"
    /\ wpc' = IF \/ PS_STATE = "PS_EN_REQ_SENT" /\ ~RUN
                 \/ queue = <<>>
              THEN "idle" ELSE "check"
    /\ UNCHANGED <<threadOnly, scheduler_event, delays, traffic_timer, hand>>

\* A frame is pending in deep sleep: MGMT_PENDING_PATH stops the timer.
ThreadCheck ==
    /\ wpc = "check"
    /\ \/ /\ InDeepSleep
          /\ wpc' = "deepSleep"
          /\ delay_pwr_sve_decision_flag' = FALSE
          /\ traffic_timer' = FALSE
       \/ /\ ~InDeepSleep
          /\ wpc' = "dequeue"
          /\ UNCHANGED <<delay_pwr_sve_decision_flag, traffic_timer>>
    /\ UNCHANGED <<threadOnly, scheduler_event, delay_sta_support_decision_flag,
                   hand>>

\* A timer that was to enable power save later is stopped for a frame.
StopInitialTimer ==
    LET stop == delay_pwr_sve_decision_flag /\ ~RUN
    IN /\ delay_pwr_sve_decision_flag' = (delay_pwr_sve_decision_flag /\ ~stop)
       /\ traffic_timer' = (traffic_timer /\ ~stop)
       /\ UNCHANGED delay_sta_support_decision_flag

\* check_deep_sleep_status looks again.
ThreadDeepSleep ==
    /\ wpc = "deepSleep"
    /\ StopInitialTimer
    /\ wpc' = IF InDeepSleep /\ ~delay_pwr_sve_decision_flag
              THEN "pending" ELSE "dequeue"
    /\ UNCHANGED <<threadOnly, scheduler_event, hand>>

ThreadPending ==
    /\ wpc = "pending"
    /\ wpc' = "dequeue"
    /\ pwr_sve_event_handler(PS_DISABLE, "MGMT_PENDING_PATH", TRUE, "wlan")
    /\ UNCHANGED <<ps_params_ioctl, delays, callers, hand, vap, device>>

\* Mutant of MarkFirst: the USB order is the SDIO order.
MarkLast == FALSE

\* With USB PS_STATE is changed before the request is written, with SDIO
\* after.
MarkFirst == Interface = "USB"

\* A management frame leaves at once, a request goes through ThreadMark and
\* ThreadSend.
ThreadDequeue ==
    /\ wpc = "dequeue" /\ ic_lock # "wlan"
    /\ queue # <<>>
    /\ queue' = Tail(queue)
    /\ \/ Head(queue) = "mgmt" /\ wpc' = "top" /\ UNCHANGED hand
       \/ /\ Head(queue) # "mgmt" /\ hand' = Head(queue)
          /\ wpc' = IF MarkFirst THEN "mark" ELSE "send"
    /\ UNCHANGED <<PS_STATE, scheduler_event, ic_lock, next_state, settings,
                   ps_params_ioctl, delays, traffic_timer, callers, vap, device>>

ThreadMark ==
    /\ wpc = "mark"
    /\ PS_STATE' = IF PS_STATE = "PS_EN_REQ_QUEUED" /\ hand # "wakeDeep"
                   THEN "PS_EN_REQ_SENT" ELSE PS_STATE
    /\ wpc' = IF MarkFirst THEN "send" ELSE "top"
    /\ hand' = IF MarkFirst THEN hand ELSE NoFrame
    /\ UNCHANGED <<queue, scheduler_event, ic_lock, next_state, settings,
                   ps_params_ioctl, delays, traffic_timer, callers, vap, device>>

ThreadSend ==
    /\ wpc = "send"
    /\ bus' = Append(bus, hand)
    /\ wpc' = IF MarkFirst THEN "top" ELSE "mark"
    /\ hand' = IF MarkFirst THEN NoFrame ELSE hand
    /\ UNCHANGED <<request, settings, ps_params_ioctl, delays, traffic_timer,
                   callers, vap, asleep, cnf>>

-----------------------------------------------------------------------------
\* The firmware (external) and net80211

\* The firmware obeys each request and confirms it with its kind.
Firmware ==
    /\ bus # <<>>
    /\ bus' = Tail(bus)
    /\ asleep' = (Head(bus) = "sleep")
    /\ cnf' = Append(cnf, IF Head(bus) = "sleep" THEN "sleep" ELSE "wake")
    /\ UNCHANGED <<request, settings, ps_params_ioctl, delays, traffic_timer,
                   callers, thread, vap>>

\* A frame for the firmware that is no request.  At the bound it is one with
\* those that wait.
SendFrame ==
    LET waiting == Cardinality({i \in DOMAIN queue : queue[i] = "mgmt"})
    IN \/ /\ queue' = IF waiting < MgmtBound THEN Append(queue, "mgmt") ELSE queue
          /\ scheduler_event' = TRUE
       \/ AllocMayFail /\ UNCHANGED <<queue, scheduler_event>>

\* Any internal management frame of the other parts.
onebox_send_internal_mgmt_frame ==
    /\ SendFrame
    /\ UNCHANGED <<PS_STATE, ic_lock, next_state, settings, ps_params_ioctl,
                   delays, traffic_timer, callers, thread, vap, device>>

vapOnly == <<PS_STATE, ic_lock, next_state, settings, ps_params_ioctl, callers,
             thread, device>>
NoFrameSent == UNCHANGED <<queue, scheduler_event>>

\* CONNECTED_PATH, DISCONNECTED_PATH, SCAN_END_PATH: decide later.
DecideLater ==
    /\ delay_pwr_sve_decision_flag' = TRUE
    /\ traffic_timer' = TRUE

\* The rx filter frame goes with it.
onebox_scan_start ==
    /\ ic_lock = "free"
    /\ ~scanning /\ ~conn_in_prog /\ iv_state # "AUTH"
    /\ scanning' = TRUE
    /\ iv_state' = IF iv_state = "INIT" THEN "SCAN" ELSE iv_state
    /\ SendFrame
    /\ UNCHANGED <<vapOnly, delays, traffic_timer, conn_in_prog, sc_nvaps>>

\* The rx filter frame; a scan that is cancelled is not notified.
onebox_scan_end ==
    /\ ic_lock = "free"
    /\ scanning
    /\ scanning' = FALSE
    /\ \/ DecideLater /\ SendFrame
       \/ NoFrameSent /\ UNCHANGED <<delay_pwr_sve_decision_flag, traffic_timer>>
    /\ UNCHANGED <<vapOnly, delay_sta_support_decision_flag, iv_state,
                   conn_in_prog, sc_nvaps>>

\* Join or roam: the initial timer is stopped.
stop_initial_timer ==
    /\ ic_lock = "free"
    /\ ~scanning /\ iv_state \in {"SCAN", "RUN"}
    /\ iv_state' = "AUTH"
    /\ conn_in_prog' = TRUE
    /\ StopInitialTimer
    /\ NoFrameSent
    /\ UNCHANGED <<vapOnly, scanning, sc_nvaps>>

\* The peer notification and the rates.
Associated ==
    /\ ic_lock = "free"
    /\ iv_state = "AUTH"
    /\ iv_state' = "RUN"
    /\ SendFrame
    /\ UNCHANGED <<vapOnly, delays, traffic_timer, scanning, conn_in_prog,
                   sc_nvaps>>

\* EAPOL4_CONFIRM and new keys; the one that completes the handshake decides
\* on power save, and either may unblock the data queues.
Connected ==
    /\ ic_lock = "free"
    /\ RUN
    /\ conn_in_prog' = FALSE
    /\ \/ delay_sta_support_decision_flag' = TRUE /\ DecideLater
       \/ UNCHANGED <<delays, traffic_timer>>
    /\ SendFrame \/ NoFrameSent
    /\ UNCHANGED <<vapOnly, iv_state, scanning, sc_nvaps>>

\* STA_DISCONNECTED, while the vap still has its old state or has its new one,
\* and the peer notification.
Disconnected ==
    /\ ic_lock = "free"
    /\ iv_state \in {"AUTH", "RUN"}
    /\ iv_state' \in {"INIT", "SCAN"}
    /\ scanning' = FALSE
    /\ conn_in_prog' = FALSE
    /\ delay_sta_support_decision_flag' \in {FALSE, RUN}
    /\ DecideLater
    /\ SendFrame
    /\ UNCHANGED <<vapOnly, sc_nvaps>>

\* A second vap: VAP_CREATE_PATH is no case of update_pwr_save_status.
onebox_vap_create ==
    /\ sc_nvaps < 2
    /\ sc_nvaps' = sc_nvaps + 1
    /\ SendFrame
    /\ UNCHANGED <<vapOnly, delays, traffic_timer, iv_state, scanning,
                   conn_in_prog>>

\* Neither is VAP_DELETE_PATH.
onebox_vap_delete ==
    /\ sc_nvaps > 1
    /\ sc_nvaps' = sc_nvaps - 1
    /\ SendFrame
    /\ UNCHANGED <<vapOnly, delays, traffic_timer, iv_state, scanning,
                   conn_in_prog>>

-----------------------------------------------------------------------------
Init ==
    /\ PS_STATE = "PS_NONE" /\ next_state = "PS_NONE"
    /\ queue = <<>> /\ scheduler_event = FALSE /\ ic_lock = "free"
    /\ ps_params = NoParams /\ ps_params_ioctl = NoParams
    /\ update_ta = FALSE /\ disable_ps_for_change_in_params = FALSE
    /\ delay_pwr_sve_decision_flag = FALSE
    /\ delay_sta_support_decision_flag = FALSE
    /\ traffic_timer = FALSE
    /\ tpc = "idle" /\ ipc = "idle" /\ dpc = "idle"
    /\ wpc = "idle" /\ hand = NoFrame
    /\ iv_state = "INIT" /\ scanning = FALSE
    /\ conn_in_prog = FALSE /\ sc_nvaps = 1
    /\ bus = <<>> /\ asleep = FALSE /\ cnf = <<>>

Timer  == TimerFires \/ TimerFeatures \/ TimerTraffic \/ TimerUpdate
Thread == \/ ThreadWakes \/ ThreadTop \/ ThreadCheck \/ ThreadDeepSleep
          \/ ThreadPending \/ ThreadDequeue \/ ThreadMark \/ ThreadSend
Vap    == \/ onebox_scan_start \/ onebox_scan_end \/ stop_initial_timer
          \/ Associated \/ Connected \/ Disconnected
          \/ onebox_vap_create \/ onebox_vap_delete

Next == \/ AssignState \/ RxConfirm \/ IoctlSet \/ IoctlUpdate
        \/ DataBurst \/ DataUpdate \/ Timer \/ Thread \/ Firmware
        \/ onebox_send_internal_mgmt_frame \/ Vap

Spec == Init /\ [][Next]_vars

\* The threads and the firmware run; the lock is a ticket spinlock.  Nothing
\* is assumed of the user, the timer, the traffic and net80211.
Fairness ==
    /\ WF_vars(AssignState) /\ WF_vars(Firmware)
    /\ SF_vars(RxConfirm) /\ SF_vars(Thread)

FairSpec == Spec /\ Fairness

-----------------------------------------------------------------------------
TypeOK ==
    /\ PS_STATE \in PsState /\ next_state \in PsState
    /\ queue \in Seq(Frames) /\ scheduler_event \in BOOLEAN
    /\ ic_lock \in Lockers \cup {"free"}
    /\ ps_params \in Params /\ ps_params_ioctl \in Params
    /\ update_ta \in BOOLEAN /\ disable_ps_for_change_in_params \in BOOLEAN
    /\ delay_pwr_sve_decision_flag \in BOOLEAN
    /\ delay_sta_support_decision_flag \in BOOLEAN
    /\ traffic_timer \in BOOLEAN
    /\ tpc \in {"idle", "features", "reset", "traffic", "enable", "disable"}
    /\ ipc \in {"idle", "update"} /\ dpc \in {"idle", "disable"}
    /\ wpc \in {"idle", "top", "check", "deepSleep", "pending", "dequeue",
                "mark", "send"}
    /\ hand \in Requests \cup {NoFrame}
    /\ iv_state \in VapState /\ scanning \in BOOLEAN
    /\ conn_in_prog \in BOOLEAN /\ sc_nvaps \in 1 .. 2
    /\ bus \in Seq(Requests) /\ asleep \in BOOLEAN
    /\ cnf \in Seq({"sleep", "wake"})

\* Where a request may be: in the queue, with the WLAN thread before it is
\* written, on the bus, or answered.
RequestsIn(q) == {i \in DOMAIN q : q[i] \in Requests}
Queued == RequestsIn(queue)
HandedOver == hand # NoFrame /\ (MarkFirst \/ wpc = "send")
Nowhere == Queued = {} /\ ~HandedOver /\ bus = <<>> /\ cnf = <<>>

\* At most one power save request is under way, from the queue to the receipt
\* of its confirm, whichever callers ask and however their decisions age:
\* pwr_sve_event_handler asks for nothing while it waits for a confirm.
OneRequest ==
    /\ \A i, j \in Queued : i = j
    /\ Queued # {} => ~HandedOver /\ bus = <<>> /\ cnf = <<>>
    /\ HandedOver => bus = <<>> /\ cnf = <<>>
    /\ bus # <<>> => Len(bus) = 1 /\ cnf = <<>>
    /\ Len(cnf) <= 1

\* What the driver believes of the device is so: outside the handler,
\* PS_NONE means that it is awake and not asked to sleep, DEV_IN_PWR_SVE that
\* it sleeps and is not asked to wake.
BeliefMatches ==
    ic_lock = "free" =>
        /\ PS_STATE = "PS_NONE" => ~asleep /\ Nowhere
        /\ PS_STATE = "DEV_IN_PWR_SVE" => asleep /\ Nowhere

\* A wakeup request that was queued is answered and the answer is taken,
\* whatever the delay flag and the state of the vap say meanwhile (the comment
\* at onebox_ps.c:555 tells of confirms that were not served).
WakeUnderWay ==
    \/ \E i \in Queued : queue[i] # "sleep"
    \/ HandedOver /\ hand # "sleep"
    \/ bus # <<>> /\ Head(bus) # "sleep"
    \/ cnf # <<>> /\ Head(cnf) # "sleep"

WakeAnswered ==
    PS_STATE = "PS_DIS_REQ_SENT" /\ WakeUnderWay
        ~> PS_STATE # "PS_DIS_REQ_SENT"

\* PS_EN_REQ_SENT, in which the WLAN thread holds management frames back, is
\* left: the confirm of the sleep request cannot overtake it
\* (core_qos_processor writes the request after it changes the state).
SleepAnswered == []<>(PS_STATE # "PS_EN_REQ_SENT")

\* Management frames leave the queue, those that core_qos_processor held back
\* in PS_EN_REQ_SENT included: the confirm schedules the thread.
MgmtDrains == []<>("mgmt" \notin {queue[i] : i \in DOMAIN queue})

\* The WLAN thread holds a frame while it marks and writes it.
ThreadHolds == wpc \in {"mark", "send"} <=> hand # NoFrame

\* A handler between its request and its assignment found a settled state and
\* leaves a waiting one.
LockHolds ==
    ic_lock # "free" =>
        /\ PS_STATE \in {"PS_NONE", "DEV_IN_PWR_SVE"}
        /\ next_state \in {"PS_EN_REQ_QUEUED", "PS_DIS_REQ_SENT"}

\* A confirm on its way tells what the device does.
ConfirmTells == cnf # <<>> => (asleep <=> Head(cnf) = "sleep")

IInv ==
    /\ TypeOK
    /\ OneRequest
    /\ BeliefMatches
    /\ ThreadHolds
    /\ LockHolds
    /\ ConfirmTells

\* "Send_disable" (onebox_ps.c:670): while the driver waits for the device to
\* wake, the request under way is not one to sleep.
DisableMeansWake ==
    ic_lock = "free" /\ PS_STATE = "PS_DIS_REQ_SENT" =>
        /\ \A i \in Queued : queue[i] # "sleep"
        /\ bus # <<>> => Head(bus) # "sleep"

-----------------------------------------------------------------------------
\* Host and device together keep the promise of PowerSaveAgreement.
Belief == CASE ic_lock = "free" /\ PS_STATE = "PS_NONE" -> "awake"
            [] ic_lock = "free" /\ PS_STATE = "DEV_IN_PWR_SVE" -> "asleep"
            [] OTHER -> "unsure"
Asked == IF Nowhere THEN "none" ELSE IF WakeUnderWay THEN "wake" ELSE "sleep"

Agreement == INSTANCE PowerSaveAgreement
                 WITH belief <- Belief, asked <- Asked, obeyed <- (cnf # <<>>)

\* The callers, the WLAN thread and the firmware implement the agreement: a
\* request is made by a host that knows the device's state, reaches the device
\* as it was made and is obeyed once, and the host settles on a state only by
\* the confirm of its one request.
KeepsAgreement == Agreement!Spec
=============================================================================
