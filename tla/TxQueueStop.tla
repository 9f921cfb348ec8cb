----------------------------- MODULE TxQueueStop -----------------------------
(***************************************************************************)
(* Stopping and starting the network interfaces of access points:          *)
(* ieee80211_hardstart and core_xmit, which stop an interface when the     *)
(* queue of a frame's access category is full, the WLAN thread, which      *)
(* starts it again when it takes a frame of that interface from a queue    *)
(* that has room, and scans, which stop and start all interfaces.          *)
(*                                                                         *)
(* All access point vaps share the four queues BK_Q_AP .. VO_Q_AP; the     *)
(* flags stop_per_q and the network interface are a vap's own.  None of    *)
(* these is written or tested under a lock that the others take, so each   *)
(* test and each write is a step.                                          *)
(*                                                                         *)
(* Frames for a vap come from the network stack, one at a time and only    *)
(* while the interface is started, and from the worker of the receive      *)
(* path, which hands over bridged frames and those of stations that woke,  *)
(* without looking at the interface or at stop_per_q.                      *)
(***************************************************************************)
EXTENDS Naturals, Sequences, FiniteSets

CONSTANTS
    Vaps,           \* the access point vaps
    Stacks,         \* bound: those the network stack hands over frames for
    Queues,         \* the access point's data queues in use
    BK_Q_AP,        \* the one that block_ap_queues does not block
    host_txq_maxlen,
    Margin          \* 500 in the code: room needed to start an interface

ASSUME ConstantsAssumption ==
    /\ Vaps # {} /\ IsFiniteSet(Vaps) /\ "worker" \notin Vaps
    /\ Stacks \subseteq Vaps
    /\ Queues # {}
    /\ host_txq_maxlen \in Nat /\ Margin \in Nat
    /\ 0 < Margin /\ Margin < host_txq_maxlen

VARIABLES
    host_tx_queue,    \* per queue: the vaps of the frames in it
    stop_per_q,       \* per vap and queue
    ifp_stopped,      \* per vap: its network interface is stopped
    block_ap_queues,
    pc, frame,        \* per context: its place, the frame it hands over
    tpc, sent,        \* the WLAN thread: its place, the frame it has taken
    spc               \* place in onebox_scan_start

flags == <<stop_per_q, ifp_stopped>>
block == <<block_ap_queues, spc>>
vars  == <<host_tx_queue, flags, block, pc, frame, tpc, sent>>

Contexts == Stacks \cup {"worker"}
Frames   == [vap : Vaps, qnum : Queues]
Blank    == CHOOSE f \in Frames : TRUE   \* of a context that has none
Goto(c, from, to) == pc[c] = from /\ pc' = [pc EXCEPT ![c] = to]

-----------------------------------------------------------------------------
\* The network stack and the worker hand over a frame

\* ieee80211_check_queue_status: any full queue of the vap.
check_queue_status(v) == \E q \in Queues : stop_per_q[v][q]

\* ieee80211_hardstart is called for a started interface and drops the frame
\* (no step) if a queue of the vap is full.
Hardstart(v) ==
    /\ Goto(v, "idle", "measure")
    /\ ~ifp_stopped[v] /\ ~check_queue_status(v)
    /\ \E q \in Queues : frame' = [frame EXCEPT ![v] = [vap |-> v, qnum |-> q]]
    /\ UNCHANGED <<host_tx_queue, flags, block, tpc, sent>>

\* if_transmit_pkt and pwrsave_flushq call ieee80211_start themselves.
WorkerStarts ==
    /\ Goto("worker", "idle", "measure")
    /\ \E f \in Frames : frame' = [frame EXCEPT !["worker"] = f]
    /\ UNCHANGED <<host_tx_queue, flags, block, tpc, sent>>

\* core_xmit: "Dropping Pkts as MAX QUEUE water mark level is reached"
Full(q) == Len(host_tx_queue[q]) + 1 >= host_txq_maxlen

Measure(c) ==
    /\ Goto(c, "measure", IF Full(frame[c].qnum) THEN "flag" ELSE "check")
    /\ UNCHANGED <<host_tx_queue, flags, block, frame, tpc, sent>>

Flag(c) ==
    /\ Goto(c, "flag", "check")
    /\ stop_per_q' = [stop_per_q EXCEPT ![frame[c].vap][frame[c].qnum] = TRUE]
    /\ UNCHANGED <<host_tx_queue, ifp_stopped, block, frame, tpc, sent>>

Check(c) ==
    /\ Goto(c, "check", IF stop_per_q[frame[c].vap][frame[c].qnum]
                        THEN "stop" ELSE "queue")
    /\ UNCHANGED <<host_tx_queue, flags, block, frame, tpc, sent>>

\* Mutant of Stop: the frame is queued all the same.
StopButQueue(c) ==
    /\ Goto(c, "stop", "queue")
    /\ ifp_stopped' = [ifp_stopped EXCEPT ![frame[c].vap] = TRUE]
    /\ UNCHANGED <<host_tx_queue, stop_per_q, block, frame, tpc, sent>>

\* The interface is stopped if it is not, and the frame dropped.
Stop(c) ==
    /\ Goto(c, "stop", "idle")
    /\ ifp_stopped' = [ifp_stopped EXCEPT ![frame[c].vap] = TRUE]
    /\ frame' = [frame EXCEPT ![c] = Blank]
    /\ UNCHANGED <<host_tx_queue, stop_per_q, block, tpc, sent>>

\* core_queue_pkt
Queue(c) ==
    /\ Goto(c, "queue", "idle")
    /\ host_tx_queue' = [host_tx_queue EXCEPT
                           ![frame[c].qnum] = Append(@, frame[c].vap)]
    /\ frame' = [frame EXCEPT ![c] = Blank]
    /\ UNCHANGED <<flags, block, tpc, sent>>

Xmit(c) == Measure(c) \/ Flag(c) \/ Check(c) \/ Stop(c) \/ Queue(c)

-----------------------------------------------------------------------------
\* The WLAN thread, core_qos_processor

\* A frame is taken from a queue that is not blocked.
Dequeue(q) ==
    /\ tpc = "idle" /\ host_tx_queue[q] # <<>>
    /\ block_ap_queues => q = BK_Q_AP
    /\ sent' = [vap |-> Head(host_tx_queue[q]), qnum |-> q]
    /\ host_tx_queue' = [host_tx_queue EXCEPT ![q] = Tail(@)]
    /\ tpc' = "room"
    /\ UNCHANGED <<flags, block, pc, frame>>

\* Mutant of Room: any room is enough.
RoomAny ==
    /\ tpc = "room"
    /\ IF Len(host_tx_queue[sent.qnum]) < host_txq_maxlen
       THEN tpc' = "start" /\ UNCHANGED sent
       ELSE tpc' = "idle" /\ sent' = Blank
    /\ UNCHANGED <<host_tx_queue, flags, block, pc, frame>>

\* Is there room in the queue?  If not, the frame is just sent.
Room ==
    /\ tpc = "room"
    /\ IF Len(host_tx_queue[sent.qnum]) < host_txq_maxlen - Margin
       THEN tpc' = "start" /\ UNCHANGED sent
       ELSE tpc' = "idle" /\ sent' = Blank
    /\ UNCHANGED <<host_tx_queue, flags, block, pc, frame>>

\* Mutant of Start: only an interface that was stopped has flags to clear.
StartIfStopped ==
    /\ tpc = "start"
    /\ tpc' = IF ifp_stopped[sent.vap] THEN "clear" ELSE "idle"
    /\ ifp_stopped' = [ifp_stopped EXCEPT ![sent.vap] = FALSE]
    /\ UNCHANGED <<host_tx_queue, stop_per_q, block, pc, frame, sent>>

\* Mutant of Start: an interface is started only for the queue that is flagged.
StartIfFlagged ==
    /\ tpc = "start" /\ tpc' = "clear"
    /\ ifp_stopped' =
         [ifp_stopped EXCEPT ![sent.vap] = @ /\ ~stop_per_q[sent.vap][sent.qnum]]
    /\ UNCHANGED <<host_tx_queue, stop_per_q, block, pc, frame, sent>>

\* The interface is started if it is stopped, whatever it was stopped for ...
Start ==
    /\ tpc = "start" /\ tpc' = "clear"
    /\ ifp_stopped' = [ifp_stopped EXCEPT ![sent.vap] = FALSE]
    /\ UNCHANGED <<host_tx_queue, stop_per_q, block, pc, frame, sent>>

\* ... then the flag of this queue is cleared, and the frame sent.
Clear ==
    /\ tpc = "clear" /\ tpc' = "idle" /\ sent' = Blank
    /\ stop_per_q' = [stop_per_q EXCEPT ![sent.vap][sent.qnum] = FALSE]
    /\ UNCHANGED <<host_tx_queue, ifp_stopped, block, pc, frame>>

Thread == Room \/ Start \/ Clear

-----------------------------------------------------------------------------
\* Scans and connections of the station that shares the radio

\* onebox_scan_start stops each interface and blocks the queues.
ScanStops(v) ==
    /\ spc = "idle" /\ spc' = "block"
    /\ ifp_stopped' = [ifp_stopped EXCEPT ![v] = TRUE]
    /\ UNCHANGED <<host_tx_queue, stop_per_q, block_ap_queues, pc, frame, tpc, sent>>

ScanBlocks ==
    /\ spc = "block" /\ spc' = "idle"
    /\ block_ap_queues' = TRUE
    /\ UNCHANGED <<host_tx_queue, flags, pc, frame, tpc, sent>>

\* A connection, or the traffic timer, unblocks them ...
Unblock ==
    /\ block_ap_queues /\ block_ap_queues' = FALSE
    /\ UNCHANGED <<host_tx_queue, flags, spc, pc, frame, tpc, sent>>

\* ... and whenever onebox_send_block_unblock runs without block_ap_queues, for
\* the station too, it starts all interfaces, full queues or not.
UnblockStarts ==
    /\ ~block_ap_queues
    /\ ifp_stopped' = [v \in Vaps |-> FALSE]
    /\ UNCHANGED <<host_tx_queue, stop_per_q, block, pc, frame, tpc, sent>>

-----------------------------------------------------------------------------
Init ==
    /\ host_tx_queue = [q \in Queues |-> <<>>]
    /\ stop_per_q = [v \in Vaps |-> [q \in Queues |-> FALSE]]
    /\ ifp_stopped = [v \in Vaps |-> FALSE]
    /\ block_ap_queues = FALSE /\ spc = "idle"
    /\ pc = [c \in Contexts |-> "idle"]
    /\ frame = [c \in Contexts |-> Blank]
    /\ tpc = "idle" /\ sent = Blank

Next ==
    \/ \E v \in Stacks : Hardstart(v)
    \/ \E v \in Vaps : ScanStops(v)
    \/ WorkerStarts \/ ScanBlocks \/ Unblock \/ UnblockStarts
    \/ \E c \in Contexts : Xmit(c)
    \/ \E q \in Queues : Dequeue(q)
    \/ Thread

Spec == Init /\ [][Next]_vars

\* The thread runs, and serves every category that has frames (NoStarvation of
\* WmmScheduler).  Nobody need hand over frames, scan or unblock.
FairSpec ==
    /\ Spec
    /\ WF_vars(Thread)
    /\ \A q \in Queues : SF_vars(Dequeue(q))

-----------------------------------------------------------------------------
TypeOK ==
    /\ host_tx_queue \in [Queues -> Seq(Vaps)]
    /\ stop_per_q \in [Vaps -> [Queues -> BOOLEAN]]
    /\ ifp_stopped \in [Vaps -> BOOLEAN]
    /\ block_ap_queues \in BOOLEAN
    /\ spc \in {"idle", "block"}
    /\ pc \in [Contexts -> {"idle", "measure", "flag", "check", "stop", "queue"}]
    /\ frame \in [Contexts -> Frames]
    /\ tpc \in {"idle", "room", "start", "clear"}
    /\ sent \in Frames

\* A queue exceeds its limit at most by the frames of contexts that looked at
\* the length before it, or at the flag after the thread cleared it for room
\* that others have filled since.
QueueBounded ==
    \A q \in Queues : Len(host_tx_queue[q]) + 2
                        <= host_txq_maxlen + 2 * Cardinality(Contexts)

\* The contexts whose frame will be queued, unless the flag is set in time.
Passing(q) ==
    {c \in Contexts : /\ frame[c].qnum = q
                      /\ \/ pc[c] = "queue"
                         \/ pc[c] = "check" /\ ~stop_per_q[frame[c].vap][q]}

\* What keeps QueueBounded: with the passing ones a queue stays within its
\* limit and the contexts, twice; once while the thread, which saw room, is
\* about to clear the flag and let everybody pass who was to be stopped.
RoomInv ==
    \A q \in Queues :
        /\ Len(host_tx_queue[q]) + Cardinality(Passing(q)) + 2
               <= host_txq_maxlen + 2 * Cardinality(Contexts)
        /\ tpc \in {"start", "clear"} /\ sent.qnum = q =>
              Len(host_tx_queue[q]) + Cardinality(Passing(q)) + 2
                 <= host_txq_maxlen + Cardinality(Contexts)

IInv == TypeOK /\ RoomInv

Waiting(v, q) == \E i \in DOMAIN host_tx_queue[q] : host_tx_queue[q][i] = v

\* v has no frame left in a queue that the frames of others keep above the mark:
\* what the code calls the "multiple vaps case".
LeftBehind(v, q) == /\ ~Waiting(v, q)
                    /\ Len(host_tx_queue[q]) >= host_txq_maxlen - Margin

\* The flag that makes an interface drop every frame does not stay for ever
\* while frames of its queue leave, whoever starts the interface meanwhile.
\* It may only when the last of them leaves above the mark, for the sake of
\* other access points' frames.
FlagClears ==
    \A v \in Vaps, q \in Queues :
        stop_per_q[v][q] /\ Waiting(v, q)
            ~> ~stop_per_q[v][q] \/ block_ap_queues \/ LeftBehind(v, q)

\* An interface with frames to leave is started again, also when a context
\* stops it after the thread's look and before the flag is cleared; unless the
\* worker keeps the queue at its length, or other access points do.
InterfaceStarts ==
    \A v \in Vaps, q \in Queues :
        ifp_stopped[v] /\ Waiting(v, q)
            ~> \/ ~ifp_stopped[v] \/ block_ap_queues
               \/ pc["worker"] # "idle" \/ LeftBehind(v, q)
=============================================================================
