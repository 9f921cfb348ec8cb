------------------------ MODULE WlanPowerSave_proofs ------------------------
(***************************************************************************)
(* Proofs about WlanPowerSave, for either bus interface, every set of      *)
(* parameters, every number of callers and of frames, and with or without  *)
(* failed allocations.  IInv is inductive: while PS_STATE is PS_NONE or    *)
(* DEV_IN_PWR_SVE and nobody holds the lock no request is anywhere         *)
(* (BeliefMatches), so the handler may send one; while it waits only the   *)
(* one confirm lets it send the next (OneRequest); a handler that has sent *)
(* its request and not yet assigned PS_STATE holds the lock (LockHolds),   *)
(* so that nobody takes the old state for a settled one.                   *)
(***************************************************************************)
EXTENDS WlanPowerSave, SequenceTheorems, TLAPS

USE ConstantsAssumption
USE DEF PsState, VapState, Lockers, Requests, Frames, NoFrame, Confirms,
        PS_ENABLE, PS_DISABLE, Parameters, NoParams, request, settings,
        delays, callers, thread, vap, device

-----------------------------------------------------------------------------
\* Where the requests of a queue are.

\* Another frame at the tail moves none.
LEMMA MgmtAppended ==
  ASSUME NEW q \in Seq(Frames)
  PROVE  /\ RequestsIn(Append(q, "mgmt")) = RequestsIn(q)
         /\ \A i \in RequestsIn(q) : Append(q, "mgmt")[i] = q[i]
<1>1. Append(q, "mgmt") \in Seq(Frames) /\ Len(Append(q, "mgmt")) = Len(q) + 1
      /\ \A i \in 1 .. Len(q) : Append(q, "mgmt")[i] = q[i]
      /\ Append(q, "mgmt")[Len(q) + 1] = "mgmt"
  BY AppendProperties
<1>2. DOMAIN q = 1 .. Len(q) /\ DOMAIN Append(q, "mgmt") = 1 .. Len(q) + 1
  BY <1>1
<1>3. Len(q) \in Nat
  OBVIOUS
<1>4. QED
  BY <1>1, <1>2, <1>3 DEF RequestsIn

\* One request in a queue without any, at the tail or at the head.
LEMMA RequestQueued ==
  ASSUME NEW q \in Seq(Frames), NEW f \in Requests, RequestsIn(q) = {},
         NEW r \in {<<f>> \o q, Append(q, f)}
  PROVE  r \in Seq(Frames) /\ \A i, j \in RequestsIn(r) : i = j
<1>0. Len(q) \in Nat /\ DOMAIN q = 1 .. Len(q)
  OBVIOUS
<1>1. \A i \in 1 .. Len(q) : q[i] \notin Requests
  BY <1>0 DEF RequestsIn
<1>2. CASE r = Append(q, f)
  <2>1. r \in Seq(Frames) /\ Len(r) = Len(q) + 1
        /\ \A i \in 1 .. Len(q) : r[i] = q[i]
    BY <1>2, AppendProperties
  <2>2. DOMAIN r = 1 .. Len(q) + 1
    BY <2>1
  <2>3. QED
    BY <1>0, <1>1, <2>1, <2>2 DEF RequestsIn
<1>3. CASE r = <<f>> \o q
  <2>0. <<f>> \in Seq(Frames) /\ Len(<<f>>) = 1
    OBVIOUS
  <2>1. r \in Seq(Frames) /\ Len(r) = 1 + Len(q)
        /\ \A i \in 1 .. 1 + Len(q) :
               r[i] = IF i <= 1 THEN <<f>>[i] ELSE q[i - 1]
    BY <1>3, <2>0, ConcatProperties
  <2>2. DOMAIN r = 1 .. 1 + Len(q)
    BY <2>1
  <2>3. \A i \in 2 .. 1 + Len(q) : r[i] = q[i - 1] /\ i - 1 \in 1 .. Len(q)
    BY <1>0, <2>1
  <2>4. \A i \in RequestsIn(r) : i = 1
    BY <1>0, <1>1, <2>2, <2>3 DEF RequestsIn
  <2>5. QED
    BY <2>1, <2>4
<1>4. QED
  BY <1>2, <1>3

\* The head leaves a queue with at most one request.
LEMMA HeadTaken ==
  ASSUME NEW q \in Seq(Frames), q # <<>>, \A i, j \in RequestsIn(q) : i = j
  PROVE  /\ Tail(q) \in Seq(Frames) /\ Head(q) \in Frames
         /\ \A i, j \in RequestsIn(Tail(q)) : i = j
         /\ RequestsIn(Tail(q)) # {} => RequestsIn(q) # {}
         /\ Head(q) \in Requests =>
                /\ 1 \in RequestsIn(q) /\ Head(q) = q[1]
                /\ RequestsIn(Tail(q)) = {}
         /\ \A i \in RequestsIn(Tail(q)) :
                i + 1 \in RequestsIn(q) /\ Tail(q)[i] = q[i + 1]
         /\ \A i \in RequestsIn(q) : Head(q) = "mgmt" =>
                i - 1 \in RequestsIn(Tail(q)) /\ Tail(q)[i - 1] = q[i]
<1>1. /\ Head(q) \in Frames /\ Tail(q) \in Seq(Frames)
      /\ Len(Tail(q)) = Len(q) - 1
      /\ \A i \in 1 .. Len(Tail(q)) : Tail(q)[i] = q[i + 1]
  BY HeadTailProperties
<1>2. Len(q) \in Nat \ {0} /\ DOMAIN q = 1 .. Len(q) /\ Head(q) = q[1]
      /\ DOMAIN Tail(q) = 1 .. Len(q) - 1
  BY <1>1
<1>3. \A i \in RequestsIn(Tail(q)) : i \in Nat \ {0} /\ i + 1 \in RequestsIn(q)
  BY <1>1, <1>2 DEF RequestsIn
<1>4. Head(q) \in Requests => 1 \in RequestsIn(q)
  BY <1>2 DEF RequestsIn
<1>5. \A i, j \in RequestsIn(Tail(q)) : i = j
  <2>1. TAKE i \in RequestsIn(Tail(q)), j \in RequestsIn(Tail(q))
  <2>2. i + 1 = j + 1 /\ i \in Nat /\ j \in Nat
    BY <1>3
  <2>3. QED
    BY <2>2
<1>6. Head(q) \in Requests => RequestsIn(Tail(q)) = {}
  <2>1. SUFFICES ASSUME Head(q) \in Requests, NEW i \in RequestsIn(Tail(q))
                 PROVE  FALSE
    OBVIOUS
  <2>2. i + 1 = 1 /\ i \in Nat \ {0}
    BY <1>3, <1>4, <2>1
  <2>3. QED
    BY <2>2
<1>7. ASSUME NEW i \in RequestsIn(q), Head(q) = "mgmt"
      PROVE  i - 1 \in RequestsIn(Tail(q)) /\ Tail(q)[i - 1] = q[i]
  <2>1. i \in 1 .. Len(q) /\ q[i] \in Requests /\ i # 1
    BY <1>2, <1>7 DEF RequestsIn
  <2>2. i - 1 \in 1 .. Len(q) - 1
    BY <1>2, <2>1
  <2>3. Tail(q)[i - 1] = q[(i - 1) + 1] /\ (i - 1) + 1 = i
    BY <1>1, <2>1, <2>2
  <2>4. QED
    BY <1>2, <2>1, <2>2, <2>3 DEF RequestsIn
<1>8. ASSUME NEW i \in RequestsIn(Tail(q))
      PROVE  Tail(q)[i] = q[i + 1]
  BY <1>1, <1>2 DEF RequestsIn
<1>9. Head(q) \in Requests => 1 \in RequestsIn(q) /\ Head(q) = q[1]
  BY <1>2, <1>4
<1>10. QED
  BY <1>1, <1>3, <1>5, <1>6, <1>7, <1>8, <1>9

\* The only element leaves an empty sequence.
LEMMA OnlyTaken ==
  ASSUME NEW S, NEW q \in Seq(S), q # <<>>, Len(q) <= 1
  PROVE  Tail(q) = <<>>
<1>1. Tail(q) \in Seq(S) /\ Len(Tail(q)) = Len(q) - 1
  BY HeadTailProperties
<1>2. Len(q) \in Nat /\ Len(Tail(q)) \in Nat
  BY <1>1
<1>3. Len(Tail(q)) = 0
  BY <1>1, <1>2
<1>4. QED
  BY <1>1, <1>3, EmptySeq

-----------------------------------------------------------------------------
\* What the handler does to the request and to the settings.

\* No request is left, but for the confirm that the caller takes.
Clear == Queued = {} /\ ~HandedOver' /\ bus' = <<>> /\ cnf' = <<>>

\* What the handler leaves behind of the invariant.
RequestLeft ==
    /\ PS_STATE' \in PsState /\ next_state' \in PsState
    /\ queue' \in Seq(Frames) /\ scheduler_event' \in BOOLEAN
    /\ ic_lock' \in Lockers \cup {"free"}
    /\ \A i, j \in Queued' : i = j
    /\ Queued' # {} => ~HandedOver' /\ bus' = <<>> /\ cnf' = <<>>
    /\ BeliefMatches'
    /\ LockHolds'

SettingsLeft ==
    /\ ps_params' \in Params /\ update_ta' \in BOOLEAN
    /\ disable_ps_for_change_in_params' \in BOOLEAN

\* A request may be sent when none is left: it is the only one, and PS_STATE
\* waits for its confirm, or will when the lock is released.
LEMMA Sends ==
  ASSUME TypeOK, Clear,
         NEW from \in PsState, NEW to \in {"PS_EN_REQ_QUEUED", "PS_DIS_REQ_SENT"},
         NEW ps_en \in BOOLEAN, NEW to_head \in BOOLEAN, NEW who \in Lockers,
         ps_en => sc_nvaps < 2 /\ from \in {"PS_NONE", "DEV_IN_PWR_SVE"},
         ps_en \/ to = "PS_DIS_REQ_SENT",
         send_ps_params_req(from, to, ps_en, to_head, who)
  PROVE  RequestLeft
<1> DEFINE enable == ps_en /\ sc_nvaps < 2
           frame  == IF enable THEN "sleep" ELSE IF RUN THEN "wake" ELSE "wakeDeep"
           seen   == IF enable THEN from ELSE "PS_DIS_REQ_SENT"
<1>1. /\ \/ queue' \in {<<frame>> \o queue, Append(queue, frame)}
            /\ scheduler_event' = TRUE
         \/ UNCHANGED <<queue, scheduler_event>>
      /\ PS_STATE' = seen /\ next_state' = to
      /\ ic_lock' = IF seen = to THEN "free" ELSE who
  BY DEF send_ps_params_req
<1>2. frame \in Requests
  OBVIOUS
<1>3. queue \in Seq(Frames) /\ scheduler_event \in BOOLEAN
  BY DEF TypeOK
<1>4. RequestsIn(queue) = {}
  BY DEF Clear, Queued
<1>5. queue' \in Seq(Frames) /\ \A i, j \in RequestsIn(queue') : i = j
  <2>1. CASE UNCHANGED queue
    BY <2>1, <1>3, <1>4
  <2>2. CASE queue' \in {<<frame>> \o queue, Append(queue, frame)}
    <3> HIDE DEF frame, Requests, Frames
    <3>1. SUFFICES ASSUME NEW q, NEW r, NEW f, q = queue, r = queue', f = frame
                   PROVE  r \in Seq(Frames) /\ \A i, j \in RequestsIn(r) : i = j
      OBVIOUS
    <3>2. /\ q \in Seq(Frames) /\ f \in Requests /\ RequestsIn(q) = {}
          /\ r \in {<<f>> \o q, Append(q, f)}
      BY <3>1, <1>2, <1>3, <1>4, <2>2
    <3>3. QED
      BY ONLY <3>2, RequestQueued
  <2>3. QED
    BY <2>1, <2>2, <1>1
<1>6. \A i, j \in Queued' : i = j
  BY <1>5 DEF Queued
<1>7. seen \in PsState /\ (seen # to => seen \in {"PS_NONE", "DEV_IN_PWR_SVE"})
  OBVIOUS
<1>8. BeliefMatches' /\ LockHolds'
  BY <1>1, <1>7 DEF BeliefMatches, LockHolds
<1>9. scheduler_event' \in BOOLEAN
  BY <1>1, <1>3
<1>10. QED
  BY <1>1, <1>5, <1>6, <1>7, <1>8, <1>9 DEF RequestLeft, Clear

\* The handler sends nothing and settles: it found the device so.
LEMMA Settles ==
  ASSUME TypeOK, Clear, NEW from \in {"PS_NONE", "DEV_IN_PWR_SVE"},
         asleep' = (from = "DEV_IN_PWR_SVE"), ic_lock = "free",
         PS_STATE' = from, UNCHANGED <<queue, ic_lock, next_state>>,
         scheduler_event' \in BOOLEAN
  PROVE  RequestLeft
<1>1. Queued' = {}
  BY DEF Clear, Queued
<1>2. BeliefMatches' /\ LockHolds'
  BY <1>1 DEF BeliefMatches, LockHolds, Nowhere, Clear
<1>3. QED
  BY <1>1, <1>2 DEF RequestLeft, TypeOK

\* A decision sends one request or settles.
LEMMA Decides ==
  ASSUME TypeOK, Clear, NEW from \in {"PS_NONE", "DEV_IN_PWR_SVE"},
         asleep' = (from = "DEV_IN_PWR_SVE"), ic_lock = "free", sc_nvaps < 2,
         NEW ps_status \in BOOLEAN, NEW path, NEW to_head \in BOOLEAN,
         NEW who \in Lockers,
         Decide(from, ps_status, path, to_head, who)
  PROVE  RequestLeft /\ SettingsLeft
<1>1. ASSUME NoRequest(from) PROVE RequestLeft
  BY <1>1, Settles DEF NoRequest, TypeOK
<1>2. ASSUME NEW to \in {"PS_EN_REQ_QUEUED", "PS_DIS_REQ_SENT"},
             NEW ps_en \in BOOLEAN, NEW head \in BOOLEAN,
             ps_en \/ to = "PS_DIS_REQ_SENT",
             send_ps_params_req(from, to, ps_en, head, who)
      PROVE  RequestLeft
  BY <1>2, Sends
<1>3. ASSUME UpdateTA(from, ps_status, to_head, who)
      PROVE  RequestLeft /\ SettingsLeft
  <2>1. SettingsLeft
    BY <1>3 DEF UpdateTA, SettingsLeft, TypeOK
  <2>2. (to_head \/ ~RUN) \in BOOLEAN
    BY DEF RUN
  <2>3. \/ NoRequest(from)
        \/ send_ps_params_req(from, "PS_DIS_REQ_SENT", ps_status, to_head, who)
        \/ send_ps_params_req(from, "PS_DIS_REQ_SENT", PS_DISABLE,
                              to_head \/ ~RUN, who)
        \/ send_ps_params_req(from, "PS_EN_REQ_QUEUED", PS_ENABLE, FALSE, who)
    BY <1>3 DEF UpdateTA
  <2>4. ASSUME send_ps_params_req(from, "PS_DIS_REQ_SENT", PS_DISABLE,
                                  to_head \/ ~RUN, who)
        PROVE  RequestLeft
    <3>1. PICK head \in BOOLEAN : head = (to_head \/ ~RUN)
      BY <2>2
    <3>2. send_ps_params_req(from, "PS_DIS_REQ_SENT", PS_DISABLE, head, who)
      BY <2>4, <3>1
    <3>3. QED
      BY <3>2, <1>2
  <2>5. QED
    BY <2>1, <2>3, <2>4, <1>1, <1>2
<1>4. ASSUME send_ps_params_req(from, IF ps_status THEN "PS_EN_REQ_QUEUED"
                                      ELSE "PS_DIS_REQ_SENT",
                                ps_status, to_head, who)
      PROVE  RequestLeft
  BY <1>4, <1>2
<1>5. ASSUME UNCHANGED settings PROVE SettingsLeft
  BY <1>5 DEF SettingsLeft, TypeOK
<1>6. ASSUME disable_ps_for_change_in_params' = FALSE,
             UNCHANGED <<ps_params, update_ta>>
      PROVE  SettingsLeft
  BY <1>6 DEF SettingsLeft, TypeOK
<1>7. QED
  BY <1>1, <1>2, <1>3, <1>4, <1>5, <1>6 DEF Decide

-----------------------------------------------------------------------------
\* The handler, whoever calls it.

\* A caller without a confirm leaves the device alone.
CallsFree(path) == path \notin Confirms /\ UNCHANGED cnf

\* The receive path takes the confirm it reports.
CallsConfirm(path) ==
    /\ cnf # <<>> /\ cnf' = Tail(cnf)
    /\ path = IF Head(cnf) = "sleep" THEN "PS_EN_REQ_CNFM_PATH"
                                     ELSE "PS_DIS_REQ_CNFM_PATH"

\* The confirm is the only one, and nothing else is under way.
LEMMA ConfirmAlone ==
  ASSUME IInv, NEW path, CallsConfirm(path),
         UNCHANGED <<bus, asleep>>, HandedOver' = HandedOver
  PROVE  /\ Clear
         /\ path = IF asleep THEN "PS_EN_REQ_CNFM_PATH"
                             ELSE "PS_DIS_REQ_CNFM_PATH"
         /\ ic_lock = "free" => PS_STATE \notin {"PS_NONE", "DEV_IN_PWR_SVE"}
<1>1. cnf \in Seq({"sleep", "wake"}) /\ cnf # <<>> /\ Len(cnf) <= 1
  BY DEF IInv, TypeOK, OneRequest, CallsConfirm
<1>2. Tail(cnf) = <<>>
  BY <1>1, OnlyTaken
<1>3. cnf' = <<>>
  BY <1>2 DEF CallsConfirm
<1>4. Queued = {} /\ ~HandedOver /\ bus = <<>>
  BY <1>1 DEF IInv, OneRequest
<1>5. Clear
  BY <1>3, <1>4 DEF Clear
<1>6. path = IF asleep THEN "PS_EN_REQ_CNFM_PATH" ELSE "PS_DIS_REQ_CNFM_PATH"
  BY <1>1 DEF IInv, ConfirmTells, CallsConfirm
<1>7. ic_lock = "free" => PS_STATE \notin {"PS_NONE", "DEV_IN_PWR_SVE"}
  BY <1>1 DEF IInv, BeliefMatches, Nowhere
<1>8. QED
  BY <1>5, <1>6, <1>7

\* A call that changes nothing of the request.
LEMMA NothingAsked ==
  ASSUME IInv, ic_lock = "free", NEW path,
         CallsFree(path) \/ CallsConfirm(path),
         UNCHANGED <<bus, asleep>>, HandedOver' = HandedOver,
         UNCHANGED request
  PROVE  RequestLeft
<1>1. Queued' = Queued
  BY DEF Queued
<1>2. CASE CallsFree(path)
  BY <1>1, <1>2 DEF RequestLeft, IInv, TypeOK, OneRequest, BeliefMatches,
                    LockHolds, Nowhere, CallsFree
<1>3. CASE CallsConfirm(path)
  BY <1>1, <1>3, ConfirmAlone DEF RequestLeft, IInv, TypeOK, BeliefMatches,
                                  LockHolds, Clear
<1>4. QED
  BY <1>2, <1>3

\* The handler may be called with any status on any path.
LEMMA Handler ==
  ASSUME IInv, NEW ps_status \in BOOLEAN, NEW path, NEW to_head \in BOOLEAN,
         NEW who \in Lockers,
         pwr_sve_event_handler(ps_status, path, to_head, who),
         CallsFree(path) \/ CallsConfirm(path),
         UNCHANGED <<bus, asleep>>, HandedOver' = HandedOver
  PROVE  RequestLeft /\ SettingsLeft /\ traffic_timer' \in BOOLEAN
<1>1. ic_lock = "free" /\ TypeOK
  BY DEF pwr_sve_event_handler, IInv
<1>2. ASSUME UNCHANGED request PROVE RequestLeft
  BY <1>1, <1>2, NothingAsked
<1>3. ASSUME UNCHANGED settings PROVE SettingsLeft
  BY <1>1, <1>3 DEF SettingsLeft, TypeOK
<1>4. ASSUME PS_STATE \in {"PS_NONE", "DEV_IN_PWR_SVE"}
      PROVE  Clear /\ asleep' = (PS_STATE = "DEV_IN_PWR_SVE") /\ CallsFree(path)
  <2>1. Nowhere /\ (asleep <=> PS_STATE = "DEV_IN_PWR_SVE")
    BY <1>1, <1>4 DEF IInv, BeliefMatches
  <2>2. CallsFree(path)
    BY <1>1, <1>4, ConfirmAlone
  <2>3. asleep \in BOOLEAN
    BY <1>1 DEF TypeOK
  <2>4. QED
    BY <2>1, <2>2, <2>3 DEF Clear, Nowhere, CallsFree
<1>5. ASSUME path \in Confirms
      PROVE  /\ Clear
             /\ asleep' = (path = "PS_EN_REQ_CNFM_PATH")
  <2>1. CallsConfirm(path)
    BY <1>5 DEF CallsFree
  <2>2. asleep \in BOOLEAN
    BY <1>1 DEF TypeOK
  <2>3. QED
    BY <2>1, <2>2, ConfirmAlone
<1>6. CASE UNCHANGED <<request, settings, traffic_timer>>
  <2>1. UNCHANGED request /\ UNCHANGED settings /\ UNCHANGED traffic_timer
    BY <1>6
  <2>2. QED
    BY <2>1, <1>1, <1>2, <1>3 DEF TypeOK
<1>7. CASE sc_nvaps < 2 /\ OneVap(ps_status, path, to_head, who)
  <2>1. CASE EnableConfirmed(path) /\ SleepConfirmed
    <3>1. path \in Confirms /\ path = "PS_EN_REQ_CNFM_PATH"
      BY <2>1 DEF EnableConfirmed
    <3>2. RequestLeft
      BY <3>1, <2>1, <1>1, <1>5, Settles DEF SleepConfirmed
    <3>3. UNCHANGED settings /\ UNCHANGED traffic_timer
      BY <2>1 DEF SleepConfirmed
    <3>4. QED
      BY <3>2, <3>3, <1>1, <1>3 DEF TypeOK
  <2>2. CASE /\ DisableConfirmed(path)
             /\ WakeConfirmed(ps_status, path, to_head, who)
    <3>1. path \in Confirms /\ path # "PS_EN_REQ_CNFM_PATH"
      BY <2>2 DEF DisableConfirmed
    <3>2. Clear /\ asleep' = ("PS_NONE" = "DEV_IN_PWR_SVE")
      BY <3>1, <1>5
    <3>3. traffic_timer' \in BOOLEAN
      BY <2>2, <1>1 DEF WakeConfirmed, TypeOK
    <3>4. CASE NoRequest("PS_NONE") /\ UNCHANGED settings
      <4>1. RequestLeft
        BY <3>2, <3>4, <1>1, Settles DEF NoRequest, TypeOK
      <4>2. QED
        BY <4>1, <3>3, <3>4, <1>3
    <3>5. CASE Decide("PS_NONE", ps_status, path, to_head, who)
      BY <3>2, <3>3, <3>5, <1>1, <1>7, Decides
    <3>6. QED
      BY <2>2, <3>4, <3>5 DEF WakeConfirmed
  <2>3. CASE /\ MayDecide
             /\ Decide(PS_STATE, ps_status, path, to_head, who)
             /\ UNCHANGED traffic_timer
    <3>1. PICK from \in {"PS_NONE", "DEV_IN_PWR_SVE"} : from = PS_STATE
      BY <2>3 DEF MayDecide
    <3>2. Decide(from, ps_status, path, to_head, who)
      BY <2>3, <3>1
    <3>3. Clear /\ asleep' = (from = "DEV_IN_PWR_SVE")
      BY <3>1, <1>4
    <3>4. RequestLeft /\ SettingsLeft
      BY <3>2, <3>3, <1>1, <1>7, Decides
    <3>5. QED
      BY <3>4, <2>3, <1>1 DEF TypeOK
  <2>4. QED
    BY <1>6, <1>7, <2>1, <2>2, <2>3 DEF OneVap
<1>8. CASE SeveralVaps(path, to_head, who)
  <2>1. UNCHANGED settings /\ UNCHANGED traffic_timer
    BY <1>8 DEF SeveralVaps
  <2>2. PICK head \in BOOLEAN, from \in PsState :
          /\ from = PS_STATE
          /\ head = (to_head /\ ~(ps_params.ps_en /\ PS_STATE = "DEV_IN_PWR_SVE"))
    BY <1>1 DEF TypeOK
  <2>3. CASE /\ \/ ps_params.ps_en /\ PS_STATE = "DEV_IN_PWR_SVE"
                \/ EnableConfirmed(path)
             /\ send_ps_params_req(from, "PS_DIS_REQ_SENT", PS_DISABLE, head, who)
    <3>1. Clear
      BY <2>3, <1>4, <1>5 DEF EnableConfirmed
    <3>2. RequestLeft
      BY <3>1, <2>2, <2>3, <1>1, Sends
    <3>3. QED
      BY <3>2, <2>1, <1>1, <1>3 DEF TypeOK
  <2>4. CASE DisableConfirmed(path) /\ NoRequest("PS_NONE")
    <3>1. path \in Confirms /\ path # "PS_EN_REQ_CNFM_PATH"
      BY <2>4 DEF DisableConfirmed
    <3>2. Clear /\ asleep' = ("PS_NONE" = "DEV_IN_PWR_SVE")
      BY <3>1, <1>5
    <3>3. RequestLeft
      BY <3>2, <2>4, <1>1, Settles DEF NoRequest, TypeOK
    <3>4. QED
      BY <3>3, <2>1, <1>1, <1>3 DEF TypeOK
  <2>5. CASE UNCHANGED request
    BY <2>5, <2>1, <1>1, <1>2, <1>3 DEF TypeOK
  <2>6. QED
    BY <1>8, <2>2, <2>3, <2>4, <2>5 DEF SeveralVaps
<1>9. QED
  BY <1>6, <1>7, <1>8 DEF pwr_sve_event_handler

-----------------------------------------------------------------------------
\* The invariant holds at the start.
LEMMA InitIInv ==
  ASSUME Init
  PROVE  IInv
<1>1. RequestsIn(queue) = {}
  BY DEF Init, RequestsIn
<1>2. queue \in Seq(Frames) /\ bus \in Seq(Requests) /\ cnf \in Seq({"sleep", "wake"})
      /\ Len(cnf) = 0
  BY DEF Init
<1>3. TypeOK
  <2> HIDE DEF NoParams
  <2>1. ps_params \in Params /\ ps_params_ioctl \in Params
    BY ConstantsAssumption DEF Init
  <2>2. /\ PS_STATE \in PsState /\ next_state \in PsState
        /\ ic_lock \in Lockers \cup {"free"}
        /\ iv_state \in VapState /\ sc_nvaps \in 1 .. 2
        /\ hand \in Requests \cup {NoFrame}
    BY DEF Init
  <2>3. /\ scheduler_event \in BOOLEAN
        /\ update_ta \in BOOLEAN /\ disable_ps_for_change_in_params \in BOOLEAN
        /\ delay_pwr_sve_decision_flag \in BOOLEAN
        /\ delay_sta_support_decision_flag \in BOOLEAN
        /\ traffic_timer \in BOOLEAN /\ scanning \in BOOLEAN
        /\ conn_in_prog \in BOOLEAN /\ asleep \in BOOLEAN
    BY DEF Init
  <2>4. /\ tpc \in {"idle", "features", "reset", "traffic", "enable", "disable"}
        /\ ipc \in {"idle", "update"} /\ dpc \in {"idle", "disable"}
        /\ wpc \in {"idle", "top", "check", "deepSleep", "pending", "dequeue",
                    "mark", "send"}
    BY DEF Init
  <2>5. QED
    BY <1>2, <2>1, <2>2, <2>3, <2>4 DEF TypeOK
<1>4. QED
  BY <1>1, <1>2, <1>3 DEF Init, IInv, OneRequest, BeliefMatches, ThreadHolds,
       LockHolds, ConfirmTells, Nowhere, HandedOver, Queued

\* What the callers of the handler leave alone.
OthersLeft ==
    /\ ps_params_ioctl' \in Params
    /\ delay_pwr_sve_decision_flag' \in BOOLEAN
    /\ delay_sta_support_decision_flag' \in BOOLEAN
    /\ tpc' \in {"idle", "features", "reset", "traffic", "enable", "disable"}
    /\ ipc' \in {"idle", "update"} /\ dpc' \in {"idle", "disable"}
    /\ wpc' \in {"idle", "top", "check", "deepSleep", "pending", "dequeue",
                 "mark", "send"}
    /\ hand' = hand
    /\ (wpc' \in {"mark", "send"} <=> wpc \in {"mark", "send"})
    /\ UNCHANGED vap

\* A step that calls the handler keeps the invariant.
LEMMA Calls ==
  ASSUME IInv, RequestLeft, SettingsLeft, traffic_timer' \in BOOLEAN,
         OthersLeft, NEW path, CallsFree(path) \/ CallsConfirm(path),
         UNCHANGED <<bus, asleep>>, HandedOver' = HandedOver
  PROVE  IInv'
<1>1. cnf' \in Seq({"sleep", "wake"})
  <2>1. CASE CallsFree(path)
    BY <2>1 DEF CallsFree, IInv, TypeOK
  <2>2. CASE CallsConfirm(path)
    <3>1. cnf \in Seq({"sleep", "wake"}) /\ cnf # <<>>
      BY <2>2 DEF CallsConfirm, IInv, TypeOK
    <3>2. QED
      BY <3>1, <2>2, HeadTailProperties DEF CallsConfirm
  <2>3. QED
    BY <2>1, <2>2
<1>2. TypeOK'
  BY <1>1 DEF TypeOK, IInv, RequestLeft, SettingsLeft, OthersLeft
<1>3. OneRequest'
  <2>1. CASE CallsFree(path)
    BY <2>1 DEF CallsFree, IInv, OneRequest, RequestLeft
  <2>2. CASE CallsConfirm(path)
    <3>1. Clear
      BY <2>2, ConfirmAlone
    <3>2. Len(cnf') <= 1
      BY <3>1 DEF Clear
    <3>3. QED
      BY <3>1, <3>2 DEF Clear, OneRequest, RequestLeft
  <2>3. QED
    BY <2>1, <2>2
<1>4. ConfirmTells'
  <2>1. CASE CallsFree(path)
    BY <2>1 DEF CallsFree, IInv, ConfirmTells
  <2>2. CASE CallsConfirm(path)
    BY <2>2, ConfirmAlone DEF Clear, ConfirmTells
  <2>3. QED
    BY <2>1, <2>2
<1>5. ThreadHolds'
  BY DEF IInv, ThreadHolds, OthersLeft
<1>6. QED
  BY <1>2, <1>3, <1>4, <1>5 DEF IInv, RequestLeft

\* The receive path.
LEMMA RxStep ==
  ASSUME IInv, RxConfirm
  PROVE  IInv'
<1>1. PICK path : path = IF Head(cnf) = "sleep" THEN "PS_EN_REQ_CNFM_PATH"
                                                ELSE "PS_DIS_REQ_CNFM_PATH"
  OBVIOUS
<1>2. pwr_sve_event_handler(PS_DISABLE, path, FALSE, "rx")
  BY <1>1 DEF RxConfirm
<1>3. CallsConfirm(path) /\ UNCHANGED <<bus, asleep>> /\ HandedOver' = HandedOver
  BY <1>1 DEF CallsConfirm, RxConfirm, HandedOver
<1>4. RequestLeft /\ SettingsLeft /\ traffic_timer' \in BOOLEAN
  BY <1>2, <1>3, Handler
<1>5. OthersLeft
  BY DEF OthersLeft, RxConfirm, IInv, TypeOK
<1>6. QED
  BY <1>3, <1>4, <1>5, Calls

\* The ioctl, the data path, the timer and the WLAN thread.
LEMMA CallerStep ==
  ASSUME IInv, IoctlUpdate \/ DataUpdate \/ TimerFeatures \/ TimerUpdate
               \/ ThreadPending
  PROVE  IInv'
<1>1. PICK enable \in BOOLEAN, set \in BOOLEAN :
        enable = (tpc = "enable") /\ set = ps_params_ioctl.ps_en
  BY DEF IInv, TypeOK
<1>2. UNCHANGED device /\ HandedOver' = HandedOver
  BY DEF IoctlUpdate, DataUpdate, TimerFeatures, TimerUpdate, ThreadPending,
         HandedOver
<1>3. CallsFree("TIMER_PATH")
  BY <1>2 DEF CallsFree
<1>4. OthersLeft
  BY DEF IoctlUpdate, DataUpdate, TimerFeatures, TimerUpdate, ThreadPending,
         OthersLeft, IInv, TypeOK
<1>5. \/ \E ps_status \in BOOLEAN, to_head \in BOOLEAN, who \in Lockers :
         \E path \in {"IOCTL_PATH", "TX_RX_PATH", "TIMER_PATH", "MGMT_PENDING_PATH"} :
            pwr_sve_event_handler(ps_status, path, to_head, who)
      \/ UNCHANGED <<request, settings, traffic_timer>> /\ IoctlUpdate
  BY <1>1 DEF IoctlUpdate, DataUpdate, TimerFeatures, TimerUpdate, ThreadPending
<1>6. ASSUME NEW ps_status \in BOOLEAN, NEW to_head \in BOOLEAN, NEW who \in Lockers,
             NEW path \in {"IOCTL_PATH", "TX_RX_PATH", "TIMER_PATH", "MGMT_PENDING_PATH"},
             pwr_sve_event_handler(ps_status, path, to_head, who)
      PROVE  RequestLeft /\ SettingsLeft /\ traffic_timer' \in BOOLEAN
  <2>1. CallsFree(path)
    BY <1>2 DEF CallsFree
  <2>2. QED
    BY <1>2, <1>6, <2>1, Handler
<1>7. CASE UNCHANGED <<request, settings, traffic_timer>> /\ IoctlUpdate
  <2>1. UNCHANGED request /\ UNCHANGED settings /\ UNCHANGED traffic_timer
    BY <1>7
  <2>2. Queued' = Queued
    BY <2>1 DEF Queued
  <2>3. RequestLeft
    BY <1>2, <2>1, <2>2 DEF RequestLeft, IInv, TypeOK, OneRequest,
         BeliefMatches, LockHolds, Nowhere
  <2>4. SettingsLeft /\ traffic_timer' \in BOOLEAN
    BY <2>1 DEF SettingsLeft, IInv, TypeOK
  <2>5. QED
    BY <1>2, <1>3, <1>4, <2>3, <2>4, Calls
<1>8. QED
  BY <1>2, <1>3, <1>4, <1>5, <1>6, <1>7, Calls

Quiet == \/ IoctlSet \/ DataBurst \/ TimerFires \/ TimerTraffic
         \/ ThreadWakes \/ ThreadTop \/ ThreadCheck \/ ThreadDeepSleep
         \/ onebox_send_internal_mgmt_frame \/ Vap

\* A frame that is no request leaves the requests in the queue where they are.
LEMMA FrameSent ==
  ASSUME TypeOK, SendFrame \/ NoFrameSent
  PROVE  /\ queue' \in Seq(Frames) /\ scheduler_event' \in BOOLEAN
         /\ Queued' = Queued /\ \A i \in Queued : queue'[i] = queue[i]
<1>1. queue \in Seq(Frames) /\ scheduler_event \in BOOLEAN
  BY DEF TypeOK
<1>2. queue' = queue \/ queue' = Append(queue, "mgmt")
  BY DEF SendFrame, NoFrameSent
<1>3. scheduler_event' \in BOOLEAN
  <2>1. scheduler_event' = TRUE \/ scheduler_event' = scheduler_event
    BY DEF SendFrame, NoFrameSent
  <2>2. QED
    BY <1>1, <2>1
<1>4. CASE queue' = queue
  BY <1>1, <1>3, <1>4 DEF Queued
<1>5. CASE queue' = Append(queue, "mgmt")
  BY <1>1, <1>3, <1>5, MgmtAppended, AppendProperties DEF Queued
<1>6. QED
  BY <1>2, <1>4, <1>5

\* Every other step leaves the requests, the device and the parameters alone.
LEMMA QuietLeaves ==
  ASSUME TypeOK, Quiet
  PROVE  /\ UNCHANGED <<PS_STATE, ic_lock, next_state, hand, bus, asleep, cnf>>
         /\ UNCHANGED <<ps_params, disable_ps_for_change_in_params>>
         /\ UNCHANGED wpc \/ (wpc \notin {"mark", "send"} /\ wpc' \notin {"mark", "send"})
         /\ queue' \in Seq(Frames) /\ scheduler_event' \in BOOLEAN
         /\ Queued' = Queued /\ \A i \in Queued : queue'[i] = queue[i]
<1>1. CASE IoctlSet \/ DataBurst \/ TimerFires \/ TimerTraffic
  <2>1. /\ UNCHANGED <<PS_STATE, ic_lock, next_state, hand, bus, asleep, cnf>>
        /\ UNCHANGED <<ps_params, disable_ps_for_change_in_params, wpc>>
        /\ NoFrameSent
    BY <1>1 DEF IoctlSet, DataBurst, TimerFires, TimerTraffic, NoFrameSent
  <2>2. QED
    BY <2>1, FrameSent
<1>2. CASE ThreadWakes \/ ThreadTop \/ ThreadCheck \/ ThreadDeepSleep
  <2>1. /\ UNCHANGED <<PS_STATE, ic_lock, next_state, hand, bus, asleep, cnf>>
        /\ UNCHANGED <<ps_params, disable_ps_for_change_in_params, queue>>
        /\ wpc \notin {"mark", "send"} /\ wpc' \notin {"mark", "send"}
    BY <1>2 DEF ThreadWakes, ThreadTop, ThreadCheck, ThreadDeepSleep, threadOnly
  <2>2. scheduler_event' = FALSE \/ scheduler_event' = scheduler_event
    BY <1>2 DEF ThreadWakes, ThreadTop, ThreadCheck, ThreadDeepSleep
  <2>3. /\ queue' \in Seq(Frames) /\ scheduler_event' \in BOOLEAN
        /\ Queued' = Queued /\ \A i \in Queued : queue'[i] = queue[i]
    BY <2>1, <2>2 DEF TypeOK, Queued
  <2>4. QED
    BY <2>1, <2>3
<1>3. CASE onebox_send_internal_mgmt_frame \/ Vap
  <2>1. /\ UNCHANGED <<PS_STATE, ic_lock, next_state, hand, bus, asleep, cnf>>
        /\ UNCHANGED <<ps_params, disable_ps_for_change_in_params, wpc>>
    BY <1>3 DEF Vap, onebox_scan_start, onebox_scan_end, stop_initial_timer,
       Associated, Connected, Disconnected, onebox_vap_create,
       onebox_vap_delete, vapOnly, onebox_send_internal_mgmt_frame
  <2>2. SendFrame \/ NoFrameSent
    BY <1>3 DEF Vap, onebox_scan_start, onebox_scan_end, stop_initial_timer,
       Associated, Connected, Disconnected, onebox_vap_create,
       onebox_vap_delete, onebox_send_internal_mgmt_frame
  <2>3. QED
    BY <2>1, <2>2, FrameSent
<1>4. QED
  BY <1>1, <1>2, <1>3 DEF Quiet

\* The types of what such a step may change.
QuietTypes ==
    /\ ps_params_ioctl \in Params /\ update_ta \in BOOLEAN
    /\ delay_pwr_sve_decision_flag \in BOOLEAN
    /\ delay_sta_support_decision_flag \in BOOLEAN
    /\ traffic_timer \in BOOLEAN
    /\ tpc \in {"idle", "features", "reset", "traffic", "enable", "disable"}
    /\ ipc \in {"idle", "update"} /\ dpc \in {"idle", "disable"}
    /\ wpc \in {"idle", "top", "check", "deepSleep", "pending", "dequeue",
                "mark", "send"}
    /\ iv_state \in VapState /\ scanning \in BOOLEAN
    /\ conn_in_prog \in BOOLEAN /\ sc_nvaps \in 1 .. 2

\* It keeps the types.
LEMMA QuietTypeStep ==
  ASSUME TypeOK, Quiet
  PROVE  TypeOK'
<1>0. QuietTypes
  BY DEF TypeOK, QuietTypes
<1>1. QuietTypes'
  <2> USE <1>0 DEF QuietTypes
  <2>1. CASE IoctlSet
    BY <2>1 DEF IoctlSet
  <2>2. CASE DataBurst
    <3>1. CASE UNCHANGED traffic_timer
      BY <2>2, <3>1 DEF DataBurst
    <3>2. CASE traffic_timer' = TRUE /\ UNCHANGED dpc
      BY <2>2, <3>2 DEF DataBurst
    <3>3. QED
      BY <2>2, <3>1, <3>2 DEF DataBurst
  <2>3. CASE TimerFires
    BY <2>3, ZenonT(60) DEF TimerFires
  <2>4. CASE TimerTraffic
    <3>1. /\ UNCHANGED <<ps_params_ioctl, update_ta, ipc, dpc, wpc>>
          /\ UNCHANGED delay_pwr_sve_decision_flag
          /\ UNCHANGED <<iv_state, scanning, conn_in_prog, sc_nvaps>>
      BY <2>4 DEF TimerTraffic
    <3>2. tpc' \in {"disable", "enable", "idle"}
      BY <2>4 DEF TimerTraffic
    <3>3. traffic_timer' \in BOOLEAN /\ delay_sta_support_decision_flag' \in BOOLEAN
      BY <2>4 DEF TimerTraffic
    <3>4. QED
      BY <3>1, <3>2, <3>3
  <2>5. CASE ThreadWakes \/ ThreadTop
    <3>1. CASE ThreadWakes
      BY <3>1 DEF ThreadWakes, threadOnly
    <3>2. CASE ThreadTop
      BY <3>2 DEF ThreadTop, threadOnly
    <3>3. QED
      BY <2>5, <3>1, <3>2
  <2>6. CASE ThreadCheck
    BY <2>6, ZenonT(60) DEF ThreadCheck, threadOnly
  <2>7. CASE ThreadDeepSleep
    BY <2>7 DEF ThreadDeepSleep, StopInitialTimer, threadOnly
  <2>8. CASE Vap
    <3> USE DEF vapOnly
    <3>1. CASE onebox_scan_start
      BY <3>1 DEF onebox_scan_start
    <3>2. CASE onebox_scan_end
      <4>1. /\ UNCHANGED <<ps_params_ioctl, update_ta>>
            /\ UNCHANGED <<tpc, ipc, dpc, wpc>>
            /\ UNCHANGED <<delay_sta_support_decision_flag, iv_state, conn_in_prog, sc_nvaps>>
        BY <3>2 DEF onebox_scan_end
      <4>2. scanning' \in BOOLEAN
        BY <3>2 DEF onebox_scan_end
      <4>3. delay_pwr_sve_decision_flag' \in BOOLEAN /\ traffic_timer' \in BOOLEAN
        BY <3>2 DEF onebox_scan_end, DecideLater
      <4>4. QED
        BY <4>1, <4>2, <4>3
    <3>3. CASE stop_initial_timer
      BY <3>3 DEF stop_initial_timer, StopInitialTimer
    <3>4. CASE Associated
      BY <3>4 DEF Associated
    <3>5. CASE Connected
      <4>1. /\ UNCHANGED <<ps_params_ioctl, update_ta>>
            /\ UNCHANGED <<tpc, ipc, dpc, wpc>>
            /\ UNCHANGED <<iv_state, scanning, sc_nvaps>>
        BY <3>5 DEF Connected
      <4>2. conn_in_prog' \in BOOLEAN
        BY <3>5 DEF Connected
      <4>3. /\ delay_pwr_sve_decision_flag' \in BOOLEAN
            /\ delay_sta_support_decision_flag' \in BOOLEAN
            /\ traffic_timer' \in BOOLEAN
        BY <3>5 DEF Connected, DecideLater
      <4>4. QED
        BY <4>1, <4>2, <4>3
    <3>6. CASE Disconnected
      BY <3>6 DEF Disconnected, DecideLater, RUN
    <3>7. CASE onebox_vap_create \/ onebox_vap_delete
      BY <3>7 DEF onebox_vap_create, onebox_vap_delete
    <3>8. QED
      BY <2>8, <3>1, <3>2, <3>3, <3>4, <3>5, <3>6, <3>7 DEF Vap
  <2>9. CASE onebox_send_internal_mgmt_frame
    BY <2>9 DEF onebox_send_internal_mgmt_frame
  <2>10. QED
    BY <2>1, <2>2, <2>3, <2>4, <2>5, <2>6, <2>7, <2>8, <2>9 DEF Quiet
<1>2. QED
  BY <1>1, QuietLeaves DEF TypeOK, QuietTypes

\* It moves no request.
LEMMA QuietStep ==
  ASSUME IInv, Quiet
  PROVE  IInv'
<1>1. UNCHANGED <<PS_STATE, ic_lock, next_state, hand, bus, asleep, cnf>>
  BY QuietLeaves DEF IInv
<1>2. UNCHANGED wpc \/ (wpc \notin {"mark", "send"} /\ wpc' \notin {"mark", "send"})
  BY QuietLeaves DEF IInv
<1>3. Queued' = Queued
  BY QuietLeaves DEF IInv
<1>4. HandedOver' = HandedOver
  BY <1>1, <1>2 DEF HandedOver, IInv, ThreadHolds
<1>5. TypeOK'
  BY QuietTypeStep DEF IInv
<1>6. ThreadHolds'
  BY <1>1, <1>2 DEF IInv, ThreadHolds
<1>7. QED
  BY <1>1, <1>3, <1>4, <1>5, <1>6 DEF IInv, OneRequest, BeliefMatches, Nowhere,
       LockHolds, ConfirmTells

\* The holder of the lock lets go of it in a state that waits.
LEMMA AssignStep ==
  ASSUME IInv, AssignState
  PROVE  IInv'
<1>1. next_state \in {"PS_EN_REQ_QUEUED", "PS_DIS_REQ_SENT"}
  BY DEF IInv, LockHolds, AssignState
<1>2. TypeOK'
  BY <1>1 DEF IInv, TypeOK, AssignState
<1>3. Queued' = Queued /\ HandedOver' = HandedOver
  BY DEF Queued, HandedOver, AssignState
<1>4. QED
  BY <1>1, <1>2, <1>3 DEF IInv, OneRequest, BeliefMatches, ThreadHolds,
       LockHolds, ConfirmTells, AssignState

\* The WLAN thread takes the request out of the queue.
LEMMA DequeueStep ==
  ASSUME IInv, ThreadDequeue
  PROVE  IInv'
<1>1. queue \in Seq(Frames) /\ queue # <<>> /\ queue' = Tail(queue)
      /\ \A i, j \in RequestsIn(queue) : i = j
  BY DEF IInv, TypeOK, OneRequest, Queued, ThreadDequeue
<1>2. /\ queue' \in Seq(Frames) /\ Head(queue) \in Frames
      /\ \A i, j \in Queued' : i = j
      /\ Queued' # {} => Queued # {}
      /\ Head(queue) \in Requests => Queued # {} /\ Queued' = {}
  BY <1>1, HeadTaken DEF Queued
<1>3. hand = NoFrame
  BY DEF IInv, ThreadHolds, ThreadDequeue
<1>4. CASE Head(queue) = "mgmt" /\ wpc' = "top" /\ UNCHANGED hand
  <2>1. ~HandedOver /\ ~HandedOver' /\ ThreadHolds'
    BY <1>3, <1>4 DEF HandedOver, ThreadHolds
  <2>2. TypeOK'
    BY <1>2, <1>4 DEF IInv, TypeOK, ThreadDequeue
  <2>3. QED
    BY <1>2, <2>1, <2>2 DEF IInv, OneRequest, BeliefMatches, Nowhere, LockHolds,
         ConfirmTells, ThreadDequeue
<1>5. CASE /\ Head(queue) # "mgmt" /\ hand' = Head(queue)
           /\ wpc' = IF MarkFirst THEN "mark" ELSE "send"
  <2>1. Head(queue) \in Requests
    BY <1>2, <1>5
  <2>2. Queued # {} /\ Queued' = {} /\ ThreadHolds'
    BY <1>2, <1>5, <2>1 DEF ThreadHolds
  <2>3. TypeOK'
    BY <1>2, <1>5, <2>1 DEF IInv, TypeOK, ThreadDequeue
  <2>4. bus = <<>> /\ cnf = <<>> /\ UNCHANGED <<bus, cnf, asleep, PS_STATE, ic_lock, next_state>>
    BY <2>2 DEF IInv, OneRequest, ThreadDequeue
  <2>5. OneRequest'
    BY <2>2, <2>4 DEF IInv, OneRequest
  <2>6. QED
    BY <2>2, <2>3, <2>4, <2>5 DEF IInv, BeliefMatches, Nowhere, LockHolds,
         ConfirmTells
<1>6. QED
  BY <1>4, <1>5 DEF ThreadDequeue

\* It marks the state and writes the request, in either order.
LEMMA MarkStep ==
  ASSUME IInv, ThreadMark
  PROVE  IInv'
<1>1. hand # NoFrame /\ HandedOver' = HandedOver /\ ThreadHolds'
  BY DEF IInv, ThreadHolds, HandedOver, ThreadMark, MarkFirst
<1>2. Queued' = Queued
  BY DEF Queued, ThreadMark
<1>3. TypeOK'
  BY DEF IInv, TypeOK, ThreadMark
<1>4. /\ PS_STATE' # PS_STATE => PS_STATE = "PS_EN_REQ_QUEUED"
                                /\ PS_STATE' = "PS_EN_REQ_SENT"
      /\ UNCHANGED <<ic_lock, next_state, bus, cnf, asleep>>
  BY DEF ThreadMark
<1>5. QED
  BY <1>1, <1>2, <1>3, <1>4 DEF IInv, OneRequest, BeliefMatches, Nowhere,
       LockHolds, ConfirmTells

LEMMA SendStep ==
  ASSUME IInv, ThreadSend
  PROVE  IInv'
<1>1. HandedOver /\ ~HandedOver' /\ hand \in Requests
  BY DEF IInv, TypeOK, ThreadHolds, HandedOver, ThreadSend, MarkFirst
<1>2. bus = <<>> /\ cnf = <<>> /\ Queued = {}
  BY <1>1 DEF IInv, OneRequest
<1>3. bus' \in Seq(Requests) /\ bus' # <<>> /\ Len(bus') = 1
  BY <1>1, <1>2 DEF ThreadSend
<1>4. Queued' = {} /\ ThreadHolds'
  BY <1>2 DEF Queued, IInv, ThreadHolds, ThreadSend, MarkFirst
<1>5. TypeOK'
  BY <1>3 DEF IInv, TypeOK, ThreadSend
<1>6. ic_lock = "free" => PS_STATE \notin {"PS_NONE", "DEV_IN_PWR_SVE"}
  BY <1>1 DEF IInv, BeliefMatches, Nowhere
<1>7. QED
  BY <1>1, <1>2, <1>3, <1>4, <1>5, <1>6 DEF IInv, OneRequest, BeliefMatches,
       LockHolds, ConfirmTells, ThreadSend

\* The firmware turns the request into its confirm.
LEMMA FirmwareStep ==
  ASSUME IInv, Firmware
  PROVE  IInv'
<1>1. bus \in Seq(Requests) /\ bus # <<>> /\ Len(bus) = 1 /\ cnf = <<>>
  BY DEF IInv, TypeOK, OneRequest, Firmware
<1>2. bus' = <<>>
  BY <1>1, OnlyTaken DEF Firmware
<1>3. cnf' = IF Head(bus) = "sleep" THEN <<"sleep">> ELSE <<"wake">>
  BY <1>1 DEF Firmware
<1>4. cnf' \in Seq({"sleep", "wake"}) /\ Len(cnf') = 1
      /\ (Head(cnf') = "sleep" <=> Head(bus) = "sleep")
  <2>1. CASE Head(bus) = "sleep"
    <3>1. cnf' = <<"sleep">>
      BY <1>3, <2>1
    <3>2. QED
      BY <3>1, <2>1
  <2>2. CASE Head(bus) # "sleep"
    <3>1. cnf' = <<"wake">>
      BY <1>3, <2>2
    <3>2. QED
      BY <3>1, <2>2
  <2>3. QED
    BY <2>1, <2>2
<1>5. Queued = {} /\ Queued' = {} /\ ~HandedOver /\ ~HandedOver'
  BY <1>1 DEF IInv, OneRequest, Queued, HandedOver, Firmware
<1>6. TypeOK'
  BY <1>2, <1>4 DEF IInv, TypeOK, Firmware
<1>7. ic_lock = "free" => PS_STATE \notin {"PS_NONE", "DEV_IN_PWR_SVE"}
  BY <1>1 DEF IInv, BeliefMatches, Nowhere
<1>8. ConfirmTells'
  BY <1>4 DEF ConfirmTells, Firmware
<1>9. QED
  BY <1>2, <1>4, <1>5, <1>6, <1>7, <1>8 DEF IInv, OneRequest, BeliefMatches,
       LockHolds, ThreadHolds, Firmware

-----------------------------------------------------------------------------
\* IInv is inductive.
LEMMA StepIInv ==
  ASSUME IInv, [Next]_vars
  PROVE  IInv'
<1>1. CASE Next
  BY <1>1, AssignStep, RxStep, CallerStep, QuietStep, DequeueStep,
     MarkStep, SendStep, FirmwareStep DEF Next, Timer, Thread, Quiet
<1>2. CASE UNCHANGED vars
  BY <1>2 DEF vars, IInv, TypeOK, OneRequest, BeliefMatches, ThreadHolds,
     LockHolds, ConfirmTells, Nowhere, HandedOver, Queued
<1>3. QED
  BY <1>1, <1>2

\* The strengthened invariant of the power save handshake holds in every
\* behaviour of onebox_ps.c and the WLAN thread.
THEOREM Inductive == Spec => []IInv
<1>1. Init => IInv
  BY InitIInv
<1>2. IInv /\ [Next]_vars => IInv'
  BY StepIInv
<1>3. QED
  BY <1>1, <1>2, PTL DEF Spec

\* Every variable keeps its type.
THEOREM TypeCorrect == Spec => []TypeOK
<1>1. IInv => TypeOK
  BY DEF IInv
<1>2. QED
  BY <1>1, Inductive, PTL

\* pwr_sve_event_handler never has two requests under way, whichever callers
\* ask and however stale what they read of PS_STATE is.
THEOREM NeverTwoRequests == Spec => []OneRequest
<1>1. IInv => OneRequest
  BY DEF IInv
<1>2. QED
  BY <1>1, Inductive, PTL

\* What PS_STATE says of a settled device is so.
THEOREM BeliefIsTrue == Spec => []BeliefMatches
<1>1. IInv => BeliefMatches
  BY DEF IInv
<1>2. QED
  BY <1>1, Inductive, PTL

-----------------------------------------------------------------------------
\* The refinement of PowerSaveAgreement

USE DEF Agreement!vars, Agreement!Next

\* The kind of the request under way, read from the places it can be in.
LEMMA AskedIs ==
  ASSUME IInv
  PROVE  /\ Asked \in {"sleep", "wake", "none"}
         /\ \A i \in Queued : Asked = IF queue[i] = "sleep" THEN "sleep" ELSE "wake"
         /\ HandedOver => Asked = IF hand = "sleep" THEN "sleep" ELSE "wake"
         /\ bus # <<>> => Asked = IF Head(bus) = "sleep" THEN "sleep" ELSE "wake"
         /\ cnf # <<>> => Asked = IF Head(cnf) = "sleep" THEN "sleep" ELSE "wake"
         /\ Asked = "none" <=> Nowhere
<1>1. Asked \in {"sleep", "wake", "none"} /\ (Asked = "none" <=> Nowhere)
  BY DEF Asked
<1>2. ASSUME NEW i \in Queued
      PROVE  Asked = IF queue[i] = "sleep" THEN "sleep" ELSE "wake"
  <2>1. \A j \in Queued : i = j
    BY DEF IInv, OneRequest
  <2>2. ~HandedOver /\ bus = <<>> /\ cnf = <<>> /\ ~Nowhere
    BY DEF IInv, OneRequest, Nowhere
  <2>3. QED
    BY <2>1, <2>2 DEF Asked, WakeUnderWay
<1>3. ASSUME Queued = {}
      PROVE  /\ HandedOver => Asked = IF hand = "sleep" THEN "sleep" ELSE "wake"
             /\ bus # <<>> => Asked = IF Head(bus) = "sleep" THEN "sleep" ELSE "wake"
             /\ cnf # <<>> => Asked = IF Head(cnf) = "sleep" THEN "sleep" ELSE "wake"
  BY <1>3 DEF IInv, OneRequest, Asked, WakeUnderWay, Nowhere
<1>4. Queued # {} => ~HandedOver /\ bus = <<>> /\ cnf = <<>>
  BY DEF IInv, OneRequest
<1>5. QED
  BY <1>1, <1>2, <1>3, <1>4

\* A request that stays where it is stays what it is.
LEMMA AskedStays ==
  ASSUME Queued' = Queued, \A i \in Queued : queue'[i] = queue[i],
         HandedOver' = HandedOver, HandedOver => UNCHANGED hand,
         UNCHANGED <<bus, cnf>>
  PROVE  Asked' = Asked
<1>1. Nowhere' = Nowhere
  BY DEF Nowhere
<1>2. WakeUnderWay' = WakeUnderWay
  BY DEF WakeUnderWay
<1>3. QED
  BY <1>1, <1>2 DEF Asked

\* What the host knows is so, and then nothing is asked.
LEMMA BeliefIs ==
  ASSUME IInv
  PROVE  /\ Belief \in {"awake", "asleep", "unsure"}
         /\ Belief # "unsure" =>
               /\ Nowhere /\ Asked = "none"
               /\ Belief = Agreement!Known
               /\ ic_lock = "free" /\ PS_STATE \in {"PS_NONE", "DEV_IN_PWR_SVE"}
         /\ Belief = "unsure" =>
               ic_lock # "free" \/ PS_STATE \notin {"PS_NONE", "DEV_IN_PWR_SVE"}
  BY DEF IInv, TypeOK, BeliefMatches, Belief, Asked, Agreement!Known

\* A caller without a confirm that finds the handler waiting changes nothing.
LEMMA WaitsForConfirm ==
  ASSUME Belief = "unsure", IInv, NEW ps_status, NEW path, NEW to_head, NEW who,
         path \notin Confirms,
         pwr_sve_event_handler(ps_status, path, to_head, who)
  PROVE  UNCHANGED request
<1>1. PS_STATE \notin {"PS_NONE", "DEV_IN_PWR_SVE"}
  BY BeliefIs DEF pwr_sve_event_handler
<1>2. ~EnableConfirmed(path) /\ ~DisableConfirmed(path) /\ ~MayDecide
  BY <1>1 DEF EnableConfirmed, DisableConfirmed, MayDecide
<1>3. CASE OneVap(ps_status, path, to_head, who)
  BY <1>2, <1>3 DEF OneVap
<1>4. CASE SeveralVaps(path, to_head, who)
  BY <1>1, <1>2, <1>4 DEF SeveralVaps
<1>5. QED
  BY <1>3, <1>4 DEF pwr_sve_event_handler

\* A call without a confirm asks for something or is a stutter.
LEMMA AgreementFreeCall ==
  ASSUME IInv, IInv', NEW path, CallsFree(path),
         UNCHANGED <<bus, asleep>>, HandedOver' = HandedOver, UNCHANGED hand,
         Belief = "unsure" => UNCHANGED request
  PROVE  [Agreement!Next]_Agreement!vars
<1>1. (cnf # <<>>)' = (cnf # <<>>)
  BY DEF CallsFree
<1>2. CASE Belief = "unsure"
  <2>1. UNCHANGED request
    BY <1>2
  <2>2. Belief' = Belief
    BY <2>1 DEF Belief
  <2>3. Asked' = Asked
    BY <2>1, AskedStays DEF CallsFree, Queued
  <2>4. QED
    BY <1>1, <2>2, <2>3
<1>3. CASE Belief # "unsure" /\ Belief' # "unsure"
  <2>1. Asked = "none" /\ Belief = Agreement!Known
    BY <1>3, BeliefIs
  <2>2. Asked' = "none" /\ Belief' = Agreement!Known'
    BY <1>3 DEF IInv, TypeOK, BeliefMatches, Belief, Asked, Agreement!Known
  <2>3. QED
    BY <1>1, <2>1, <2>2 DEF Agreement!Known
<1>4. CASE Belief # "unsure" /\ Belief' = "unsure"
  <2>1. Asked = "none"
    BY <1>4, BeliefIs
  <2>2. Asked' \in {"sleep", "wake", "none"}
    BY DEF Asked
  <2>3. Agreement!Ask
    BY <1>1, <1>4, <2>1, <2>2 DEF Agreement!Ask
  <2>4. QED
    BY <2>3
<1>5. QED
  BY <1>2, <1>3, <1>4

\* A call with the confirm takes it.
LEMMA AgreementConfirm ==
  ASSUME IInv, IInv', RxConfirm
  PROVE  Agreement!Next
<1>1. cnf # <<>> /\ cnf' = Tail(cnf) /\ UNCHANGED asleep
  BY DEF RxConfirm
<1>2. cnf \in Seq({"sleep", "wake"}) /\ Len(cnf) <= 1
  BY <1>1 DEF IInv, TypeOK, OneRequest
<1>3. cnf' = <<>>
  BY <1>1, <1>2, OnlyTaken
<1>4. Asked' \in {"sleep", "wake", "none"}
  BY DEF Asked
<1>5. CASE Belief' = "unsure"
  BY <1>1, <1>3, <1>4, <1>5 DEF Agreement!TakeConfirm
<1>6. CASE Belief' # "unsure"
  <2>1. Asked' = "none" /\ Belief' = Agreement!Known'
    BY <1>6 DEF IInv, TypeOK, BeliefMatches, Belief, Asked, Agreement!Known
  <2>2. Agreement!Known' = Agreement!Known
    BY <1>1 DEF Agreement!Known
  <2>3. QED
    BY <1>1, <1>3, <2>1, <2>2 DEF Agreement!TakeConfirm
<1>7. QED
  BY <1>5, <1>6

\* The ioctl, the data path, the timer and the WLAN thread.
LEMMA AgreementCaller ==
  ASSUME IInv, IInv', IoctlUpdate \/ DataUpdate \/ TimerFeatures \/ TimerUpdate
                      \/ ThreadPending
  PROVE  [Agreement!Next]_Agreement!vars
<1>1. UNCHANGED device /\ UNCHANGED hand /\ HandedOver' = HandedOver
  BY DEF IoctlUpdate, DataUpdate, TimerFeatures, TimerUpdate, ThreadPending,
         HandedOver
<1>2. CallsFree("TIMER_PATH")
  BY <1>1 DEF CallsFree
<1>3. \/ \E ps_status, to_head, who :
         \E path \in {"IOCTL_PATH", "TX_RX_PATH", "TIMER_PATH", "MGMT_PENDING_PATH"} :
            pwr_sve_event_handler(ps_status, path, to_head, who)
      \/ UNCHANGED request
  BY DEF IoctlUpdate, DataUpdate, TimerFeatures, TimerUpdate, ThreadPending
<1>4. Belief = "unsure" => UNCHANGED request
  BY <1>3, WaitsForConfirm
<1>5. QED
  BY <1>1, <1>2, <1>4, AgreementFreeCall

\* A step that leaves the state, the requests and the device alone is a stutter.
LEMMA AgreementQuiet ==
  ASSUME IInv, Quiet
  PROVE  UNCHANGED Agreement!vars
<1>1. UNCHANGED <<PS_STATE, ic_lock, hand, bus, asleep, cnf>>
  BY QuietLeaves DEF IInv
<1>2. UNCHANGED wpc \/ (wpc \notin {"mark", "send"} /\ wpc' \notin {"mark", "send"})
  BY QuietLeaves DEF IInv
<1>3. Queued' = Queued /\ \A i \in Queued : queue'[i] = queue[i]
  BY QuietLeaves DEF IInv
<1>4. HandedOver' = HandedOver
  BY <1>1, <1>2 DEF HandedOver, IInv, ThreadHolds
<1>5. Asked' = Asked
  BY <1>1, <1>3, <1>4, AskedStays
<1>6. QED
  BY <1>1, <1>5 DEF Belief

\* The host was unsure before it lets go of the lock, and is after.
LEMMA AgreementAssign ==
  ASSUME IInv, AssignState
  PROVE  UNCHANGED Agreement!vars
<1>1. Belief = "unsure" /\ Belief' = "unsure"
  BY DEF AssignState, IInv, LockHolds, Belief
<1>2. Asked' = Asked
  BY AskedStays DEF AssignState, Queued, HandedOver
<1>3. QED
  BY <1>1, <1>2 DEF AssignState

\* The WLAN thread carries the request from the queue to the bus.
LEMMA AgreementDequeue ==
  ASSUME IInv, IInv', ThreadDequeue
  PROVE  UNCHANGED Agreement!vars
<1>1. queue \in Seq(Frames) /\ queue # <<>> /\ queue' = Tail(queue)
      /\ \A i, j \in RequestsIn(queue) : i = j
  BY DEF IInv, TypeOK, OneRequest, Queued, ThreadDequeue
<1>2. UNCHANGED <<PS_STATE, ic_lock, bus, cnf, asleep>>
  BY DEF ThreadDequeue
<1>3. hand = NoFrame /\ ~HandedOver
  BY DEF IInv, ThreadHolds, HandedOver, ThreadDequeue
<1>4. CASE Head(queue) = "mgmt" /\ wpc' = "top" /\ UNCHANGED hand
  <2>1. ~HandedOver'
    BY <1>3, <1>4 DEF HandedOver
  <2>2. /\ \A i \in Queued' : i + 1 \in Queued /\ queue'[i] = queue[i + 1]
        /\ \A i \in Queued : i - 1 \in Queued' /\ queue'[i - 1] = queue[i]
    BY <1>1, <1>4, HeadTaken DEF Queued
  <2>3. Nowhere' = Nowhere
    BY <1>2, <1>3, <2>1, <2>2 DEF Nowhere
  <2>4. WakeUnderWay' = WakeUnderWay
    BY <1>2, <1>3, <2>1, <2>2 DEF WakeUnderWay
  <2>5. QED
    BY <1>2, <2>3, <2>4 DEF Asked, Belief
<1>5. CASE /\ Head(queue) # "mgmt" /\ hand' = Head(queue)
           /\ wpc' = IF MarkFirst THEN "mark" ELSE "send"
  <2>1. /\ 1 \in Queued /\ hand' = queue[1] /\ Queued' = {}
        /\ hand' \in Requests
    BY <1>1, <1>5, HeadTaken DEF Queued
  <2>2. HandedOver'
    BY <1>5, <2>1 DEF HandedOver
  <2>3. bus = <<>> /\ cnf = <<>>
    BY <2>1 DEF IInv, OneRequest
  <2>4. Asked = IF hand' = "sleep" THEN "sleep" ELSE "wake"
    BY <2>1, AskedIs
  <2>5. Asked' = IF hand' = "sleep" THEN "sleep" ELSE "wake"
    BY <1>2, <2>1, <2>2, <2>3 DEF Asked, Nowhere, WakeUnderWay
  <2>6. QED
    BY <1>2, <2>4, <2>5 DEF Belief
<1>6. QED
  BY <1>4, <1>5 DEF ThreadDequeue

LEMMA AgreementMark ==
  ASSUME IInv, ThreadMark
  PROVE  UNCHANGED Agreement!vars
<1>1. HandedOver' = HandedOver /\ (HandedOver => UNCHANGED hand)
  BY DEF IInv, ThreadHolds, HandedOver, ThreadMark, MarkFirst
<1>2. Asked' = Asked
  BY <1>1, AskedStays DEF ThreadMark, Queued
<1>3. Belief' = Belief
  BY DEF ThreadMark, Belief
<1>4. QED
  BY <1>2, <1>3 DEF ThreadMark

LEMMA AgreementSend ==
  ASSUME IInv, ThreadSend
  PROVE  UNCHANGED Agreement!vars
<1>1. HandedOver /\ ~HandedOver' /\ hand \in Requests
  BY DEF IInv, TypeOK, ThreadHolds, HandedOver, ThreadSend, MarkFirst
<1>2. bus = <<>> /\ cnf = <<>> /\ Queued = {} /\ Queued' = {} /\ cnf' = <<>>
  BY <1>1 DEF IInv, OneRequest, Queued, ThreadSend
<1>3. bus' # <<>> /\ Head(bus') = hand
  BY <1>1, <1>2 DEF ThreadSend
<1>4. Asked = IF hand = "sleep" THEN "sleep" ELSE "wake"
  BY <1>1, AskedIs
<1>5. Asked' = IF hand = "sleep" THEN "sleep" ELSE "wake"
  BY <1>1, <1>2, <1>3 DEF Asked, Nowhere, WakeUnderWay
<1>6. QED
  BY <1>4, <1>5 DEF ThreadSend, Belief

\* The firmware obeys.
LEMMA AgreementObey ==
  ASSUME IInv, Firmware
  PROVE  Agreement!Next
<1>1. bus \in Seq(Requests) /\ bus # <<>> /\ Len(bus) = 1 /\ cnf = <<>>
  BY DEF IInv, TypeOK, OneRequest, Firmware
<1>2. bus' = <<>>
  BY <1>1, OnlyTaken DEF Firmware
<1>3. cnf' # <<>> /\ Head(cnf') = IF Head(bus) = "sleep" THEN "sleep" ELSE "wake"
  <2>1. CASE Head(bus) = "sleep"
    BY <1>1, <2>1 DEF Firmware
  <2>2. CASE Head(bus) # "sleep"
    BY <1>1, <2>2 DEF Firmware
  <2>3. QED
    BY <2>1, <2>2
<1>4. Queued' = {} /\ ~HandedOver'
  BY <1>1 DEF IInv, OneRequest, Queued, HandedOver, Firmware
<1>5. Asked = IF Head(bus) = "sleep" THEN "sleep" ELSE "wake"
  BY <1>1, AskedIs
<1>6. Asked' = IF Head(bus) = "sleep" THEN "sleep" ELSE "wake"
  BY <1>2, <1>3, <1>4 DEF Asked, Nowhere, WakeUnderWay
<1>7. asleep' = (Asked = "sleep") /\ Belief' = Belief
  BY <1>5 DEF Firmware, Belief
<1>8. QED
  BY <1>1, <1>3, <1>5, <1>6, <1>7 DEF Agreement!Obey

\* Every step of the callers, the WLAN thread and the firmware is a step or a
\* stutter of the agreement.
LEMMA AgreementStep ==
  ASSUME IInv, [Next]_vars
  PROVE  [Agreement!Next]_Agreement!vars
<1>1. IInv'
  BY StepIInv
<1>2. CASE Next
  BY <1>1, <1>2, AgreementAssign, AgreementConfirm, AgreementCaller,
     AgreementQuiet, AgreementDequeue, AgreementMark, AgreementSend,
     AgreementObey DEF Next, Timer, Thread, Quiet
<1>3. CASE UNCHANGED vars
  <2>1. UNCHANGED <<PS_STATE, ic_lock, queue, wpc, hand, bus, cnf, asleep>>
    BY <1>3 DEF vars
  <2>2. Asked' = Asked
    BY <2>1, AskedStays DEF Queued, HandedOver
  <2>3. QED
    BY <2>1, <2>2 DEF Belief
<1>4. QED
  BY <1>2, <1>3

\* The driver and the firmware keep the power save agreement: a request is
\* made by a host that knows the device's state, it is obeyed once, and the
\* host settles on a state only by the confirm of that one request.
THEOREM KeepsAgreementTheorem == Spec => KeepsAgreement
<1>1. Init => Agreement!Init
  <2>1. SUFFICES ASSUME Init PROVE Agreement!Init
    OBVIOUS
  <2>2. Queued = {} /\ ~HandedOver /\ bus = <<>> /\ cnf = <<>>
    BY <2>1 DEF Init, Queued, RequestsIn, HandedOver
  <2>3. QED
    BY <2>1, <2>2 DEF Init, Agreement!Init, Belief, Asked, Nowhere
<1>2. IInv /\ [Next]_vars => [Agreement!Next]_Agreement!vars
  BY AgreementStep
<1>3. QED
  BY <1>1, <1>2, Inductive, PTL DEF Spec, KeepsAgreement, Agreement!Spec
=============================================================================
