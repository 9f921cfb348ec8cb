------------------------- MODULE UsbSuspend_proofs -------------------------
(***************************************************************************)
(* Proofs about UsbSuspend, for every number of blocks the bus has and     *)
(* however far untaken releases raise the semaphore.                       *)
(*                                                                         *)
(* IInv is inductive.  MutexInv follows from what each step does with the  *)
(* semaphore: it takes it, gives it back, or enters no region.  SleepInv,  *)
(* the handshake with the device, needs no lock; SuspendInv says what the  *)
(* device and the core do along onebox_usb_suspend and onebox_usb_resume,  *)
(* and carries SomethingResumes.                                           *)
(***************************************************************************)
EXTENDS UsbSuspend, TLAPS

USE ConstantsAssumption
USE DEF common, access, usb, timer, vars

-----------------------------------------------------------------------------
\* Type correctness

\* The flags, one step at a time.
LEMMA WlanFlags ==
  ASSUME FlagsOK, WlanStep
  PROVE  FlagsOK'
<1>1. CASE WlanAsk
  BY <1>1 DEF FlagsOK, WlanAsk
<1>2. CASE WlanHas
  BY <1>2 DEF FlagsOK, WlanHas
<1>3. CASE WlanLock
  BY <1>3 DEF FlagsOK, WlanLock
<1>4. CASE WlanKick
  BY <1>4 DEF FlagsOK, WlanKick
<1>5. CASE WlanRelease
  BY <1>5 DEF FlagsOK, WlanRelease
<1>6. CASE WlanArm
  BY <1>6 DEF FlagsOK, WlanArm
<1>7. CASE WlanWait
  BY <1>7 DEF FlagsOK, WlanWait
<1>8. CASE WlanSend
  BY <1>8 DEF FlagsOK, WlanSend
<1>9. CASE WlanWrite
  BY <1>9 DEF FlagsOK, WlanWrite
<1>10. CASE WlanSent
  <2>1. tx_intention' \in BOOLEAN /\ tx_access' \in BOOLEAN
    BY <1>10 DEF FlagsOK, WlanSent
  <2> QED
    BY <1>10, <2>1 DEF FlagsOK, WlanSent
<1>11. CASE WlanTest
  <2>1. tx_access' \in BOOLEAN
    BY <1>11 DEF FlagsOK, WlanTest
  <2> QED
    BY <1>11, <2>1 DEF FlagsOK, WlanTest
<1>12. CASE WlanDropUpdate
  <2>1. ulp_sleep_ack_sent' \in BOOLEAN /\ ack_queued' \in BOOLEAN
    BY <1>12 DEF FlagsOK, WlanDropUpdate, send_ulp_sleep_ack
  <2> QED
    BY <1>12, <2>1 DEF FlagsOK, WlanDropUpdate
<1> QED
  BY <1>1, <1>2, <1>3, <1>4, <1>5, <1>6, <1>7, <1>8, <1>9, <1>10, <1>11, <1>12
     DEF WlanStep

LEMMA ExitFlags ==
  ASSUME FlagsOK, NEW t \in {"worker", "pm"}, ExitStep(t)
  PROVE  FlagsOK'
<1>1. CASE ExitLock(t)
  BY <1>1 DEF FlagsOK, ExitLock
<1>2. CASE ExitOpen(t)
  BY <1>2 DEF FlagsOK, ExitOpen
<1>3. CASE ExitGrant(t)
  <2>1. tx_access' \in BOOLEAN
    BY <1>3 DEF FlagsOK, ExitGrant
  <2> QED
    BY <1>3, <2>1 DEF FlagsOK, ExitGrant
<1> QED
  BY <1>1, <1>2, <1>3 DEF ExitStep

LEMMA DeviceFlags ==
  ASSUME FlagsOK,
         TxDone \/ SleepEntry \/ AckWritten \/ AckClosesBus \/ DeviceWakes
           \/ PsRequest
  PROVE  FlagsOK'
<1>1. CASE TxDone
  BY <1>1 DEF FlagsOK, TxDone
<1>2. CASE AckWritten
  BY <1>2 DEF FlagsOK, AckWritten
<1>3. CASE DeviceWakes
  BY <1>3 DEF FlagsOK, DeviceWakes
<1>4. CASE PsRequest
  BY <1>4 DEF FlagsOK, PsRequest
<1>5. CASE SleepEntry
  <2>1. common_hal_tx_access' \in BOOLEAN /\ ulp_sleep_ack_sent' \in BOOLEAN
    BY <1>5 DEF FlagsOK, SleepEntry, send_ulp_sleep_ack
  <2>2. ack_queued' \in BOOLEAN
    BY <1>5 DEF FlagsOK, SleepEntry, send_ulp_sleep_ack
  <2>3. tx_access' \in BOOLEAN /\ deregister_flags' \in BOOLEAN
    BY <1>5 DEF FlagsOK, SleepEntry
  <2> QED
    BY <1>5, <2>1, <2>2, <2>3 DEF FlagsOK, SleepEntry
<1>6. CASE AckClosesBus
  <2>1. /\ common_hal_tx_access' \in BOOLEAN
        /\ ulp_sleep_ack_sent' \in BOOLEAN
    BY <1>6 DEF FlagsOK, AckClosesBus
  <2> QED
    BY <1>6, <2>1 DEF FlagsOK, AckClosesBus
<1> QED
  BY <1>1, <1>2, <1>3, <1>4, <1>5, <1>6

LEMMA SuspendFlags ==
  ASSUME FlagsOK, SuspendCall \/ SuspendOff \/ SuspendStep
  PROVE  FlagsOK'
<1>1. CASE SuspendCall
  BY <1>1 DEF FlagsOK, SuspendCall
<1>2. CASE SuspendOff
  BY <1>2 DEF FlagsOK, SuspendOff
<1>3. CASE SuspendLock
  BY <1>3 DEF FlagsOK, SuspendLock
<1>4. CASE SuspendTest
  BY <1>4 DEF FlagsOK, SuspendTest
<1>5. CASE SuspendBusy
  BY <1>5, ZenonT(60) DEF FlagsOK, SuspendBusy
<1>6. CASE SuspendAccept
  BY <1>6 DEF FlagsOK, SuspendAccept
<1>7. CASE SuspendClose
  BY <1>7 DEF FlagsOK, SuspendClose
<1>8. CASE SuspendRelease
  BY <1>8 DEF FlagsOK, SuspendRelease
<1>9. CASE SuspendFlag
  BY <1>9 DEF FlagsOK, SuspendFlag
<1>10. CASE SuspendTimer
  BY <1>10 DEF FlagsOK, SuspendTimer
<1>11. CASE SuspendLeak
  <2>1. rx_urbs' \in BOOLEAN
    BY <1>11 DEF FlagsOK, SuspendLeak
  <2> QED
    BY <1>11, <2>1 DEF FlagsOK, SuspendLeak
<1> QED
  BY <1>1, <1>2, <1>3, <1>4, <1>5, <1>6, <1>7, <1>8, <1>9, <1>10, <1>11 DEF
     SuspendStep

LEMMA ResumeFlags ==
  ASSUME FlagsOK, TimerFires \/ ResumeStep
  PROVE  FlagsOK'
<1>1. CASE ResumeCall
  BY <1>1 DEF FlagsOK, ResumeCall
<1>2. CASE ResumeLock
  BY <1>2 DEF FlagsOK, ResumeLock
<1>3. CASE ResumeFails
  BY <1>3 DEF FlagsOK, ResumeFails
<1>4. CASE ResumeOpen
  BY <1>4 DEF FlagsOK, ResumeOpen
<1>5. CASE TimerFires
  <2>1. resume_wanted' \in BOOLEAN
    BY <1>5 DEF FlagsOK, TimerFires, StaysDown, CanWant
  <2> QED
    BY <1>5, <2>1 DEF FlagsOK, TimerFires
<1> QED
  BY <1>1, <1>2, <1>3, <1>4, <1>5 DEF ResumeStep

LEMMA FlagsStep ==
  ASSUME FlagsOK, [Next]_vars
  PROVE  FlagsOK'
<1>1. CASE UNCHANGED vars
  BY <1>1 DEF FlagsOK
<1> QED
  BY <1>1, WlanFlags, ExitFlags, DeviceFlags, SuspendFlags, ResumeFlags
     DEF Next

\* The counters.
LEMMA CountsStep ==
  ASSUME CountsOK, [Next]_vars
  PROVE  CountsOK'
<1> USE DEF CountsOK, Acquire, Release
<1>1. CASE WlanStep
  BY <1>1 DEF WlanStep, WlanAsk, WlanHas, WlanLock, WlanTest, WlanKick,
     WlanRelease, WlanArm, WlanWait, WlanSend, WlanWrite, WlanSent,
     WlanDropUpdate
<1>2. ASSUME NEW t \in {"worker", "pm"}, ExitStep(t)
      PROVE  CountsOK'
  BY <1>2 DEF ExitStep, ExitLock, ExitOpen, ExitGrant
<1>3. CASE TxDone \/ SleepEntry \/ AckWritten \/ AckClosesBus \/ DeviceWakes
             \/ PsRequest
  BY <1>3 DEF TxDone, SleepEntry, AckWritten, AckClosesBus, DeviceWakes,
     PsRequest
<1>4. CASE SuspendCall \/ SuspendOff \/ SuspendStep
  BY <1>4 DEF SuspendStep, SuspendCall, SuspendOff, SuspendLock, SuspendTest,
     SuspendLeak, SuspendBusy, SuspendAccept, SuspendClose, SuspendRelease,
     SuspendFlag, SuspendTimer
<1>5. CASE TimerFires \/ ResumeStep
  BY <1>5 DEF ResumeStep, TimerFires, ResumeCall, ResumeLock, ResumeFails,
     ResumeOpen
<1>6. CASE UNCHANGED vars
  BY <1>6
<1> QED
  BY <1>1, <1>2, <1>3, <1>4, <1>5, <1>6 DEF Next

\* The timer, the core, the device and the history.
LEMMA StatesStep ==
  ASSUME StatesOK, [Next]_vars
  PROVE  StatesOK'
<1> USE DEF StatesOK
<1>1. CASE WlanStep
  BY <1>1 DEF WlanStep, WlanAsk, WlanHas, WlanLock, WlanTest, WlanKick,
     WlanRelease, WlanArm, WlanWait, WlanSend, WlanWrite, WlanSent,
     WlanDropUpdate
<1>2. ASSUME NEW t \in {"worker", "pm"}, ExitStep(t)
      PROVE  StatesOK'
  BY <1>2 DEF ExitStep, ExitLock, ExitOpen, ExitGrant, Exited
<1>3. CASE TxDone \/ SleepEntry \/ AckWritten \/ AckClosesBus \/ DeviceWakes
             \/ PsRequest
  BY <1>3 DEF TxDone, SleepEntry, AckWritten, AckClosesBus, DeviceWakes,
     PsRequest
<1>4. CASE SuspendCall \/ SuspendOff \/ SuspendStep
  BY <1>4 DEF SuspendStep, SuspendCall, SuspendOff, SuspendLock, SuspendTest,
     SuspendLeak, SuspendBusy, SuspendAccept, SuspendClose, SuspendRelease,
     SuspendFlag, SuspendTimer
<1>5. CASE TimerFires \/ ResumeStep
  BY <1>5 DEF ResumeStep, TimerFires, ResumeCall, ResumeLock, ResumeFails,
     ResumeOpen
<1>6. CASE UNCHANGED vars
  BY <1>6
<1> QED
  BY <1>1, <1>2, <1>3, <1>4, <1>5, <1>6 DEF Next

-----------------------------------------------------------------------------
\* Where the threads are

USE DEF Goto, Threads, WlanPC, ExitPC, SuspendPC, ResumePC

\* Each step moves one thread at most, to a place of its own.
LEMMA WlanMoves ==
  ASSUME WlanStep
  PROVE  \E to \in WlanPC : pc' = [pc EXCEPT !["wlan"] = to]
BY DEF WlanStep, WlanAsk, WlanHas, WlanLock, WlanTest, WlanKick, WlanRelease,
   WlanArm, WlanWait, WlanSend, WlanWrite, WlanSent, WlanDropUpdate, Acquire,
   Release

LEMMA ExitMoves ==
  ASSUME NEW t \in {"worker", "pm"}, ExitStep(t)
  PROVE  \E to \in {"idle"} \cup ExitPC : pc' = [pc EXCEPT ![t] = to]
BY DEF ExitStep, ExitLock, ExitOpen, ExitGrant, Acquire, Release

LEMMA DeviceMoves ==
  ASSUME TxDone \/ SleepEntry \/ AckWritten \/ AckClosesBus \/ DeviceWakes
           \/ PsRequest
  PROVE  UNCHANGED pc \/ pc' = [pc EXCEPT !["worker"] = "exitLock"]
BY DEF TxDone, SleepEntry, AckWritten, AckClosesBus, DeviceWakes, PsRequest

LEMMA PmMoves ==
  ASSUME \/ SuspendCall \/ SuspendOff \/ SuspendStep
         \/ TimerFires \/ ResumeStep
  PROVE  \/ UNCHANGED pc
         \/ \E to \in {"idle", "exitLock"} \cup SuspendPC \cup ResumePC :
               pc' = [pc EXCEPT !["pm"] = to]
<1>1. CASE SuspendCall \/ SuspendOff \/ SuspendStep
  BY <1>1 DEF SuspendStep, SuspendCall, SuspendOff, SuspendLock, SuspendTest,
     SuspendLeak, SuspendBusy, SuspendAccept, SuspendClose, SuspendRelease,
     SuspendFlag, SuspendTimer, Acquire, Release
<1>2. CASE TimerFires \/ ResumeStep
  BY <1>2 DEF TimerFires, ResumeStep, ResumeCall, ResumeLock, ResumeFails,
     ResumeOpen, Acquire, Release
<1> QED
  BY <1>1, <1>2

LEMMA PlacesStep ==
  ASSUME PlacesOK, [Next]_vars
  PROVE  PlacesOK'
<1>1. CASE WlanStep
  BY <1>1, WlanMoves DEF PlacesOK
<1>2. ASSUME NEW t \in {"worker", "pm"}, ExitStep(t)
      PROVE  PlacesOK'
  BY <1>2, ExitMoves DEF PlacesOK
<1>3. CASE TxDone \/ SleepEntry \/ AckWritten \/ AckClosesBus \/ DeviceWakes
             \/ PsRequest
  BY <1>3, DeviceMoves DEF PlacesOK
<1>4. CASE \/ SuspendCall \/ SuspendOff \/ SuspendStep
           \/ TimerFires \/ ResumeStep
  BY <1>4, PmMoves DEF PlacesOK
<1>5. CASE UNCHANGED vars
  BY <1>5 DEF PlacesOK
<1> QED
  BY <1>1, <1>2, <1>3, <1>4, <1>5 DEF Next

LEMMA TypeStep ==
  ASSUME TypeOK, [Next]_vars
  PROVE  TypeOK'
BY FlagsStep, CountsStep, StatesStep, PlacesStep DEF TypeOK

-----------------------------------------------------------------------------
\* The lock

\* What a step does to it: nothing, and nobody enters a region ...
LEMMA MutexKept ==
  ASSUME CountsOK, MutexInv,
         "unpaired" \in mistakes => "unpaired" \in mistakes',
         "unpaired" \notin mistakes' => UNCHANGED tx_access_lock,
         Inside' \subseteq Inside
  PROVE  MutexInv'
BY DEF MutexInv, CountsOK

\* ... it is taken ...
LEMMA MutexTaken ==
  ASSUME CountsOK, PlacesOK, MutexInv, UNCHANGED mistakes,
         NEW t \in Threads, NEW from, NEW to, Acquire(t, from, to)
  PROVE  MutexInv'
<1>1. Inside' \subseteq Inside \cup {t}
  BY DEF Inside, Acquire, PlacesOK
<1> QED
  BY <1>1 DEF MutexInv, Acquire, CountsOK

\* ... or given back, by one who had it.
LEMMA MutexGiven ==
  ASSUME CountsOK, PlacesOK, MutexInv, mistakes \subseteq mistakes',
         NEW t \in Threads, NEW from \in Region, NEW to, to \notin Region,
         Release(t, from, to)
  PROVE  MutexInv'
<1>1. t \in Inside
  BY DEF Inside, Release
<1>2. Inside' = Inside \ {t}
  BY DEF Inside, Release, PlacesOK
<1> QED
  BY <1>1, <1>2 DEF MutexInv, Release, CountsOK

\* Between two places of a region, or outside of one, nobody enters.
LEMMA NobodyEnters ==
  ASSUME PlacesOK, NEW t \in Threads, NEW from, NEW to, Goto(t, from, to),
         to \in Region => from \in Region
  PROVE  Inside' \subseteq Inside
BY DEF Inside, PlacesOK

LEMMA NobodyMoves ==
  ASSUME UNCHANGED pc
  PROVE  Inside' = Inside
BY DEF Inside

LEMMA MutexWlan ==
  ASSUME CountsOK, PlacesOK, MutexInv, WlanStep
  PROVE  MutexInv'
<1> USE DEF Region
<1>1. CASE WlanLock
  BY <1>1, MutexTaken DEF WlanLock
<1>2. CASE WlanRelease
  BY <1>2, MutexGiven DEF WlanRelease
<1>3. CASE \/ WlanAsk \/ WlanHas \/ WlanTest \/ WlanKick \/ WlanArm \/ WlanWait
           \/ WlanSend \/ WlanWrite \/ WlanSent \/ WlanDropUpdate
  <2>1. Inside' \subseteq Inside
    BY <1>3, NobodyEnters DEF WlanAsk, WlanHas, WlanTest, WlanKick, WlanArm,
       WlanWait, WlanSend, WlanWrite, WlanSent, WlanDropUpdate
  <2>2. UNCHANGED <<tx_access_lock, mistakes>>
    BY <1>3 DEF WlanAsk, WlanHas, WlanTest, WlanKick, WlanArm, WlanWait,
       WlanSend, WlanWrite, WlanSent, WlanDropUpdate
  <2> QED
    BY <2>1, <2>2, MutexKept
<1> QED
  BY <1>1, <1>2, <1>3 DEF WlanStep

LEMMA MutexExit ==
  ASSUME CountsOK, PlacesOK, MutexInv,
         NEW t \in {"worker", "pm"}, ExitStep(t)
  PROVE  MutexInv'
<1> USE DEF Region
<1>1. CASE ExitLock(t)
  BY <1>1, MutexTaken DEF ExitLock
<1>2. CASE ExitOpen(t)
  <2>1. mistakes \subseteq mistakes'
    BY <1>2 DEF ExitOpen
  <2> QED
    BY <1>2, <2>1, MutexGiven DEF ExitOpen
<1>3. CASE ExitGrant(t)
  <2>1. Inside' \subseteq Inside
    BY <1>3 DEF ExitGrant, Inside, PlacesOK
  <2> QED
    BY <1>3, <2>1, MutexKept DEF ExitGrant
<1> QED
  BY <1>1, <1>2, <1>3 DEF ExitStep

LEMMA MutexDevice ==
  ASSUME CountsOK, PlacesOK, MutexInv,
         TxDone \/ SleepEntry \/ AckWritten \/ AckClosesBus \/ DeviceWakes
           \/ PsRequest
  PROVE  MutexInv'
<1>1. Inside' \subseteq Inside
  <2>1. CASE DeviceWakes
    BY <2>1 DEF DeviceWakes, Region, Inside, PlacesOK
  <2>2. CASE TxDone \/ SleepEntry \/ AckWritten \/ AckClosesBus \/ PsRequest
    BY <2>2, NobodyMoves
       DEF TxDone, SleepEntry, AckWritten, AckClosesBus, PsRequest
  <2> QED
    BY <2>1, <2>2
<1>2. UNCHANGED <<tx_access_lock, mistakes>>
  BY DEF TxDone, SleepEntry, AckWritten, AckClosesBus, DeviceWakes, PsRequest
<1> QED
  BY <1>1, <1>2, MutexKept

LEMMA MutexSuspend ==
  ASSUME CountsOK, PlacesOK, MutexInv,
         SuspendCall \/ SuspendOff \/ SuspendStep
  PROVE  MutexInv'
<1> USE DEF Region
<1>1. CASE SuspendLock
  BY <1>1, MutexTaken DEF SuspendLock
<1>2. CASE SuspendBusy
  BY <1>2, MutexGiven DEF SuspendBusy
<1>3. CASE SuspendRelease
  BY <1>3, MutexGiven DEF SuspendRelease
<1>4. CASE SuspendOff
  BY <1>4 DEF SuspendOff, MutexInv
<1>5. CASE SuspendLeak
  <2>1. Inside' \subseteq Inside
    BY <1>5, NobodyEnters DEF SuspendLeak
  <2> QED
    BY <1>5, <2>1, MutexKept DEF SuspendLeak
<1>6. CASE SuspendCall \/ SuspendTest \/ SuspendAccept \/ SuspendClose
             \/ SuspendFlag \/ SuspendTimer
  <2>1. Inside' \subseteq Inside
    BY <1>6, NobodyEnters DEF SuspendCall, SuspendTest, SuspendAccept,
       SuspendClose, SuspendFlag, SuspendTimer
  <2>2. UNCHANGED <<tx_access_lock, mistakes>>
    BY <1>6 DEF SuspendCall, SuspendTest, SuspendAccept, SuspendClose,
       SuspendFlag, SuspendTimer
  <2> QED
    BY <2>1, <2>2, MutexKept
<1> QED
  BY <1>1, <1>2, <1>3, <1>4, <1>5, <1>6 DEF SuspendStep

LEMMA MutexResume ==
  ASSUME CountsOK, PlacesOK, MutexInv, TimerFires \/ ResumeStep
  PROVE  MutexInv'
<1> USE DEF Region
<1>1. CASE ResumeLock
  BY <1>1, MutexTaken DEF ResumeLock
<1>2. CASE ResumeFails
  BY <1>2, MutexGiven DEF ResumeFails
<1>3. CASE ResumeOpen
  BY <1>3, MutexGiven DEF ResumeOpen
<1>4. CASE ResumeCall
  <2>1. Inside' \subseteq Inside
    BY <1>4, NobodyEnters DEF ResumeCall
  <2> QED
    BY <1>4, <2>1, MutexKept DEF ResumeCall
<1>5. CASE TimerFires
  BY <1>5, NobodyMoves, MutexKept DEF TimerFires
<1> QED
  BY <1>1, <1>2, <1>3, <1>4, <1>5 DEF ResumeStep

LEMMA MutexStep ==
  ASSUME CountsOK, PlacesOK, MutexInv, [Next]_vars
  PROVE  MutexInv'
<1>1. CASE UNCHANGED vars
  BY <1>1, NobodyMoves, MutexKept
<1> QED
  BY <1>1, MutexWlan, MutexExit, MutexDevice, MutexSuspend, MutexResume DEF Next

-----------------------------------------------------------------------------
\* The handshake with the device

LEMMA SleepWlan ==
  ASSUME FlagsOK, PlacesOK, SleepInv, WlanStep
  PROVE  SleepInv'
<1> USE DEF SleepInv, PlacesOK
<1>1. CASE WlanSend
  BY <1>1 DEF WlanSend
<1>2. CASE WlanDropUpdate
  BY <1>2 DEF WlanDropUpdate, send_ulp_sleep_ack
<1>3. CASE \/ WlanAsk \/ WlanHas \/ WlanTest \/ WlanKick \/ WlanArm \/ WlanWait
           \/ WlanLock \/ WlanRelease \/ WlanWrite \/ WlanSent
  BY <1>3 DEF WlanAsk, WlanHas, WlanTest, WlanKick, WlanArm, WlanWait, WlanLock,
     WlanRelease, WlanWrite, WlanSent, Acquire, Release
<1> QED
  BY <1>1, <1>2, <1>3 DEF WlanStep

LEMMA SleepExit ==
  ASSUME FlagsOK, PlacesOK, SleepInv,
         NEW t \in {"worker", "pm"}, ExitStep(t)
  PROVE  SleepInv'
<1> USE DEF SleepInv, PlacesOK
<1>1. CASE ExitLock(t)
  BY <1>1 DEF ExitLock, Acquire
<1>2. CASE ExitOpen(t)
  BY <1>2 DEF ExitOpen, Release
<1>3. CASE ExitGrant(t)
  BY <1>3 DEF ExitGrant
<1> QED
  BY <1>1, <1>2, <1>3 DEF ExitStep

LEMMA SleepDevice ==
  ASSUME FlagsOK, StatesOK, PlacesOK, SleepInv,
         TxDone \/ SleepEntry \/ AckWritten \/ AckClosesBus \/ DeviceWakes
           \/ PsRequest
  PROVE  SleepInv'
<1> USE DEF SleepInv, PlacesOK
<1>1. CASE TxDone
  BY <1>1 DEF TxDone
<1>2. CASE SleepEntry
  BY <1>2 DEF SleepEntry, send_ulp_sleep_ack
<1>3. CASE AckWritten
  BY <1>3 DEF AckWritten
<1>4. CASE AckClosesBus
  BY <1>4 DEF AckClosesBus
<1>5. CASE DeviceWakes
  BY <1>5 DEF DeviceWakes
<1>6. CASE PsRequest
  BY <1>6 DEF PsRequest
<1> QED
  BY <1>1, <1>2, <1>3, <1>4, <1>5, <1>6

LEMMA SleepSuspend ==
  ASSUME FlagsOK, PlacesOK, SleepInv,
         SuspendCall \/ SuspendOff \/ SuspendStep
  PROVE  SleepInv'
<1> USE DEF SleepInv, PlacesOK
<1>1. CASE SuspendClose
  BY <1>1 DEF SuspendClose
<1>2. CASE SuspendLeak
  BY <1>2 DEF SuspendLeak
<1>3. CASE SuspendOff
  BY <1>3 DEF SuspendOff
<1>4. CASE SuspendCall \/ SuspendLock \/ SuspendTest \/ SuspendBusy
  BY <1>4 DEF SuspendCall, SuspendLock, SuspendTest, SuspendBusy, Acquire,
     Release
<1>5. CASE SuspendAccept \/ SuspendRelease \/ SuspendFlag \/ SuspendTimer
  BY <1>5 DEF SuspendAccept, SuspendRelease, SuspendFlag, SuspendTimer, Release
<1> QED
  BY <1>1, <1>2, <1>3, <1>4, <1>5 DEF SuspendStep

\* A resume wakes a device that sleeps, and does not open the bus itself.
LEMMA SleepResume ==
  ASSUME FlagsOK, PlacesOK, SleepInv, SuspendInv, TimerFires \/ ResumeStep
  PROVE  SleepInv'
<1> USE DEF SleepInv, PlacesOK
<1>1. CASE TimerFires
  BY <1>1 DEF TimerFires
<1>2. CASE ResumeCall \/ ResumeLock \/ ResumeFails
  BY <1>2 DEF ResumeCall, ResumeLock, ResumeFails, Acquire, Release
<1>3. CASE ResumeOpen
  <2>1. fw = "asleep"
    BY <1>3 DEF ResumeOpen, Release, SuspendInv
  <2> QED
    BY <1>3, <2>1 DEF ResumeOpen, Release
<1> QED
  BY <1>1, <1>2, <1>3 DEF ResumeStep

LEMMA SleepStep ==
  ASSUME FlagsOK, StatesOK, PlacesOK, SleepInv, SuspendInv, [Next]_vars
  PROVE  SleepInv'
<1>1. CASE UNCHANGED vars
  BY <1>1 DEF SleepInv
<1> QED
  BY <1>1, SleepWlan, SleepExit, SleepDevice, SleepSuspend, SleepResume DEF Next

-----------------------------------------------------------------------------
\* Suspended, and resumed again

\* The WLAN thread only touches the timer: it arms it, or dies.
LEMMA SuspendedWlan ==
  ASSUME PlacesOK, SuspendInv, SomethingResumes, WlanStep
  PROVE  SuspendInv' /\ SomethingResumes'
<1>1. /\ UNCHANGED <<usb_intf_suspend, rx_urbs, fw, core, resume_wanted,
                      mistakes>>
      /\ usb_resume_timer' \in {usb_resume_timer, "armed"}
  BY DEF WlanStep, WlanAsk, WlanHas, WlanLock, WlanTest, WlanKick, WlanRelease,
     WlanArm, WlanWait, WlanSend, WlanWrite, WlanSent, WlanDropUpdate
<1>2. pc'["pm"] = pc["pm"]
  BY WlanMoves DEF PlacesOK
<1> QED
  BY <1>1, <1>2 DEF SuspendInv, SomethingResumes

LEMMA SuspendedExit ==
  ASSUME PlacesOK, SuspendInv, SomethingResumes,
         NEW t \in {"worker", "pm"}, ExitStep(t)
  PROVE  SuspendInv' /\ SomethingResumes'
<1> USE DEF SuspendInv, SomethingResumes, PlacesOK
<1>1. CASE ExitLock(t)
  BY <1>1 DEF ExitLock, Acquire
<1>2. CASE ExitOpen(t)
  BY <1>2 DEF ExitOpen, Release
<1>3. CASE ExitGrant(t)
  BY <1>3 DEF ExitGrant, Exited
<1> QED
  BY <1>1, <1>2, <1>3 DEF ExitStep

\* The device changes its mind only while its messages are read.
LEMMA SuspendedDevice ==
  ASSUME PlacesOK, SuspendInv, SomethingResumes,
         TxDone \/ SleepEntry \/ AckWritten \/ AckClosesBus \/ DeviceWakes
           \/ PsRequest
  PROVE  SuspendInv' /\ SomethingResumes'
<1> USE DEF SuspendInv, SomethingResumes, PlacesOK
<1>1. CASE TxDone \/ AckClosesBus \/ PsRequest
  BY <1>1 DEF TxDone, AckClosesBus, PsRequest
<1>2. CASE SleepEntry
  BY <1>2 DEF SleepEntry
<1>3. CASE AckWritten
  BY <1>3 DEF AckWritten
<1>4. CASE DeviceWakes
  BY <1>4 DEF DeviceWakes
<1> QED
  BY <1>1, <1>2, <1>3, <1>4

LEMMA SuspendedSuspend ==
  ASSUME PlacesOK, SuspendInv, SomethingResumes,
         SuspendCall \/ SuspendOff \/ SuspendStep
  PROVE  SuspendInv' /\ SomethingResumes'
<1> USE DEF SuspendInv, SomethingResumes, PlacesOK
<1>1. CASE SuspendCall \/ SuspendOff
  BY <1>1 DEF SuspendCall, SuspendOff
<1>2. CASE SuspendLock \/ SuspendTest \/ SuspendBusy
  BY <1>2 DEF SuspendLock, SuspendTest, SuspendBusy, Acquire, Release
<1>3. CASE SuspendLeak
  BY <1>3 DEF SuspendLeak
<1>4. CASE SuspendAccept \/ SuspendClose
  BY <1>4 DEF SuspendAccept, SuspendClose
<1>5. CASE SuspendRelease \/ SuspendFlag \/ SuspendTimer
  BY <1>5 DEF SuspendRelease, SuspendFlag, SuspendTimer, Release
<1> QED
  BY <1>1, <1>2, <1>3, <1>4, <1>5 DEF SuspendStep

LEMMA SuspendedResume ==
  ASSUME PlacesOK, SuspendInv, SomethingResumes, TimerFires \/ ResumeStep
  PROVE  SuspendInv' /\ SomethingResumes'
<1> USE DEF SuspendInv, SomethingResumes, PlacesOK
<1>1. CASE TimerFires
  BY <1>1 DEF TimerFires, CanWant
<1>2. CASE ResumeCall
  BY <1>2 DEF ResumeCall
<1>3. CASE ResumeLock
  BY <1>3 DEF ResumeLock, Acquire
<1>4. CASE ResumeFails
  BY <1>4 DEF ResumeFails, Release
<1>5. CASE ResumeOpen
  BY <1>5 DEF ResumeOpen, Release
<1> QED
  BY <1>1, <1>2, <1>3, <1>4, <1>5 DEF ResumeStep

LEMMA SuspendedStep ==
  ASSUME PlacesOK, SuspendInv, SomethingResumes, [Next]_vars
  PROVE  SuspendInv' /\ SomethingResumes'
<1>1. CASE UNCHANGED vars
  BY <1>1 DEF SuspendInv, SomethingResumes
<1> QED
  BY <1>1, SuspendedWlan, SuspendedExit, SuspendedDevice, SuspendedSuspend,
     SuspendedResume DEF Next

-----------------------------------------------------------------------------
\* IInv holds for every number of outstanding blocks and every bound of the
\* semaphore: the lock excludes until it is released untaken, and whenever the
\* interface is suspended the device sleeps and a timer or a queued resume is
\* there to end it (onebox_usb_suspend, onebox_usb_resume).
THEOREM Inductive == Spec => []IInv
<1>1. Init => IInv
  <2> SUFFICES ASSUME Init PROVE IInv
    OBVIOUS
  <2>1. FlagsOK /\ CountsOK /\ StatesOK /\ PlacesOK
    <3>1. FlagsOK
      BY DEF Init, FlagsOK
    <3>2. CountsOK /\ StatesOK
      BY DEF Init, CountsOK, StatesOK
    <3>3. PlacesOK
      BY DEF Init, PlacesOK
    <3> QED
      BY <3>1, <3>2, <3>3
  <2>2. MutexInv
    BY DEF Init, MutexInv, Inside, Region
  <2>3. SleepInv /\ SuspendInv /\ SomethingResumes
    BY DEF Init, SleepInv, SuspendInv, SomethingResumes
  <2> QED
    BY <2>1, <2>2, <2>3 DEF IInv, TypeOK
<1>2. IInv /\ [Next]_vars => IInv'
  BY TypeStep, MutexStep, SleepStep, SuspendedStep DEF IInv, TypeOK
<1> QED
  BY <1>1, <1>2, PTL DEF Spec

\* Nothing is written to a suspended interface ("WHY U came to write in
\* suspended state"), unless a resume wiped out a sleep request or the lock was
\* released untaken: the write finds the device not asleep, the flag finds it
\* asleep.
THEOREM SuspendedQuiet == Spec => []SuspendedIsQuiet
<1>1. IInv => SuspendedIsQuiet
  BY DEF IInv, SleepInv, SuspendInv, SuspendedIsQuiet
<1> QED
  BY <1>1, Inductive, PTL

\* A suspended interface always has a timer or a queued resume, if
\* onebox_usb_suspend has not fallen through with the lock.
THEOREM SuspendedResumes == Spec => []SomethingResumes
<1>1. IInv => SomethingResumes
  BY DEF IInv
<1> QED
  BY <1>1, Inductive, PTL
=============================================================================
