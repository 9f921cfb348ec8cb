------------------------- MODULE BootLoader_proofs -------------------------
(***************************************************************************)
(* Proofs about BootLoader, for images of any number of chunks.  BootsWhole *)
(* needs all of what IInv says of a load: that the answer the host reads is *)
(* the answer to its command (AskInv), that the device's CRC check and its  *)
(* erasing are what the host takes them for (CrcInv, EraseInv), and that    *)
(* the chunks the device holds, those burned and those in the two buffers,  *)
(* are the ones that were announced (FillInv).  One lemma for each part,    *)
(* one step for each action.                                                *)
(***************************************************************************)
EXTENDS BootLoader, TLAPS

USE ModesAssumption, NumFlashAssumption
USE DEF image, host, timer, regs, device, Goto, Return, bl_req, UpgradeFails,
        bl_cmd_start_timer, bl_cmd_stop_timer, MoreChunks, Chunks, Whole,
        TimerOnce
USE DEF AllModes, Labels, CommandLabels, CommandAt, Commands, Answers, Bad,
        NoAnswer, Burns, Buffers, Valid, Avail, Other, Target, Cmd, Good
USE DEF BurnLabels, FillLabels, AskLabels, Left, Idle, Empty, Steady,
        Waiting, Taken, Filled, Answered

-----------------------------------------------------------------------------
\* The load starts in the invariant.
LEMMA InitInv == Init => IInv
<1> SUFFICES ASSUME Init PROVE IInv
  OBVIOUS
<1>1. TypeOK
  <2>1. pending \in BOOLEAN /\ firing \in BOOLEAN /\ bl_timer_expired \in BOOLEAN
    BY Zenon DEF Init
  <2>2. num_flash \in Nat /\ last \in BOOLEAN
    BY Zenon DEF Init
  <2>3. QED
    BY <2>1, <2>2 DEF Init, TypeOK
<1>2. TimerInv
  BY DEF Init, TimerInv
<1>3. BoardInv
  BY DEF Init, BoardInv
<1>4. AskInv
  BY DEF Init, AskInv
<1>5. CrcInv
  BY DEF Init, CrcInv
<1>6. EraseInv
  BY DEF Init, EraseInv
<1>7. FillInv
  BY DEF Init, FillInv
<1>8. BootInv
  BY DEF Init, BootInv
<1>9. PathInv
  BY DEF Init, PathInv, Burning
<1>10. PipeInv
  BY DEF Init, PipeInv, TypeOK
<1>11. QED
  BY <1>1, <1>2, <1>3, <1>4, <1>5, <1>6, <1>7, <1>8, <1>9, <1>10 DEF IInv

-----------------------------------------------------------------------------
\* The three flags of the timer stay Booleans.
LEMMA TimerTypes ==
  ASSUME TypeOK, Next
  PROVE  pending' \in BOOLEAN /\ firing' \in BOOLEAN /\ bl_timer_expired' \in BOOLEAN
<1>1. CASE UNCHANGED timer
  BY <1>1 DEF TypeOK
<1>2. CASE bl_cmd_start_timer \/ bl_cmd_stop_timer
  BY <1>2 DEF TypeOK
<1>3. CASE Timer
  BY <1>3 DEF TypeOK, Timer, TimerFires, bl_cmd_timer_expired
<1>4. UNCHANGED timer \/ bl_cmd_start_timer \/ bl_cmd_stop_timer \/ Timer
  BY Zenon DEF Next, Host, Faults, Device, DeviceInit, ReadBoard,
     BoardReadFails, BoardPresent, BoardAbsent, ClearRegout, StartCommand,
     TimedOut, ReadFails, ReginFree, WriteRegin, RegoutValid, TakeAnswer,
     CommandPassed, CommandFailed, FlashCapacity, OneStep, LoadTaInstructions,
     VerifyFlash, StartUpgrade, WriteChunk, AllWritten, DevBoard, DevTake,
     DevFill, DevAnswer, DevBurn
<1>5. QED
  BY <1>1, <1>2, <1>3, <1>4

\* Every step keeps the types; the flags of the timer apart, being Booleans.
LEMMA TypeStep ==
  ASSUME IInv, Next
  PROVE  TypeOK'
<1>0. pending' \in BOOLEAN /\ firing' \in BOOLEAN /\ bl_timer_expired' \in BOOLEAN
  BY TimerTypes DEF IInv
<1>1. CASE DeviceInit
  BY <1>1, <1>0 DEF IInv, TypeOK, TimerInv, DeviceInit
<1>2. CASE ReadBoard
  BY <1>2, <1>0 DEF IInv, TypeOK, TimerInv, ReadBoard
<1>3. CASE BoardReadFails
  BY <1>3, <1>0 DEF IInv, TypeOK, TimerInv, BoardReadFails
<1>4. CASE BoardPresent
  BY <1>4, <1>0 DEF IInv, TypeOK, TimerInv, BoardPresent
<1>5. CASE BoardAbsent
  BY <1>5, <1>0 DEF IInv, TypeOK, TimerInv, BoardAbsent
<1>6. CASE ClearRegout
  BY <1>6, <1>0 DEF IInv, TypeOK, TimerInv, ClearRegout
<1>7. CASE StartCommand
  BY <1>7, <1>0 DEF IInv, TypeOK, TimerInv, StartCommand
<1>8. CASE TimedOut
  BY <1>8, <1>0 DEF IInv, TypeOK, TimerInv, TimedOut
<1>9. CASE ReadFails
  BY <1>9, <1>0 DEF IInv, TypeOK, TimerInv, ReadFails
<1>10. CASE ReginFree
  BY <1>10, <1>0 DEF IInv, TypeOK, TimerInv, ReginFree
<1>11. CASE WriteRegin
  BY <1>11, <1>0 DEF IInv, TypeOK, TimerInv, WriteRegin
<1>12. CASE RegoutValid
  BY <1>12, <1>0 DEF IInv, TypeOK, TimerInv, RegoutValid
<1>13. CASE TakeAnswer
  BY <1>13, <1>0 DEF IInv, TypeOK, TimerInv, TakeAnswer
<1>14. CASE CommandPassed
  BY <1>14, <1>0 DEF IInv, TypeOK, TimerInv, CommandPassed
<1>15. CASE CommandFailed
  BY <1>15, <1>0 DEF IInv, TypeOK, TimerInv, CommandFailed
<1>16. CASE FlashCapacity
  BY <1>16, <1>0 DEF IInv, TypeOK, TimerInv, FlashCapacity
<1>17. CASE OneStep
  BY <1>17, <1>0 DEF IInv, TypeOK, TimerInv, OneStep
<1>18. CASE LoadTaInstructions
  BY <1>18, <1>0 DEF IInv, TypeOK, TimerInv, LoadTaInstructions
<1>19. CASE VerifyFlash
  BY <1>19, <1>0 DEF IInv, TypeOK, TimerInv, VerifyFlash
<1>20. CASE StartUpgrade
  BY <1>20, <1>0 DEF IInv, TypeOK, TimerInv, StartUpgrade
<1>21. CASE WriteChunk
  BY <1>21, <1>0 DEF IInv, TypeOK, TimerInv, WriteChunk
<1>22. CASE AllWritten
  BY <1>22, <1>0 DEF IInv, TypeOK, TimerInv, AllWritten
<1>23. CASE TimerFires
  BY <1>23, <1>0 DEF IInv, TypeOK, TimerInv, TimerFires
<1>24. CASE bl_cmd_timer_expired
  BY <1>24, <1>0 DEF IInv, TypeOK, TimerInv, bl_cmd_timer_expired
<1>25. CASE DevBoard
  BY <1>25, <1>0 DEF IInv, TypeOK, TimerInv, DevBoard
<1>26. CASE DevTake
  BY <1>26, <1>0 DEF IInv, TypeOK, TimerInv, DevTake
<1>27. ASSUME NEW b \in Buffers, DevFill(b) PROVE TypeOK'
  BY <1>27, <1>0 DEF IInv, TypeOK, TimerInv, DevFill
<1>28. CASE DevAnswer
  BY <1>28, <1>0 DEF IInv, TypeOK, TimerInv, DevAnswer, DevReady
<1>29. CASE DevBurn
  BY <1>29, <1>0 DEF IInv, TypeOK, TimerInv, DevBurn
<1>30. QED
  BY <1>1, <1>2, <1>3, <1>4, <1>5, <1>6, <1>7, <1>8, <1>9, <1>10, <1>11,
     <1>12, <1>13, <1>14, <1>15, <1>16, <1>17, <1>18, <1>19, <1>20, <1>21,
     <1>22, <1>23, <1>24, <1>25, <1>26, <1>27, <1>28, <1>29 DEF Next, Host,
     Timer, Faults, Device

-----------------------------------------------------------------------------
\* Whoever leaves bl_write_cmd passes CommandPassed or CommandFailed, which
\* stop the timer; device_init stops it itself, or has seen it expire.
LEMMA TimerStep ==
  ASSUME IInv, Next
  PROVE  TimerInv'
<1>1. CASE DeviceInit
  BY <1>1 DEF IInv, TypeOK, TimerInv, DeviceInit
<1>2. CASE ReadBoard
  BY <1>2 DEF IInv, TypeOK, TimerInv, ReadBoard
<1>3. CASE BoardReadFails
  BY <1>3 DEF IInv, TypeOK, TimerInv, BoardReadFails
<1>4. CASE BoardPresent
  BY <1>4 DEF IInv, TypeOK, TimerInv, BoardPresent
<1>5. CASE BoardAbsent
  BY <1>5 DEF IInv, TypeOK, TimerInv, BoardAbsent
<1>6. CASE ClearRegout
  BY <1>6 DEF IInv, TypeOK, TimerInv, ClearRegout
<1>7. CASE StartCommand
  BY <1>7 DEF IInv, TypeOK, TimerInv, StartCommand
<1>8. CASE TimedOut
  BY <1>8 DEF IInv, TypeOK, TimerInv, TimedOut
<1>9. CASE ReadFails
  BY <1>9 DEF IInv, TypeOK, TimerInv, ReadFails
<1>10. CASE ReginFree
  BY <1>10 DEF IInv, TypeOK, TimerInv, ReginFree
<1>11. CASE WriteRegin
  BY <1>11 DEF IInv, TypeOK, TimerInv, WriteRegin
<1>12. CASE RegoutValid
  BY <1>12 DEF IInv, TypeOK, TimerInv, RegoutValid
<1>13. CASE TakeAnswer
  BY <1>13 DEF IInv, TypeOK, TimerInv, TakeAnswer
<1>14. CASE CommandPassed
  BY <1>14 DEF IInv, TypeOK, TimerInv, CommandPassed
<1>15. CASE CommandFailed
  BY <1>15 DEF IInv, TypeOK, TimerInv, CommandFailed
<1>16. CASE FlashCapacity
  BY <1>16 DEF IInv, TypeOK, TimerInv, FlashCapacity
<1>17. CASE OneStep
  BY <1>17 DEF IInv, TypeOK, TimerInv, OneStep
<1>18. CASE LoadTaInstructions
  BY <1>18 DEF IInv, TypeOK, TimerInv, LoadTaInstructions
<1>19. CASE VerifyFlash
  BY <1>19 DEF IInv, TypeOK, TimerInv, VerifyFlash
<1>20. CASE StartUpgrade
  BY <1>20 DEF IInv, TypeOK, TimerInv, StartUpgrade
<1>21. CASE WriteChunk
  BY <1>21 DEF IInv, TypeOK, TimerInv, WriteChunk
<1>22. CASE AllWritten
  BY <1>22 DEF IInv, TypeOK, TimerInv, AllWritten
<1>23. CASE TimerFires
  BY <1>23 DEF IInv, TypeOK, TimerInv, TimerFires
<1>24. CASE bl_cmd_timer_expired
  BY <1>24 DEF IInv, TypeOK, TimerInv, bl_cmd_timer_expired
<1>25. CASE DevBoard
  BY <1>25 DEF IInv, TypeOK, TimerInv, DevBoard
<1>26. CASE DevTake
  BY <1>26 DEF IInv, TypeOK, TimerInv, DevTake
<1>27. ASSUME NEW b \in Buffers, DevFill(b) PROVE TimerInv'
  BY <1>27 DEF IInv, TypeOK, TimerInv, DevFill
<1>28. CASE DevAnswer
  BY <1>28 DEF IInv, TypeOK, TimerInv, DevAnswer, DevReady
<1>29. CASE DevBurn
  BY <1>29 DEF IInv, TypeOK, TimerInv, DevBurn
<1>30. QED
  BY <1>1, <1>2, <1>3, <1>4, <1>5, <1>6, <1>7, <1>8, <1>9, <1>10, <1>11,
     <1>12, <1>13, <1>14, <1>15, <1>16, <1>17, <1>18, <1>19, <1>20, <1>21,
     <1>22, <1>23, <1>24, <1>25, <1>26, <1>27, <1>28, <1>29 DEF Next, Host,
     Timer, Faults, Device

-----------------------------------------------------------------------------
\* The boot loader waits for its first command.
LEMMA BoardStep ==
  ASSUME IInv, Next
  PROVE  BoardInv'
<1>1. CASE DeviceInit
  BY <1>1 DEF IInv, TypeOK, TimerInv, BoardInv, DeviceInit
<1>2. CASE ReadBoard
  BY <1>2 DEF IInv, TypeOK, TimerInv, BoardInv, ReadBoard
<1>3. CASE BoardReadFails
  BY <1>3 DEF IInv, TypeOK, TimerInv, BoardInv, BoardReadFails
<1>4. CASE BoardPresent
  BY <1>4 DEF IInv, TypeOK, TimerInv, BoardInv, BoardPresent
<1>5. CASE BoardAbsent
  BY <1>5 DEF IInv, TypeOK, TimerInv, BoardInv, BoardAbsent
<1>6. CASE ClearRegout
  BY <1>6 DEF IInv, TypeOK, TimerInv, BoardInv, ClearRegout
<1>7. CASE StartCommand
  BY <1>7 DEF IInv, TypeOK, TimerInv, BoardInv, StartCommand
<1>8. CASE TimedOut
  BY <1>8 DEF IInv, TypeOK, TimerInv, BoardInv, TimedOut
<1>9. CASE ReadFails
  BY <1>9 DEF IInv, TypeOK, TimerInv, BoardInv, ReadFails
<1>10. CASE ReginFree
  BY <1>10 DEF IInv, TypeOK, TimerInv, BoardInv, ReginFree
<1>11. CASE WriteRegin
  BY <1>11 DEF IInv, TypeOK, TimerInv, BoardInv, WriteRegin
<1>12. CASE RegoutValid
  BY <1>12 DEF IInv, TypeOK, TimerInv, BoardInv, RegoutValid
<1>13. CASE TakeAnswer
  BY <1>13 DEF IInv, TypeOK, TimerInv, BoardInv, TakeAnswer
<1>14. CASE CommandPassed
  BY <1>14 DEF IInv, TypeOK, TimerInv, BoardInv, CommandPassed
<1>15. CASE CommandFailed
  BY <1>15 DEF IInv, TypeOK, TimerInv, BoardInv, CommandFailed
<1>16. CASE FlashCapacity
  BY <1>16 DEF IInv, TypeOK, TimerInv, BoardInv, FlashCapacity
<1>17. CASE OneStep
  BY <1>17 DEF IInv, TypeOK, TimerInv, BoardInv, OneStep
<1>18. CASE LoadTaInstructions
  BY <1>18 DEF IInv, TypeOK, TimerInv, BoardInv, LoadTaInstructions
<1>19. CASE VerifyFlash
  BY <1>19 DEF IInv, TypeOK, TimerInv, BoardInv, VerifyFlash
<1>20. CASE StartUpgrade
  BY <1>20 DEF IInv, TypeOK, TimerInv, BoardInv, StartUpgrade
<1>21. CASE WriteChunk
  BY <1>21 DEF IInv, TypeOK, TimerInv, BoardInv, WriteChunk
<1>22. CASE AllWritten
  BY <1>22 DEF IInv, TypeOK, TimerInv, BoardInv, AllWritten
<1>23. CASE TimerFires
  BY <1>23 DEF IInv, TypeOK, TimerInv, BoardInv, TimerFires
<1>24. CASE bl_cmd_timer_expired
  BY <1>24 DEF IInv, TypeOK, TimerInv, BoardInv, bl_cmd_timer_expired
<1>25. CASE DevBoard
  BY <1>25 DEF IInv, TypeOK, TimerInv, BoardInv, DevBoard
<1>26. CASE DevTake
  BY <1>26 DEF IInv, TypeOK, TimerInv, BoardInv, DevTake
<1>27. ASSUME NEW b \in Buffers, DevFill(b) PROVE BoardInv'
  BY <1>27 DEF IInv, TypeOK, TimerInv, BoardInv, DevFill
<1>28. CASE DevAnswer
  BY <1>28 DEF IInv, TypeOK, TimerInv, BoardInv, DevAnswer, DevReady
<1>29. CASE DevBurn
  BY <1>29 DEF IInv, TypeOK, TimerInv, BoardInv, DevBurn
<1>30. QED
  BY <1>1, <1>2, <1>3, <1>4, <1>5, <1>6, <1>7, <1>8, <1>9, <1>10, <1>11,
     <1>12, <1>13, <1>14, <1>15, <1>16, <1>17, <1>18, <1>19, <1>20, <1>21,
     <1>22, <1>23, <1>24, <1>25, <1>26, <1>27, <1>28, <1>29 DEF Next, Host,
     Timer, Faults, Device

-----------------------------------------------------------------------------
\* One command, one answer.  Only StartCommand enters bl_write_cmd, and only
\* from a place where nothing is under way.
LEMMA AskStep ==
  ASSUME IInv, Next
  PROVE  AskInv'
<1>1. CASE DeviceInit
  BY <1>1 DEF IInv, TypeOK, TimerInv, BoardInv, AskInv, CrcInv, DeviceInit
<1>2. CASE ReadBoard
  BY <1>2 DEF IInv, TypeOK, TimerInv, BoardInv, AskInv, CrcInv, ReadBoard
<1>3. CASE BoardReadFails
  BY <1>3 DEF IInv, TypeOK, TimerInv, BoardInv, AskInv, CrcInv, BoardReadFails
<1>4. CASE BoardPresent
  BY <1>4 DEF IInv, TypeOK, TimerInv, BoardInv, AskInv, CrcInv, BoardPresent
<1>5. CASE BoardAbsent
  BY <1>5 DEF IInv, TypeOK, TimerInv, BoardInv, AskInv, CrcInv, BoardAbsent
<1>6. CASE ClearRegout
  BY <1>6 DEF IInv, TypeOK, TimerInv, BoardInv, AskInv, CrcInv, ClearRegout
<1>7. CASE StartCommand
  BY <1>7 DEF IInv, TypeOK, TimerInv, BoardInv, AskInv, CrcInv, StartCommand
<1>8. CASE TimedOut
  BY <1>8 DEF IInv, TypeOK, TimerInv, BoardInv, AskInv, CrcInv, TimedOut
<1>9. CASE ReadFails
  BY <1>9 DEF IInv, TypeOK, TimerInv, BoardInv, AskInv, CrcInv, ReadFails
<1>10. CASE ReginFree
  BY <1>10 DEF IInv, TypeOK, TimerInv, BoardInv, AskInv, CrcInv, ReginFree
<1>11. CASE WriteRegin
  BY <1>11 DEF IInv, TypeOK, TimerInv, BoardInv, AskInv, CrcInv, WriteRegin
<1>12. CASE RegoutValid
  BY <1>12 DEF IInv, TypeOK, TimerInv, BoardInv, AskInv, CrcInv, RegoutValid
<1>13. CASE TakeAnswer
  BY <1>13 DEF IInv, TypeOK, TimerInv, BoardInv, AskInv, CrcInv, TakeAnswer
<1>14. CASE CommandPassed
  BY <1>14 DEF IInv, TypeOK, TimerInv, BoardInv, AskInv, CrcInv, CommandPassed
<1>15. CASE CommandFailed
  BY <1>15 DEF IInv, TypeOK, TimerInv, BoardInv, AskInv, CrcInv, CommandFailed
<1>16. CASE FlashCapacity
  BY <1>16 DEF IInv, TypeOK, TimerInv, BoardInv, AskInv, CrcInv, FlashCapacity
<1>17. CASE OneStep
  BY <1>17 DEF IInv, TypeOK, TimerInv, BoardInv, AskInv, CrcInv, OneStep
<1>18. CASE LoadTaInstructions
  BY <1>18 DEF IInv, TypeOK, TimerInv, BoardInv, AskInv, CrcInv,
     LoadTaInstructions
<1>19. CASE VerifyFlash
  BY <1>19 DEF IInv, TypeOK, TimerInv, BoardInv, AskInv, CrcInv, VerifyFlash
<1>20. CASE StartUpgrade
  BY <1>20 DEF IInv, TypeOK, TimerInv, BoardInv, AskInv, CrcInv, StartUpgrade
<1>21. CASE WriteChunk
  BY <1>21 DEF IInv, TypeOK, TimerInv, BoardInv, AskInv, CrcInv, WriteChunk
<1>22. CASE AllWritten
  BY <1>22 DEF IInv, TypeOK, TimerInv, BoardInv, AskInv, CrcInv, AllWritten
<1>23. CASE TimerFires
  BY <1>23 DEF IInv, TypeOK, TimerInv, BoardInv, AskInv, CrcInv, TimerFires
<1>24. CASE bl_cmd_timer_expired
  BY <1>24 DEF IInv, TypeOK, TimerInv, BoardInv, AskInv, CrcInv,
     bl_cmd_timer_expired
<1>25. CASE DevBoard
  BY <1>25 DEF IInv, TypeOK, TimerInv, BoardInv, AskInv, CrcInv, DevBoard
<1>26. CASE DevTake
  BY <1>26 DEF IInv, TypeOK, TimerInv, BoardInv, AskInv, CrcInv, BootInv,
     DevTake
<1>27. ASSUME NEW b \in Buffers, DevFill(b) PROVE AskInv'
  BY <1>27 DEF IInv, TypeOK, TimerInv, BoardInv, AskInv, CrcInv, DevFill
<1>28. CASE DevAnswer
  BY <1>28 DEF IInv, TypeOK, TimerInv, BoardInv, AskInv, CrcInv, DevAnswer,
     DevReady
<1>29. CASE DevBurn
  BY <1>29 DEF IInv, TypeOK, TimerInv, BoardInv, AskInv, CrcInv, DevBurn
<1>30. QED
  BY <1>1, <1>2, <1>3, <1>4, <1>5, <1>6, <1>7, <1>8, <1>9, <1>10, <1>11,
     <1>12, <1>13, <1>14, <1>15, <1>16, <1>17, <1>18, <1>19, <1>20, <1>21,
     <1>22, <1>23, <1>24, <1>25, <1>26, <1>27, <1>28, <1>29 DEF Next, Host,
     Timer, Faults, Device

-----------------------------------------------------------------------------
\* The check is answered by the device as the flash is, and nothing burns
\* between the answer and the boot.
LEMMA CrcStep ==
  ASSUME IInv, Next
  PROVE  CrcInv'
<1>1. CASE DeviceInit
  BY <1>1 DEF IInv, TypeOK, TimerInv, BoardInv, AskInv, CrcInv, EraseInv,
     DeviceInit
<1>2. CASE ReadBoard
  BY <1>2 DEF IInv, TypeOK, TimerInv, BoardInv, AskInv, CrcInv, EraseInv,
     ReadBoard
<1>3. CASE BoardReadFails
  BY <1>3 DEF IInv, TypeOK, TimerInv, BoardInv, AskInv, CrcInv, EraseInv,
     BoardReadFails
<1>4. CASE BoardPresent
  BY <1>4 DEF IInv, TypeOK, TimerInv, BoardInv, AskInv, CrcInv, EraseInv,
     BoardPresent
<1>5. CASE BoardAbsent
  BY <1>5 DEF IInv, TypeOK, TimerInv, BoardInv, AskInv, CrcInv, EraseInv,
     BoardAbsent
<1>6. CASE ClearRegout
  BY <1>6 DEF IInv, TypeOK, TimerInv, BoardInv, AskInv, CrcInv, EraseInv,
     ClearRegout
<1>7. CASE StartCommand
  BY <1>7 DEF IInv, TypeOK, TimerInv, BoardInv, AskInv, CrcInv, EraseInv,
     StartCommand
<1>8. CASE TimedOut
  BY <1>8 DEF IInv, TypeOK, TimerInv, BoardInv, AskInv, CrcInv, EraseInv,
     TimedOut
<1>9. CASE ReadFails
  BY <1>9 DEF IInv, TypeOK, TimerInv, BoardInv, AskInv, CrcInv, EraseInv,
     ReadFails
<1>10. CASE ReginFree
  BY <1>10 DEF IInv, TypeOK, TimerInv, BoardInv, AskInv, CrcInv, EraseInv,
     ReginFree
<1>11. CASE WriteRegin
  BY <1>11 DEF IInv, TypeOK, TimerInv, BoardInv, AskInv, CrcInv, EraseInv,
     WriteRegin
<1>12. CASE RegoutValid
  BY <1>12 DEF IInv, TypeOK, TimerInv, BoardInv, AskInv, CrcInv, EraseInv,
     RegoutValid
<1>13. CASE TakeAnswer
  BY <1>13 DEF IInv, TypeOK, TimerInv, BoardInv, AskInv, CrcInv, EraseInv,
     TakeAnswer
<1>14. CASE CommandPassed
  BY <1>14 DEF IInv, TypeOK, TimerInv, BoardInv, AskInv, CrcInv, EraseInv,
     CommandPassed
<1>15. CASE CommandFailed
  BY <1>15 DEF IInv, TypeOK, TimerInv, BoardInv, AskInv, CrcInv, EraseInv,
     CommandFailed
<1>16. CASE FlashCapacity
  BY <1>16 DEF IInv, TypeOK, TimerInv, BoardInv, AskInv, CrcInv, EraseInv,
     FlashCapacity
<1>17. CASE OneStep
  BY <1>17 DEF IInv, TypeOK, TimerInv, BoardInv, AskInv, CrcInv, EraseInv,
     OneStep
<1>18. CASE LoadTaInstructions
  BY <1>18 DEF IInv, TypeOK, TimerInv, BoardInv, AskInv, CrcInv, EraseInv,
     LoadTaInstructions
<1>19. CASE VerifyFlash
  BY <1>19 DEF IInv, TypeOK, TimerInv, BoardInv, AskInv, CrcInv, EraseInv,
     VerifyFlash
<1>20. CASE StartUpgrade
  BY <1>20 DEF IInv, TypeOK, TimerInv, BoardInv, AskInv, CrcInv, EraseInv,
     StartUpgrade
<1>21. CASE WriteChunk
  BY <1>21 DEF IInv, TypeOK, TimerInv, BoardInv, AskInv, CrcInv, EraseInv,
     WriteChunk
<1>22. CASE AllWritten
  BY <1>22 DEF IInv, TypeOK, TimerInv, BoardInv, AskInv, CrcInv, EraseInv,
     AllWritten
<1>23. CASE TimerFires
  BY <1>23 DEF IInv, TypeOK, TimerInv, BoardInv, AskInv, CrcInv, EraseInv,
     TimerFires
<1>24. CASE bl_cmd_timer_expired
  BY <1>24 DEF IInv, TypeOK, TimerInv, BoardInv, AskInv, CrcInv, EraseInv,
     bl_cmd_timer_expired
<1>25. CASE DevBoard
  BY <1>25 DEF IInv, TypeOK, TimerInv, BoardInv, AskInv, CrcInv, EraseInv,
     DevBoard
<1>26. CASE DevTake
  BY <1>26 DEF IInv, TypeOK, TimerInv, BoardInv, AskInv, CrcInv, EraseInv,
     DevTake
<1>27. ASSUME NEW b \in Buffers, DevFill(b) PROVE CrcInv'
  BY <1>27 DEF IInv, TypeOK, TimerInv, BoardInv, AskInv, CrcInv, EraseInv,
     DevFill
<1>28. CASE DevAnswer
  BY <1>28 DEF IInv, TypeOK, TimerInv, BoardInv, AskInv, CrcInv, EraseInv,
     DevAnswer, DevReady
<1>29. CASE DevBurn
  BY <1>29 DEF IInv, TypeOK, TimerInv, BoardInv, AskInv, CrcInv, EraseInv,
     DevBurn
<1>30. QED
  BY <1>1, <1>2, <1>3, <1>4, <1>5, <1>6, <1>7, <1>8, <1>9, <1>10, <1>11,
     <1>12, <1>13, <1>14, <1>15, <1>16, <1>17, <1>18, <1>19, <1>20, <1>21,
     <1>22, <1>23, <1>24, <1>25, <1>26, <1>27, <1>28, <1>29 DEF Next, Host,
     Timer, Faults, Device

-----------------------------------------------------------------------------
\* The request to burn erases the flash before it is answered.
LEMMA EraseStep ==
  ASSUME IInv, Next
  PROVE  EraseInv'
<1>1. CASE DeviceInit
  BY <1>1 DEF IInv, TypeOK, TimerInv, BoardInv, AskInv, CrcInv, EraseInv,
     DeviceInit
<1>2. CASE ReadBoard
  BY <1>2 DEF IInv, TypeOK, TimerInv, BoardInv, AskInv, CrcInv, EraseInv,
     ReadBoard
<1>3. CASE BoardReadFails
  BY <1>3 DEF IInv, TypeOK, TimerInv, BoardInv, AskInv, CrcInv, EraseInv,
     BoardReadFails
<1>4. CASE BoardPresent
  BY <1>4 DEF IInv, TypeOK, TimerInv, BoardInv, AskInv, CrcInv, EraseInv,
     BoardPresent
<1>5. CASE BoardAbsent
  BY <1>5 DEF IInv, TypeOK, TimerInv, BoardInv, AskInv, CrcInv, EraseInv,
     BoardAbsent
<1>6. CASE ClearRegout
  BY <1>6 DEF IInv, TypeOK, TimerInv, BoardInv, AskInv, CrcInv, EraseInv,
     ClearRegout
<1>7. CASE StartCommand
  BY <1>7 DEF IInv, TypeOK, TimerInv, BoardInv, AskInv, CrcInv, EraseInv,
     StartCommand
<1>8. CASE TimedOut
  BY <1>8 DEF IInv, TypeOK, TimerInv, BoardInv, AskInv, CrcInv, EraseInv,
     TimedOut
<1>9. CASE ReadFails
  BY <1>9 DEF IInv, TypeOK, TimerInv, BoardInv, AskInv, CrcInv, EraseInv,
     ReadFails
<1>10. CASE ReginFree
  BY <1>10 DEF IInv, TypeOK, TimerInv, BoardInv, AskInv, CrcInv, EraseInv,
     ReginFree
<1>11. CASE WriteRegin
  BY <1>11 DEF IInv, TypeOK, TimerInv, BoardInv, AskInv, CrcInv, EraseInv,
     WriteRegin
<1>12. CASE RegoutValid
  BY <1>12 DEF IInv, TypeOK, TimerInv, BoardInv, AskInv, CrcInv, EraseInv,
     RegoutValid
<1>13. CASE TakeAnswer
  BY <1>13 DEF IInv, TypeOK, TimerInv, BoardInv, AskInv, CrcInv, EraseInv,
     TakeAnswer
<1>14. CASE CommandPassed
  BY <1>14 DEF IInv, TypeOK, TimerInv, BoardInv, AskInv, CrcInv, EraseInv,
     CommandPassed
<1>15. CASE CommandFailed
  BY <1>15 DEF IInv, TypeOK, TimerInv, BoardInv, AskInv, CrcInv, EraseInv,
     CommandFailed
<1>16. CASE FlashCapacity
  BY <1>16 DEF IInv, TypeOK, TimerInv, BoardInv, AskInv, CrcInv, EraseInv,
     FlashCapacity
<1>17. CASE OneStep
  BY <1>17 DEF IInv, TypeOK, TimerInv, BoardInv, AskInv, CrcInv, EraseInv,
     OneStep
<1>18. CASE LoadTaInstructions
  BY <1>18 DEF IInv, TypeOK, TimerInv, BoardInv, AskInv, CrcInv, EraseInv,
     LoadTaInstructions
<1>19. CASE VerifyFlash
  BY <1>19 DEF IInv, TypeOK, TimerInv, BoardInv, AskInv, CrcInv, EraseInv,
     VerifyFlash
<1>20. CASE StartUpgrade
  BY <1>20 DEF IInv, TypeOK, TimerInv, BoardInv, AskInv, CrcInv, EraseInv,
     StartUpgrade
<1>21. CASE WriteChunk
  BY <1>21 DEF IInv, TypeOK, TimerInv, BoardInv, AskInv, CrcInv, EraseInv,
     WriteChunk
<1>22. CASE AllWritten
  BY <1>22 DEF IInv, TypeOK, TimerInv, BoardInv, AskInv, CrcInv, EraseInv,
     AllWritten
<1>23. CASE TimerFires
  BY <1>23 DEF IInv, TypeOK, TimerInv, BoardInv, AskInv, CrcInv, EraseInv,
     TimerFires
<1>24. CASE bl_cmd_timer_expired
  BY <1>24 DEF IInv, TypeOK, TimerInv, BoardInv, AskInv, CrcInv, EraseInv,
     bl_cmd_timer_expired
<1>25. CASE DevBoard
  BY <1>25 DEF IInv, TypeOK, TimerInv, BoardInv, AskInv, CrcInv, EraseInv,
     DevBoard
<1>26. CASE DevTake
  BY <1>26 DEF IInv, TypeOK, TimerInv, BoardInv, AskInv, CrcInv, EraseInv,
     DevTake
<1>27. ASSUME NEW b \in Buffers, DevFill(b) PROVE EraseInv'
  BY <1>27 DEF IInv, TypeOK, TimerInv, BoardInv, AskInv, CrcInv, EraseInv,
     DevFill
<1>28. CASE DevAnswer
  BY <1>28 DEF IInv, TypeOK, TimerInv, BoardInv, AskInv, CrcInv, EraseInv,
     DevAnswer, DevReady
<1>29. CASE DevBurn
  BY <1>29 DEF IInv, TypeOK, TimerInv, BoardInv, AskInv, CrcInv, EraseInv,
     DevBurn
<1>30. QED
  BY <1>1, <1>2, <1>3, <1>4, <1>5, <1>6, <1>7, <1>8, <1>9, <1>10, <1>11,
     <1>12, <1>13, <1>14, <1>15, <1>16, <1>17, <1>18, <1>19, <1>20, <1>21,
     <1>22, <1>23, <1>24, <1>25, <1>26, <1>27, <1>28, <1>29 DEF Next, Host,
     Timer, Faults, Device

-----------------------------------------------------------------------------
\* A chunk is counted in kk, then announced, then taken: the device always
\* has the chunks up to kk, at most two of them still in their buffers.
LEMMA FillStep ==
  ASSUME IInv, Next
  PROVE  FillInv'
<1>1. CASE DeviceInit
  BY <1>1 DEF IInv, TypeOK, TimerInv, BoardInv, AskInv, EraseInv, FillInv,
     DeviceInit
<1>2. CASE ReadBoard
  BY <1>2 DEF IInv, TypeOK, TimerInv, BoardInv, AskInv, EraseInv, FillInv,
     ReadBoard
<1>3. CASE BoardReadFails
  BY <1>3 DEF IInv, TypeOK, TimerInv, BoardInv, AskInv, EraseInv, FillInv,
     BoardReadFails
<1>4. CASE BoardPresent
  BY <1>4 DEF IInv, TypeOK, TimerInv, BoardInv, AskInv, EraseInv, FillInv,
     BoardPresent
<1>5. CASE BoardAbsent
  BY <1>5 DEF IInv, TypeOK, TimerInv, BoardInv, AskInv, EraseInv, FillInv,
     BoardAbsent
<1>6. CASE ClearRegout
  BY <1>6 DEF IInv, TypeOK, TimerInv, BoardInv, AskInv, EraseInv, FillInv,
     ClearRegout
<1>7. CASE StartCommand
  BY <1>7 DEF IInv, TypeOK, TimerInv, BoardInv, AskInv, EraseInv, FillInv,
     StartCommand
<1>8. CASE TimedOut
  BY <1>8 DEF IInv, TypeOK, TimerInv, BoardInv, AskInv, EraseInv, FillInv,
     TimedOut
<1>9. CASE ReadFails
  BY <1>9 DEF IInv, TypeOK, TimerInv, BoardInv, AskInv, EraseInv, FillInv,
     ReadFails
<1>10. CASE ReginFree
  BY <1>10 DEF IInv, TypeOK, TimerInv, BoardInv, AskInv, EraseInv, FillInv,
     ReginFree
<1>11. CASE WriteRegin
  BY <1>11 DEF IInv, TypeOK, TimerInv, BoardInv, AskInv, EraseInv, FillInv,
     WriteRegin
<1>12. CASE RegoutValid
  BY <1>12 DEF IInv, TypeOK, TimerInv, BoardInv, AskInv, EraseInv, FillInv,
     RegoutValid
<1>13. CASE TakeAnswer
  BY <1>13 DEF IInv, TypeOK, TimerInv, BoardInv, AskInv, EraseInv, FillInv,
     TakeAnswer
<1>14. CASE CommandPassed
  BY <1>14 DEF IInv, TypeOK, TimerInv, BoardInv, AskInv, EraseInv, FillInv,
     CommandPassed
<1>15. CASE CommandFailed
  BY <1>15 DEF IInv, TypeOK, TimerInv, BoardInv, AskInv, EraseInv, FillInv,
     CommandFailed
<1>16. CASE FlashCapacity
  BY <1>16 DEF IInv, TypeOK, TimerInv, BoardInv, AskInv, EraseInv, FillInv,
     FlashCapacity
<1>17. CASE OneStep
  BY <1>17 DEF IInv, TypeOK, TimerInv, BoardInv, AskInv, EraseInv, FillInv,
     OneStep
<1>18. CASE LoadTaInstructions
  BY <1>18 DEF IInv, TypeOK, TimerInv, BoardInv, AskInv, EraseInv, FillInv,
     LoadTaInstructions
<1>19. CASE VerifyFlash
  BY <1>19 DEF IInv, TypeOK, TimerInv, BoardInv, AskInv, EraseInv, FillInv,
     VerifyFlash
<1>20. CASE StartUpgrade
  BY <1>20 DEF IInv, TypeOK, TimerInv, BoardInv, AskInv, EraseInv, FillInv,
     StartUpgrade
<1>21. CASE WriteChunk
  BY <1>21 DEF IInv, TypeOK, TimerInv, BoardInv, AskInv, EraseInv, FillInv,
     WriteChunk
<1>22. CASE AllWritten
  <2>1. kk <= Chunks /\ ~MoreChunks /\ kk \in Nat /\ num_flash \in Nat
    BY <1>22 DEF IInv, TypeOK, TimerInv, FillInv, AllWritten
  <2>2. kk = Chunks
    BY <2>1
  <2>3. QED
    BY <1>22, <2>2 DEF IInv, TypeOK, TimerInv, FillInv, AllWritten
<1>23. CASE TimerFires
  BY <1>23 DEF IInv, TypeOK, TimerInv, BoardInv, AskInv, EraseInv, FillInv,
     TimerFires
<1>24. CASE bl_cmd_timer_expired
  BY <1>24 DEF IInv, TypeOK, TimerInv, BoardInv, AskInv, EraseInv, FillInv,
     bl_cmd_timer_expired
<1>25. CASE DevBoard
  BY <1>25 DEF IInv, TypeOK, TimerInv, BoardInv, AskInv, EraseInv, FillInv,
     DevBoard
<1>26. CASE DevTake
  BY <1>26 DEF IInv, TypeOK, TimerInv, BoardInv, AskInv, EraseInv, FillInv,
     DevTake
<1>27. ASSUME NEW b \in Buffers, DevFill(b) PROVE FillInv'
  BY <1>27 DEF IInv, TypeOK, TimerInv, BoardInv, AskInv, EraseInv, FillInv,
     DevFill
<1>28. CASE DevAnswer
  BY <1>28 DEF IInv, TypeOK, TimerInv, BoardInv, AskInv, EraseInv, FillInv,
     DevAnswer, DevReady
<1>29. CASE DevBurn
  BY <1>29 DEF IInv, TypeOK, TimerInv, BoardInv, AskInv, EraseInv, FillInv,
     DevBurn
<1>30. QED
  BY <1>1, <1>2, <1>3, <1>4, <1>5, <1>6, <1>7, <1>8, <1>9, <1>10, <1>11,
     <1>12, <1>13, <1>14, <1>15, <1>16, <1>17, <1>18, <1>19, <1>20, <1>21,
     <1>22, <1>23, <1>24, <1>25, <1>26, <1>27, <1>28, <1>29 DEF Next, Host,
     Timer, Faults, Device

-----------------------------------------------------------------------------
\* LOAD_IMAGE_CMD is reached after a check that was not answered with a
\* failure, or after the end of a burn.
LEMMA BootStep ==
  ASSUME IInv, Next
  PROVE  BootInv'
<1>1. CASE DeviceInit
  BY <1>1 DEF IInv, TypeOK, TimerInv, BoardInv, AskInv, CrcInv, FillInv,
     BootInv, DeviceInit
<1>2. CASE ReadBoard
  BY <1>2 DEF IInv, TypeOK, TimerInv, BoardInv, AskInv, CrcInv, FillInv,
     BootInv, ReadBoard
<1>3. CASE BoardReadFails
  BY <1>3 DEF IInv, TypeOK, TimerInv, BoardInv, AskInv, CrcInv, FillInv,
     BootInv, BoardReadFails
<1>4. CASE BoardPresent
  BY <1>4 DEF IInv, TypeOK, TimerInv, BoardInv, AskInv, CrcInv, FillInv,
     BootInv, BoardPresent
<1>5. CASE BoardAbsent
  BY <1>5 DEF IInv, TypeOK, TimerInv, BoardInv, AskInv, CrcInv, FillInv,
     BootInv, BoardAbsent
<1>6. CASE ClearRegout
  BY <1>6 DEF IInv, TypeOK, TimerInv, BoardInv, AskInv, CrcInv, FillInv,
     BootInv, ClearRegout
<1>7. CASE StartCommand
  BY <1>7 DEF IInv, TypeOK, TimerInv, BoardInv, AskInv, CrcInv, FillInv,
     BootInv, StartCommand
<1>8. CASE TimedOut
  BY <1>8 DEF IInv, TypeOK, TimerInv, BoardInv, AskInv, CrcInv, FillInv,
     BootInv, TimedOut
<1>9. CASE ReadFails
  BY <1>9 DEF IInv, TypeOK, TimerInv, BoardInv, AskInv, CrcInv, FillInv,
     BootInv, ReadFails
<1>10. CASE ReginFree
  BY <1>10 DEF IInv, TypeOK, TimerInv, BoardInv, AskInv, CrcInv, FillInv,
     BootInv, ReginFree
<1>11. CASE WriteRegin
  BY <1>11 DEF IInv, TypeOK, TimerInv, BoardInv, AskInv, CrcInv, FillInv,
     BootInv, WriteRegin
<1>12. CASE RegoutValid
  BY <1>12 DEF IInv, TypeOK, TimerInv, BoardInv, AskInv, CrcInv, FillInv,
     BootInv, RegoutValid
<1>13. CASE TakeAnswer
  BY <1>13 DEF IInv, TypeOK, TimerInv, BoardInv, AskInv, CrcInv, FillInv,
     BootInv, TakeAnswer
<1>14. CASE CommandPassed
  BY <1>14 DEF IInv, TypeOK, TimerInv, BoardInv, AskInv, CrcInv, FillInv,
     BootInv, CommandPassed
<1>15. CASE CommandFailed
  BY <1>15 DEF IInv, TypeOK, TimerInv, BoardInv, AskInv, CrcInv, FillInv,
     BootInv, CommandFailed
<1>16. CASE FlashCapacity
  BY <1>16 DEF IInv, TypeOK, TimerInv, BoardInv, AskInv, CrcInv, FillInv,
     BootInv, FlashCapacity
<1>17. CASE OneStep
  BY <1>17 DEF IInv, TypeOK, TimerInv, BoardInv, AskInv, CrcInv, FillInv,
     BootInv, OneStep
<1>18. CASE LoadTaInstructions
  BY <1>18 DEF IInv, TypeOK, TimerInv, BoardInv, AskInv, CrcInv, FillInv,
     BootInv, LoadTaInstructions
<1>19. CASE VerifyFlash
  BY <1>19 DEF IInv, TypeOK, TimerInv, BoardInv, AskInv, CrcInv, FillInv,
     BootInv, VerifyFlash
<1>20. CASE StartUpgrade
  BY <1>20 DEF IInv, TypeOK, TimerInv, BoardInv, AskInv, CrcInv, FillInv,
     BootInv, StartUpgrade
<1>21. CASE WriteChunk
  BY <1>21 DEF IInv, TypeOK, TimerInv, BoardInv, AskInv, CrcInv, FillInv,
     BootInv, WriteChunk
<1>22. CASE AllWritten
  BY <1>22 DEF IInv, TypeOK, TimerInv, BoardInv, AskInv, CrcInv, FillInv,
     BootInv, AllWritten
<1>23. CASE TimerFires
  BY <1>23 DEF IInv, TypeOK, TimerInv, BoardInv, AskInv, CrcInv, FillInv,
     BootInv, TimerFires
<1>24. CASE bl_cmd_timer_expired
  BY <1>24 DEF IInv, TypeOK, TimerInv, BoardInv, AskInv, CrcInv, FillInv,
     BootInv, bl_cmd_timer_expired
<1>25. CASE DevBoard
  BY <1>25 DEF IInv, TypeOK, TimerInv, BoardInv, AskInv, CrcInv, FillInv,
     BootInv, DevBoard
<1>26. CASE DevTake
  BY <1>26 DEF IInv, TypeOK, TimerInv, BoardInv, AskInv, CrcInv, FillInv,
     BootInv, DevTake
<1>27. ASSUME NEW b \in Buffers, DevFill(b) PROVE BootInv'
  BY <1>27 DEF IInv, TypeOK, TimerInv, BoardInv, AskInv, CrcInv, FillInv,
     BootInv, DevFill
<1>28. CASE DevAnswer
  BY <1>28 DEF IInv, TypeOK, TimerInv, BoardInv, AskInv, CrcInv, FillInv,
     BootInv, DevAnswer, DevReady
<1>29. CASE DevBurn
  BY <1>29 DEF IInv, TypeOK, TimerInv, BoardInv, AskInv, CrcInv, FillInv,
     BootInv, DevBurn
<1>30. QED
  BY <1>1, <1>2, <1>3, <1>4, <1>5, <1>6, <1>7, <1>8, <1>9, <1>10, <1>11,
     <1>12, <1>13, <1>14, <1>15, <1>16, <1>17, <1>18, <1>19, <1>20, <1>21,
     <1>22, <1>23, <1>24, <1>25, <1>26, <1>27, <1>28, <1>29 DEF Next, Host,
     Timer, Faults, Device

-----------------------------------------------------------------------------
\* The ways to load part at the check, and only one of them burns.
LEMMA PathStep ==
  ASSUME IInv, Next
  PROVE  PathInv'
<1> USE DEF IInv, TypeOK, TimerInv, BoardInv, AskInv, EraseInv, CrcInv,
        FillInv, BootInv, PathInv, Burning
<1>1. CASE DeviceInit \/ ReadBoard \/ BoardReadFails \/ BoardPresent \/ BoardAbsent
  BY <1>1 DEF DeviceInit, ReadBoard, BoardReadFails, BoardPresent, BoardAbsent
<1>2. CASE ClearRegout
  BY <1>2 DEF ClearRegout
<1>3. CASE \/ StartCommand \/ TimedOut \/ ReadFails \/ ReginFree \/ RegoutValid
           \/ Timer
  BY <1>3 DEF StartCommand, TimedOut, ReadFails, ReginFree, RegoutValid, Timer,
     TimerFires, bl_cmd_timer_expired
<1>4. CASE WriteRegin
  BY <1>4 DEF WriteRegin
<1>5. CASE TakeAnswer
  BY <1>5 DEF TakeAnswer
<1>6. CASE CommandPassed
  BY <1>6 DEF CommandPassed
<1>7. CASE CommandFailed
  BY <1>7 DEF CommandFailed
<1>8. CASE FlashCapacity \/ OneStep \/ LoadTaInstructions \/ VerifyFlash
  BY <1>8 DEF FlashCapacity, OneStep, LoadTaInstructions, VerifyFlash
<1>9. CASE StartUpgrade \/ WriteChunk \/ AllWritten
  BY <1>9 DEF StartUpgrade, WriteChunk, AllWritten
<1>10. CASE DevBoard \/ DevAnswer \/ DevBurn
  BY <1>10 DEF DevBoard, DevAnswer, DevBurn
<1>11. CASE DevTake
  BY <1>11 DEF DevTake
<1>12. ASSUME NEW b \in Buffers, DevFill(b) PROVE PathInv'
  BY <1>12 DEF DevFill
<1>13. QED
  BY <1>1, <1>2, <1>3, <1>4, <1>5, <1>6, <1>7, <1>8, <1>9, <1>10, <1>11, <1>12
     DEF Next, Host, Faults, Device

\* The host announces the chunk behind those the device has, in a buffer that
\* is not in use; the device takes it, or burns the oldest.
LEMMA PipeStep ==
  ASSUME IInv, Next
  PROVE  PipeInv'
<1> USE DEF IInv, TypeOK, TimerInv, PipeInv
<1>1. CASE DeviceInit \/ ReadBoard \/ BoardReadFails \/ BoardPresent \/ BoardAbsent
  BY <1>1 DEF DeviceInit, ReadBoard, BoardReadFails, BoardPresent, BoardAbsent
<1>2. CASE ClearRegout
  BY <1>2 DEF ClearRegout
<1>3. CASE \/ StartCommand \/ TimedOut \/ ReadFails \/ ReginFree \/ RegoutValid
           \/ TakeAnswer \/ Timer
  BY <1>3 DEF StartCommand, TimedOut, ReadFails, ReginFree, RegoutValid,
     TakeAnswer, Timer, TimerFires, bl_cmd_timer_expired
<1>4. CASE WriteRegin
  BY <1>4 DEF WriteRegin, AskInv, EraseInv, FillInv, BootInv, PathInv, CrcInv
<1>5. CASE CommandPassed \/ CommandFailed
  BY <1>5 DEF CommandPassed, CommandFailed
<1>6. CASE FlashCapacity \/ OneStep \/ LoadTaInstructions \/ VerifyFlash
  BY <1>6 DEF FlashCapacity, OneStep, LoadTaInstructions, VerifyFlash
<1>7. CASE StartUpgrade \/ AllWritten
  BY <1>7 DEF StartUpgrade, AllWritten
<1>8. CASE WriteChunk
  BY <1>8 DEF WriteChunk, AskInv, FillInv
<1>9. CASE DevBoard \/ DevAnswer
  BY <1>9 DEF DevBoard, DevAnswer
<1>10. CASE DevTake
  BY <1>10 DEF DevTake
<1>11. ASSUME NEW b \in Buffers, DevFill(b) PROVE PipeInv'
  <2>1. /\ b \notin {now, next} /\ buffer[b] = Taken /\ Taken < Chunks
        /\ sbl = "up" /\ booted = "none" /\ regin' = "none"
        /\ UNCHANGED <<sbl, booted, flashed, buffer, image, label, status>>
    BY <1>11 DEF DevFill
  <2>2. CASE now = "none"
    <3>1. now' = b /\ next' = "none" /\ next = "none"
      BY <1>11, <2>2 DEF DevFill, FillInv
    <3>2. QED
      BY <2>1, <2>2, <3>1
  <2>3. CASE now # "none"
    <3>1. now' = now /\ next' = b
      BY <1>11, <2>3 DEF DevFill
    <3>2. next = "none"
      BY <2>1, <2>3
    <3>3. QED
      BY <2>1, <2>3, <3>1, <3>2
  <2>4. QED
    BY <2>2, <2>3
<1>12. CASE DevBurn
  BY <1>12 DEF DevBurn
<1>13. QED
  BY <1>1, <1>2, <1>3, <1>4, <1>5, <1>6, <1>7, <1>8, <1>9, <1>10, <1>11, <1>12
     DEF Next, Host, Faults, Device

-----------------------------------------------------------------------------
\* A step that changes nothing keeps everything.
LEMMA StutterInv ==
  ASSUME IInv, UNCHANGED vars
  PROVE  IInv'
BY DEF vars, IInv, TypeOK, TimerInv, BoardInv, AskInv, CrcInv, EraseInv,
   FillInv, BootInv, PathInv, PipeInv, Burning

\* IInv is an invariant of every load: the types, the timer that is neither
\* armed twice nor left behind, and the agreement of host and boot loader.
THEOREM Inductive == Spec => []IInv
<1>1. IInv /\ [Next]_vars => IInv'
  <2> SUFFICES ASSUME IInv, [Next]_vars PROVE IInv'
    OBVIOUS
  <2>1. CASE Next
    BY <2>1, TypeStep, TimerStep, BoardStep, AskStep, CrcStep, EraseStep,
       FillStep, BootStep, PathStep, PipeStep DEF IInv
  <2>2. CASE UNCHANGED vars
    BY <2>2, StutterInv
  <2>3. QED
    BY <2>1, <2>2
<1>2. QED
  BY InitInv, <1>1, PTL DEF Spec

\* The variables keep their types.
THEOREM TypeCorrect == Spec => []TypeOK
<1>1. IInv => TypeOK
  BY DEF IInv
<1>2. QED
  BY Inductive, <1>1, PTL

\* Unless the CRC check was left without a clear answer, the device boots from
\* flash only an image that is whole.
THEOREM BootsWholeTheorem == Spec => []BootsWhole
<1>1. IInv => BootsWhole
  BY DEF IInv, BootInv, BootsWhole
<1>2. QED
  BY Inductive, <1>1, PTL

\* The host never writes into a buffer that the device still burns.
THEOREM BufferFreeTheorem == Spec => []BufferFree
<1>1. IInv => BufferFree
  BY DEF IInv, FillInv, BufferFree
<1>2. QED
  BY Inductive, <1>1, PTL

\* bl_timer is never armed while it is on the kernel's list, and device_init
\* does not leave it there.
THEOREM TimerOnceTheorem == Spec => []TimerOnce
<1>1. IInv => TimerOnce
  BY DEF IInv, TimerInv
<1>2. QED
  BY Inductive, <1>1, PTL

-----------------------------------------------------------------------------
\* The burning of an image in order

USE DEF Load!vars, Load!Next, Load!Whole, Load!MayBurn

\* What ImageBurn sees of the state.
shown == <<image, crc, flashed, now, next, booted, status>>

\* Nothing that is seen changes.
LEMMA LoadSame ==
  ASSUME UNCHANGED shown
  PROVE  UNCHANGED Load!vars
BY DEF shown

\* The end of the load is reported once; SUCCESS after a check that failed
\* comes from LOAD_IMAGE_CMD only.
LEMMA LoadReports ==
  ASSUME IInv, label # "done",
         status' \in {"SUCCESS", "FAILURE"},
         status' = "SUCCESS" /\ crc = "fail" => Whole /\ Empty,
         UNCHANGED <<image, crc, flashed, now, next, booted>>
  PROVE  Load!Next
BY DEF IInv, PipeInv, Load!Report

\* The host's steps: the verdict of the check, the report, or nothing.
LEMMA LoadHost ==
  ASSUME IInv, Host
  PROVE  [Load!Next]_(Load!vars)
<1> USE DEF IInv, TypeOK, TimerInv
<1>1. CASE \/ ReadBoard \/ StartCommand \/ TimedOut \/ ReginFree \/ WriteRegin
           \/ RegoutValid \/ WriteChunk \/ AllWritten
  <2>1. CASE WriteChunk
    <3>1. UNCHANGED shown \/ (label = "data" /\ status' = "FAILURE"
                              /\ UNCHANGED <<image, crc, flashed, now, next, booted>>)
      BY <2>1 DEF WriteChunk, shown
    <3>2. QED
      BY <3>1, LoadSame, LoadReports
  <2>2. CASE ~WriteChunk
    <3>1. UNCHANGED shown
      BY <1>1, <2>2 DEF ReadBoard, StartCommand, TimedOut, ReginFree, WriteRegin,
         RegoutValid, AllWritten, shown
    <3>2. QED
      BY <3>1, LoadSame
  <2>3. QED
    BY <2>1, <2>2
<1>2. CASE \/ DeviceInit \/ BoardPresent \/ BoardAbsent \/ ClearRegout
           \/ FlashCapacity \/ OneStep \/ LoadTaInstructions \/ VerifyFlash
           \/ StartUpgrade
  <2>1. /\ UNCHANGED <<image, crc, flashed, now, next, booted>>
        /\ label # "done"
    BY <1>2 DEF DeviceInit, BoardPresent, BoardAbsent, ClearRegout,
       FlashCapacity, OneStep, LoadTaInstructions, VerifyFlash, StartUpgrade
  <2>2. UNCHANGED status \/ status' \in {"SUCCESS", "FAILURE"}
    BY <1>2 DEF DeviceInit, BoardPresent, BoardAbsent, ClearRegout,
       FlashCapacity, OneStep, LoadTaInstructions, VerifyFlash, StartUpgrade
  <2>3. status' = "SUCCESS" /\ status # "SUCCESS" => crc # "fail"
    BY <1>2 DEF DeviceInit, BoardPresent, BoardAbsent, ClearRegout,
       FlashCapacity, OneStep, LoadTaInstructions, VerifyFlash, StartUpgrade,
       BoardInv, CrcInv, PathInv
  <2>4. QED
    BY <2>1, <2>2, <2>3, LoadSame, LoadReports DEF shown, PipeInv
<1>3. CASE TakeAnswer
  <2>1. CASE UNCHANGED crc
    BY <1>3, <2>1, LoadSame DEF TakeAnswer, shown
  <2>2. CASE crc' # crc
    <3>1. /\ label = "CHECK_CRC_CMD" /\ wpc = "answer" /\ crc = "none"
          /\ crc' \in {"pass", "fail", "unknown"}
          /\ crc' = "pass" => seen = "CMD_PASS"
          /\ UNCHANGED <<image, flashed, now, next, booted, status>>
      BY <1>3, <2>2 DEF TakeAnswer, CrcInv
    <3>2. fw_load_mode # "BURN_SBL" /\ Empty /\ (crc' = "pass" => Whole)
      BY <3>1 DEF PathInv, EraseInv, CrcInv
    <3>3. Load!Check
      BY <3>1, <3>2 DEF Load!Check
    <3>4. QED
      BY <3>3
  <2>3. QED
    BY <2>1, <2>2
<1>4. CASE CommandPassed
  <2>1. /\ UNCHANGED <<image, crc, flashed, now, next, booted>>
        /\ label # "done"
    BY <1>4 DEF CommandPassed
  <2>2. UNCHANGED status \/ status' \in {"SUCCESS", "FAILURE"}
    BY <1>4 DEF CommandPassed
  <2>3. status' = "SUCCESS" /\ status # "SUCCESS" =>
           label \in {"LOAD_IMAGE_CMD", "JUMP_TO_ZERO"}
    BY <1>4 DEF CommandPassed
  <2>4. status' = "SUCCESS" /\ status # "SUCCESS" /\ crc = "fail" => Whole /\ Empty
    BY <2>3 DEF BootInv, PathInv
  <2>5. QED
    BY <2>1, <2>2, <2>4, LoadSame, LoadReports DEF shown, PipeInv
<1>5. CASE CommandFailed
  <2>1. /\ UNCHANGED <<image, flashed, now, next, booted>>
        /\ label # "done"
        /\ UNCHANGED status \/ status' = "FAILURE"
    BY <1>5 DEF CommandFailed
  <2>2. CASE UNCHANGED crc
    BY <2>1, <2>2, LoadSame, LoadReports DEF shown
  <2>3. CASE crc' # crc
    <3>1. /\ label = "CHECK_CRC_CMD" /\ crc = "none" /\ crc' = "unknown"
          /\ UNCHANGED status
      BY <1>5, <2>3 DEF CommandFailed
    <3>2. Load!Check
      BY <2>1, <3>1 DEF Load!Check, PathInv
    <3>3. QED
      BY <3>2
  <2>4. QED
    BY <2>2, <2>3
<1>6. QED
  BY <1>1, <1>2, <1>3, <1>4, <1>5 DEF Host

\* The device's steps: it erases, holds, burns and boots.
LEMMA LoadDevice ==
  ASSUME IInv, Device
  PROVE  [Load!Next]_(Load!vars)
<1> USE DEF IInv, TypeOK
<1>1. CASE DevBoard \/ DevAnswer
  BY <1>1, LoadSame DEF DevBoard, DevAnswer, shown
<1>2. CASE DevTake
  <2>1. booted = "none" /\ UNCHANGED <<image, crc, now, next, status>>
    BY <1>2 DEF DevTake, PipeInv
  <2>2. CASE regin \in Burns
    <3>1. Load!MayBurn /\ Empty
      BY <2>1, <2>2 DEF PathInv, PipeInv
    <3>2. flashed' = 0 /\ UNCHANGED booted
      BY <1>2, <2>2 DEF DevTake
    <3>3. Load!Erase
      BY <2>1, <3>1, <3>2 DEF Load!Erase
    <3>4. QED
      BY <3>3
  <2>3. CASE regin \in NoAnswer
    <3>1. Empty
      BY <2>3 DEF PipeInv
    <3>2. /\ UNCHANGED flashed /\ booted' \in {"flash", "ram"}
          /\ booted' = "flash" => regin = "LOAD_HOSTED_FW"
      BY <1>2, <2>3 DEF DevTake
    <3>3. regin = "LOAD_HOSTED_FW" => crc = "unknown" \/ Whole
      BY DEF BootInv
    <3>4. Load!Boot
      BY <2>1, <3>1, <3>2, <3>3 DEF Load!Boot
    <3>5. QED
      BY <3>4
  <2>4. CASE regin \notin Burns \cup NoAnswer
    <3>1. UNCHANGED <<flashed, booted>>
      BY <1>2, <2>4 DEF DevTake
    <3>2. QED
      BY <2>1, <3>1, LoadSame DEF shown
  <2>5. QED
    BY <2>2, <2>3, <2>4
<1>3. ASSUME NEW b \in Buffers, DevFill(b) PROVE Load!Next
  <2>1. /\ b \notin {now, next} /\ Taken < Chunks
        /\ UNCHANGED <<image, crc, flashed, booted, status>>
    BY <1>3 DEF DevFill, PipeInv
  <2>2. Load!MayBurn
    BY <1>3, <2>1 DEF DevFill, PathInv, PipeInv
  <2>3. Waiting < 2 /\ Waiting' = Waiting + 1
    <3>1. CASE now = "none"
      BY <1>3, <3>1 DEF DevFill, FillInv
    <3>2. CASE now # "none"
      <4>1. next = "none"
        BY <1>3, <2>1, <3>2 DEF PipeInv
      <4>2. QED
        BY <1>3, <3>2, <4>1 DEF DevFill
    <3>3. QED
      BY <3>1, <3>2
  <2>4. Load!Hold
    BY <2>1, <2>2, <2>3 DEF Load!Hold
  <2>5. QED
    BY <2>4
<1>4. CASE DevBurn
  <2>1. /\ now # "none" /\ buffer[now] = flashed
        /\ UNCHANGED <<image, crc, booted, status>>
    BY <1>4 DEF DevBurn, PipeInv
  <2>2. Load!MayBurn
    BY <2>1 DEF PathInv, PipeInv
  <2>3. Waiting > 0 /\ Waiting' = Waiting - 1 /\ flashed' = flashed + 1
    BY <1>4, <2>1 DEF DevBurn
  <2>4. Load!Burn
    BY <2>1, <2>2, <2>3 DEF Load!Burn
  <2>5. QED
    BY <2>4
<1>5. QED
  BY <1>1, <1>2, <1>3, <1>4 DEF Device

\* Loading keeps the promise of ImageBurn: an image is checked once, replaced
\* only when damaged, burned in order through two buffers, and booted from
\* flash only whole, however late the device and whatever fails.
THEOREM KeepsLoadTheorem == Spec => KeepsLoad
<1>1. Init => Load!Init
  <2> SUFFICES ASSUME Init PROVE Load!Init
    OBVIOUS
  <2>1. Chunks \in Nat \ {0}
    BY InitInv DEF Init, IInv, TypeOK
  <2>2. QED
    BY <2>1 DEF Init, Load!Init
<1>2. IInv /\ [Next]_vars => [Load!Next]_(Load!vars)
  <2> SUFFICES ASSUME IInv, [Next]_vars PROVE [Load!Next]_(Load!vars)
    OBVIOUS
  <2>1. CASE Timer \/ UNCHANGED vars
    BY <2>1, LoadSame DEF Timer, TimerFires, bl_cmd_timer_expired, vars, shown
  <2>2. CASE Faults
    <3>1. \/ UNCHANGED shown
          \/ /\ label # "done" /\ status' = "FAILURE"
             /\ UNCHANGED <<image, crc, flashed, now, next, booted>>
      BY <2>2 DEF Faults, BoardReadFails, ReadFails, shown
    <3>2. QED
      BY <3>1, LoadSame, LoadReports
  <2>3. QED
    BY <2>1, <2>2, LoadHost, LoadDevice DEF Next
<1>3. QED
  BY <1>1, <1>2, Inductive, PTL DEF Spec, KeepsLoad, Load!Spec
=============================================================================
