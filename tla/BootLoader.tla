----------------------------- MODULE BootLoader -----------------------------
(***************************************************************************)
(* Loading the firmware through the secondary boot loader of the device:    *)
(* device_init (onebox_common_init.c), bl_write_cmd, bl_cmd and             *)
(* load_fw_thru_sbl (onebox_common_devops.c), auto_fw_upgrade               *)
(* (onebox_flashing.c).                                                      *)
(*                                                                          *)
(* Host and boot loader talk through two registers.  The host writes a      *)
(* command into REGIN, the boot loader takes it, works, and leaves an       *)
(* answer in REGOUT, which the host invalidates.  Every wait is bounded by  *)
(* bl_timer, whose callback may run at any moment, also after the timer was *)
(* removed (del_timer does not wait for it).  A new image is burned in      *)
(* chunks through two buffers, so that the host fills one while the device  *)
(* burns the other.  The boot loader may be late, fail, or never answer.    *)
(***************************************************************************)
EXTENDS Naturals, FiniteSets

CONSTANTS
    Modes,       \* the ways to load that are considered
    NumFlash     \* the possible numbers of whole 4 KB chunks in an image

AllModes == {"FULL_FLASH_SBL", "FULL_RAM_SBL", "FLASH_RAM_SBL",
             "FLASH_RAM_NO_SBL", "BURN_SBL", "UNKNOWN"}

ASSUME ModesAssumption    == Modes \subseteq AllModes
ASSUME NumFlashAssumption == NumFlash \subseteq Nat

VARIABLES
    \* The host.
    fw_load_mode,    \* "BURN_SBL": QSPI_FLASHING with SWBL_FLASHING_SBL
    num_flash, last, \* whole chunks of the image; is there a shorter one?
    label,           \* where load_fw_thru_sbl and its callees are
    wpc,             \* where bl_write_cmd is, "idle" outside
    kk,              \* the chunk of auto_fw_upgrade
    seen,            \* regout_val as read last
    crc,             \* what the host knows of the image in flash
    status,          \* what device_init returns
    \* bl_timer.
    pending, firing, bl_timer_expired,
    \* The registers and buffers of the device, and its boot loader.
    regin, regout, buffer,
    sbl,             \* "absent", "coming", "up" or "booted"
    devcmd,          \* the command it works at
    now, next,       \* the buffers it burns, in this order
    flashed,         \* how many chunks of the image the flash holds in order
    booted           \* what it runs

image   == <<fw_load_mode, num_flash, last>>
host    == <<label, wpc, kk, seen, crc, status>>
timer   == <<pending, firing, bl_timer_expired>>
regs    == <<regin, regout>>
device  == <<sbl, devcmd, now, next, flashed, booted>>
vars    == <<image, host, timer, regs, buffer, device>>

Buffers  == {"PING", "PONG"}
Other(b) == IF b = "PING" THEN "PONG" ELSE "PING"

Valid(b) == IF b = "PING" THEN "PING_VALID" ELSE "PONG_VALID"
Avail(b) == IF b = "PING" THEN "PING_AVAIL" ELSE "PONG_AVAIL"

\* Where a command is sent, and which.
CommandAt ==
    [CONFIG             |-> "CONFIG_AUTO_READ_MODE",
     CHECK_CRC_CMD      |-> "CHECK_CRC",
     POLLING_MODE_CMD   |-> "POLLING_MODE",
     LOAD_IMAGE_CMD     |-> "LOAD_HOSTED_FW",
     JUMP_TO_ZERO       |-> "JUMP_TO_ZERO_PC",
     FW_UPGRADE         |-> "BURN_HOSTED_FW",
     BURN_BOOTLOADER    |-> "BURN_BL",
     EOF                |-> "EOF_REACHED",
     AUTO_READ_MODE_CMD |-> "CONFIG_AUTO_READ_MODE"]

CommandLabels == DOMAIN CommandAt \cup {"chunk"}
Labels == CommandLabels \cup
          {"device_init", "board", "board_read", "clear", "capacity", "calib",
           "header", "bl_file", "upgrade", "data", "LOAD_PMEMDATA", "verify",
           "done"}

Commands == {CommandAt[l] : l \in DOMAIN CommandAt}
            \cup {Valid(b) : b \in Buffers}
NoAnswer == {"LOAD_HOSTED_FW", "JUMP_TO_ZERO_PC"}
Burns    == {"BURN_HOSTED_FW", "BURN_BL"}
Bad      == {"CMD_FAIL", "INVALID_ADDR"}
Answers  == Bad \cup {"BOARD", "CMD_PASS", "SEND_RPS_FILE",
             "FW_LOADING_SUCCESSFUL"} \cup {Avail(b) : b \in Buffers}

\* The image is num_flash chunks and, unless its size is a multiple of 4 KB,
\* a shorter one.
Chunks == num_flash + (IF last THEN 1 ELSE 0)
Whole  == flashed = Chunks

\* Chunk kk goes to this buffer: the first to PONG, as PING holds the header.
Target == IF kk % 2 = 0 THEN "PONG" ELSE "PING"

Cmd == IF label = "chunk" THEN Valid(Target) ELSE CommandAt[label]

\* The answer that lets the host go on.
Good(c) ==
    CASE c \in Burns         -> "SEND_RPS_FILE"
      [] c = "EOF_REACHED"   -> "FW_LOADING_SUCCESSFUL"
      [] c = Valid("PING")   -> Avail("PONG")
      [] c = Valid("PONG")   -> Avail("PING")
      [] OTHER               -> "CMD_PASS"

TypeOK ==
    /\ fw_load_mode \in AllModes /\ num_flash \in Nat /\ last \in BOOLEAN
    /\ label \in Labels
    /\ wpc \in {"idle", "regin", "writein", "regout", "answer",
                "passed", "failed"}
    /\ kk \in Nat
    /\ seen \in Answers \cup {"none"}
    /\ crc \in {"none", "pass", "fail", "unknown"}
    /\ status \in {"none", "SUCCESS", "FAILURE"}
    /\ pending \in BOOLEAN /\ firing \in BOOLEAN
    /\ bl_timer_expired \in BOOLEAN
    /\ regin \in Commands \cup {"none"}
    /\ regout \in Answers \cup {"none"}
    /\ buffer \in [Buffers -> Nat]
    /\ sbl \in {"absent", "coming", "up", "booted"}
    /\ devcmd \in (Commands \ NoAnswer) \cup {"none"}
    /\ now \in Buffers \cup {"none"} /\ next \in Buffers \cup {"none"}
    /\ flashed \in Nat
    /\ booted \in {"none", "flash", "ram"}

\* The flash holds this image, or none of it: another version, or a damaged one.
\* An image has at least its header.
Init ==
    /\ fw_load_mode \in Modes /\ num_flash \in NumFlash /\ last \in BOOLEAN
    /\ Chunks > 0
    /\ label = "device_init" /\ wpc = "idle" /\ kk = 0 /\ seen = "none"
    /\ crc = "none" /\ status = "none"
    /\ pending = FALSE /\ firing = FALSE /\ bl_timer_expired = FALSE
    /\ regin = "none" /\ regout = "none" /\ buffer = [b \in Buffers |-> 0]
    /\ sbl \in {"absent", "coming"} /\ devcmd = "none"
    /\ now = "none" /\ next = "none"
    /\ flashed \in {0, Chunks}
    /\ booted = "none"

-----------------------------------------------------------------------------
\* bl_cmd_start_timer and bl_cmd_stop_timer.  A callback under way is not
\* waited for: it stores its value when it comes to it.
bl_cmd_start_timer ==
    bl_timer_expired' = FALSE /\ pending' = TRUE /\ UNCHANGED firing

bl_cmd_stop_timer ==
    bl_timer_expired' = FALSE /\ pending' = FALSE /\ UNCHANGED firing

\* The timer's period is over: the kernel takes it off its list and calls ...
TimerFires ==
    /\ pending /\ ~firing
    /\ pending' = FALSE /\ firing' = TRUE
    /\ UNCHANGED <<bl_timer_expired, image, host, regs, buffer, device>>

bl_cmd_timer_expired ==
    /\ firing
    /\ firing' = FALSE /\ bl_timer_expired' = TRUE
    /\ UNCHANGED <<pending, image, host, regs, buffer, device>>

Goto(l)   == label' = l /\ UNCHANGED status
Return(s) == label' = "done" /\ status' = s

-----------------------------------------------------------------------------
\* device_init: is the boot loader there, as the mode expects?
bl_req == fw_load_mode # "FLASH_RAM_NO_SBL"

\* An unknown mode fails; skip_fw_load leaves everything to the firmware there.
DeviceInit ==
    /\ label = "device_init"
    /\ \/ fw_load_mode = "UNKNOWN" /\ Return("FAILURE") /\ UNCHANGED timer
       \/ fw_load_mode # "UNKNOWN" /\ Return("SUCCESS") /\ UNCHANGED timer
       \/ /\ fw_load_mode # "UNKNOWN"
          /\ Goto("board") /\ bl_cmd_start_timer
    /\ UNCHANGED <<wpc, kk, seen, crc, image, regs, buffer, device>>

\* REGOUT was read, and holds the board's number.
ReadBoard ==
    /\ label = "board" /\ ~bl_timer_expired
    /\ regout # "none"
    /\ Goto("board_read")
    /\ UNCHANGED <<wpc, kk, seen, crc, image, timer, regs, buffer, device>>

BoardReadFails ==
    /\ label = "board" /\ ~bl_timer_expired
    /\ Return("FAILURE") /\ bl_cmd_stop_timer
    /\ UNCHANGED <<wpc, kk, seen, crc, image, regs, buffer, device>>

\* The number came in time: the boot loader is present.
BoardPresent ==
    /\ label = "board_read" /\ ~bl_timer_expired
    /\ bl_cmd_stop_timer
    /\ IF bl_req THEN Goto("clear") ELSE Return("FAILURE")
    /\ UNCHANGED <<wpc, kk, seen, crc, image, regs, buffer, device>>

\* No number, or one read as the timer expired: it counts as absent.
BoardAbsent ==
    /\ label \in {"board", "board_read"} /\ bl_timer_expired
    /\ IF bl_req THEN Return("FAILURE") ELSE Goto("clear")
    /\ UNCHANGED <<wpc, kk, seen, crc, image, timer, regs, buffer, device>>

\* A failed write to a register may have reached the device or not.
ClearRegout ==
    /\ label = "clear"
    /\ \/ /\ regout' = "none"
          /\ Goto(IF bl_req THEN "CONFIG" ELSE "LOAD_PMEMDATA")
       \/ regout' \in {regout, "none"} /\ Return("FAILURE")
    /\ UNCHANGED <<wpc, kk, seen, crc, image, timer, regin, buffer, device>>

-----------------------------------------------------------------------------
\* bl_cmd around bl_write_cmd, and the call of bl_write_cmd for CHECK_CRC.

StartCommand ==
    /\ label \in CommandLabels /\ wpc = "idle"
    /\ wpc' = "regin" /\ bl_cmd_start_timer
    /\ UNCHANGED <<label, kk, seen, crc, status, image, regs, buffer, device>>

\* Mutant of TimedOut: the wait for an answer does not look at the timer.
TimedOutBefore ==
    /\ wpc \in {"regin", "writein"} /\ bl_timer_expired
    /\ wpc' = "failed"
    /\ UNCHANGED <<label, kk, seen, crc, status, image, timer, regs, buffer,
                   device>>

\* Looked at before each read and after the loop: an answer that was read as
\* the timer expired stays in REGOUT.
TimedOut ==
    /\ wpc \in {"regin", "writein", "regout", "answer"} /\ bl_timer_expired
    /\ wpc' = "failed"
    /\ UNCHANGED <<label, kk, seen, crc, status, image, timer, regs, buffer,
                   device>>

ReadFails ==
    /\ wpc \in {"regin", "regout"} /\ ~bl_timer_expired
    /\ wpc' = "failed"
    /\ UNCHANGED <<label, kk, seen, crc, status, image, timer, regs, buffer,
                   device>>

\* REGIN was read: the command before was taken.
ReginFree ==
    /\ wpc = "regin" /\ ~bl_timer_expired
    /\ regin = "none"
    /\ wpc' = "writein"
    /\ UNCHANGED <<label, kk, seen, crc, status, image, timer, regs, buffer,
                   device>>

WriteRegin ==
    /\ wpc = "writein" /\ ~bl_timer_expired
    /\ \/ regin' = Cmd /\ wpc' = IF Cmd \in NoAnswer THEN "passed" ELSE "regout"
       \/ regin' \in {regin, Cmd} /\ wpc' = "failed"
    /\ UNCHANGED <<label, kk, seen, crc, status, image, timer, regout, buffer,
                   device>>

RegoutValid ==
    /\ wpc = "regout" /\ ~bl_timer_expired
    /\ regout # "none"
    /\ seen' = regout /\ wpc' = "answer"
    /\ UNCHANGED <<label, kk, crc, status, image, timer, regs, buffer, device>>

\* *cmd_resp is set before REGOUT is invalidated, which may fail.
TakeAnswer ==
    /\ wpc = "answer" /\ ~bl_timer_expired
    /\ crc' = IF label # "CHECK_CRC_CMD" THEN crc
              ELSE IF seen = "CMD_PASS" THEN "pass"
              ELSE IF seen = "CMD_FAIL" THEN "fail" ELSE "unknown"
    /\ \/ /\ regout' = "none"
          /\ wpc' = IF seen = Good(Cmd) THEN "passed" ELSE "failed"
       \/ regout' \in {regout, "none"} /\ wpc' = "failed"
    /\ UNCHANGED <<label, kk, seen, status, image, timer, regin, buffer, device>>

\* bl_cmd returns and load_fw_thru_sbl or auto_fw_upgrade goes on.
CommandPassed ==
    /\ wpc = "passed"
    /\ wpc' = "idle" /\ bl_cmd_stop_timer
    /\ CASE label = "CONFIG"             -> Goto("capacity")
         [] label = "CHECK_CRC_CMD"      -> Goto("POLLING_MODE_CMD")
         [] label = "POLLING_MODE_CMD"   ->
                Goto(IF fw_load_mode = "FULL_FLASH_SBL"
                     THEN "LOAD_IMAGE_CMD" ELSE "LOAD_PMEMDATA")
         [] label = "FW_UPGRADE"         -> Goto("upgrade")
         [] label = "BURN_BOOTLOADER"    -> Goto("bl_file")
         [] label = "chunk"              -> Goto("data")
         [] label = "EOF"                ->
                Goto(IF fw_load_mode = "BURN_SBL"
                     THEN "AUTO_READ_MODE_CMD" ELSE "LOAD_IMAGE_CMD")
         [] label = "AUTO_READ_MODE_CMD" ->
                IF fw_load_mode = "BURN_SBL"
                THEN Goto("verify") ELSE Return("FAILURE")
         [] OTHER                        -> Return("SUCCESS")
    /\ kk' = IF label = "chunk" THEN kk + 1 ELSE kk
    /\ UNCHANGED <<seen, crc, image, regs, buffer, device>>

\* auto_fw_upgrade failed: without a new boot loader to verify, the boot
\* loader is put back into its reading mode before the load fails.
UpgradeFails ==
    IF fw_load_mode = "BURN_SBL"
    THEN Return("FAILURE") ELSE Goto("AUTO_READ_MODE_CMD")

\* Mutant of CommandFailed: ping_pong_write tries the chunk again.
CommandRetried ==
    /\ wpc = "failed"
    /\ wpc' = "idle" /\ bl_cmd_stop_timer
    /\ CASE label = "CHECK_CRC_CMD" ->
                Goto(IF crc = "fail" THEN "FW_UPGRADE" ELSE "POLLING_MODE_CMD")
         [] label = "chunk"         -> Goto("data")
         [] label = "EOF"           -> UpgradeFails
         [] OTHER                   -> Return("FAILURE")
    /\ crc' = IF label = "CHECK_CRC_CMD" /\ crc = "none" THEN "unknown" ELSE crc
    /\ UNCHANGED <<kk, seen, image, regs, buffer, device>>

\* Mutant of CommandFailed: a chunk that is not answered leaves its timer.
CommandLeavesTimer ==
    /\ wpc = "failed"
    /\ wpc' = "idle"
    /\ IF label = "chunk" THEN UNCHANGED timer ELSE bl_cmd_stop_timer
    /\ CASE label = "CHECK_CRC_CMD"     ->
                Goto(IF crc = "fail" THEN "FW_UPGRADE" ELSE "POLLING_MODE_CMD")
         [] label \in {"chunk", "EOF"}  -> UpgradeFails
         [] OTHER                       -> Return("FAILURE")
    /\ crc' = IF label = "CHECK_CRC_CMD" /\ crc = "none" THEN "unknown" ELSE crc
    /\ UNCHANGED <<kk, seen, image, regs, buffer, device>>

\* Whoever sees bl_cmd fail stops the timer.  A CRC check that was answered
\* with a failure leads to the upgrade; one without an answer counts as passed.
CommandFailed ==
    /\ wpc = "failed"
    /\ wpc' = "idle" /\ bl_cmd_stop_timer
    /\ CASE label = "CHECK_CRC_CMD"     ->
                Goto(IF crc = "fail" THEN "FW_UPGRADE" ELSE "POLLING_MODE_CMD")
         [] label \in {"chunk", "EOF"}  -> UpgradeFails
         [] OTHER                       -> Return("FAILURE")
    /\ crc' = IF label = "CHECK_CRC_CMD" /\ crc = "none" THEN "unknown" ELSE crc
    /\ UNCHANGED <<kk, seen, image, regs, buffer, device>>

-----------------------------------------------------------------------------
\* The rest of load_fw_thru_sbl.

\* read_flash_capacity, and the choice of the way.
FlashCapacity ==
    /\ label = "capacity"
    /\ \/ Return("FAILURE")
       \/ Goto(CASE fw_load_mode = "BURN_SBL"     -> "calib"
                 [] fw_load_mode = "FULL_RAM_SBL" -> "POLLING_MODE_CMD"
                 [] OTHER                         -> "header")
    /\ UNCHANGED <<wpc, kk, seen, crc, image, timer, regs, buffer, device>>

\* Steps that succeed or end the load: the calibration data are read, the
\* image's header is written to PING (write_bl_header), a file is found.
OneStep ==
    /\ label \in {"calib", "header", "bl_file"}
    /\ \/ Return("FAILURE")
       \/ Goto(CASE label = "calib"  -> "BURN_BOOTLOADER"
                 [] label = "header" -> "CHECK_CRC_CMD"
                 [] OTHER            -> "upgrade")
    /\ UNCHANGED <<wpc, kk, seen, crc, image, timer, regs, buffer, device>>

\* load_ta_instructions: the image for the RAM.
LoadTaInstructions ==
    /\ label = "LOAD_PMEMDATA"
    /\ \/ Return("FAILURE")
       \/ IF bl_req THEN Goto("JUMP_TO_ZERO") ELSE Return("SUCCESS")
    /\ UNCHANGED <<wpc, kk, seen, crc, image, timer, regs, buffer, device>>

\* verify_flash_content reads the flash back and compares.
VerifyFlash ==
    /\ label = "verify"
    /\ Return("FAILURE") \/ (Whole /\ Return("SUCCESS"))
    /\ UNCHANGED <<wpc, kk, seen, crc, image, timer, regs, buffer, device>>

-----------------------------------------------------------------------------
\* auto_fw_upgrade.  The image may be refused for its size or its address.
StartUpgrade ==
    /\ label = "upgrade"
    /\ UpgradeFails \/ Goto("data")
    /\ kk' = 0
    /\ UNCHANGED <<wpc, seen, crc, image, timer, regs, buffer, device>>

\* Mutant of MoreChunks: for (kk = 0; kk < num_flash; kk++).
WholeChunksOnly == kk < num_flash

\* for (kk = 0; kk <= num_flash; kk++), left at a last chunk of no bytes.
MoreChunks == kk < num_flash \/ (kk = num_flash /\ last)

\* ping_pong_write: the chunk is written to its buffer, then announced.
WriteChunk ==
    /\ label = "data" /\ MoreChunks
    /\ \/ buffer' = [buffer EXCEPT ![Target] = kk] /\ Goto("chunk")
       \/ /\ buffer' \in {buffer, [buffer EXCEPT ![Target] = kk]}
          /\ UpgradeFails
    /\ UNCHANGED <<wpc, kk, seen, crc, image, timer, regs, device>>

AllWritten ==
    /\ label = "data" /\ ~MoreChunks
    /\ Goto("EOF")
    /\ UNCHANGED <<wpc, kk, seen, crc, image, timer, regs, buffer, device>>

-----------------------------------------------------------------------------
\* The boot loader of the device, from what the driver expects of it.

\* It comes up and posts the board's number.
DevBoard ==
    /\ sbl = "coming" /\ sbl' = "up" /\ regout' = "BOARD"
    /\ UNCHANGED <<devcmd, now, next, flashed, booted, image, host, timer,
                   regin, buffer>>

\* It takes a command.  A request to burn erases the image in flash, a boot
\* ends the boot loader.
DevTake ==
    /\ sbl = "up" /\ devcmd = "none"
    /\ regin \notin {"none"} \cup {Valid(b) : b \in Buffers}
    /\ regin' = "none"
    /\ devcmd' = IF regin \in NoAnswer THEN "none" ELSE regin
    /\ sbl' = IF regin \in NoAnswer THEN "booted" ELSE sbl
    /\ booted' = CASE regin = "LOAD_HOSTED_FW"  -> "flash"
                   [] regin = "JUMP_TO_ZERO_PC" -> "ram"
                   [] OTHER                     -> booted
    /\ flashed' = IF regin \in Burns THEN 0 ELSE flashed
    /\ UNCHANGED <<regout, now, next, image, host, timer, buffer>>

\* A filled buffer waits behind the one that is burned.
DevFill(b) ==
    /\ sbl = "up" /\ devcmd = "none"
    /\ regin = Valid(b)
    /\ regin' = "none" /\ devcmd' = regin
    /\ now' = IF now = "none" THEN b ELSE now
    /\ next' = IF now = "none" THEN next ELSE b
    /\ UNCHANGED <<sbl, flashed, booted, regout, image, host, timer, buffer>>

\* The good answer: the check passed, the other buffer is free, all is burned.
DevReady ==
    CASE devcmd = "CHECK_CRC"   -> Whole
      [] devcmd = "EOF_REACHED" -> now = "none"
      [] devcmd = Valid("PING") -> "PONG" \notin {now, next}
      [] devcmd = Valid("PONG") -> "PING" \notin {now, next}
      [] OTHER                  -> TRUE

\* It answers, well or badly, whether the answer before was read or not.
DevAnswer ==
    /\ devcmd # "none"
    /\ \/ DevReady /\ regout' = Good(devcmd)
       \/ regout' \in Bad
    /\ devcmd' = "none"
    /\ UNCHANGED <<sbl, now, next, flashed, booted, image, host, timer, regin,
                   buffer>>

\* A chunk is burned: it lengthens the image if it is the one that comes next.
DevBurn ==
    /\ now # "none"
    /\ flashed' = IF buffer[now] = flashed THEN flashed + 1 ELSE flashed
    /\ now' = next /\ next' = "none"
    /\ UNCHANGED <<sbl, devcmd, booted, image, host, timer, regs, buffer>>

-----------------------------------------------------------------------------
Host ==
    \/ DeviceInit \/ ReadBoard \/ BoardPresent \/ BoardAbsent \/ ClearRegout
    \/ StartCommand \/ TimedOut \/ ReginFree \/ WriteRegin \/ RegoutValid
    \/ TakeAnswer \/ CommandPassed \/ CommandFailed
    \/ FlashCapacity \/ OneStep \/ LoadTaInstructions \/ VerifyFlash
    \/ StartUpgrade \/ WriteChunk \/ AllWritten

Timer  == TimerFires \/ bl_cmd_timer_expired
Faults == BoardReadFails \/ ReadFails
Device == \/ DevBoard \/ DevTake \/ DevAnswer \/ DevBurn
          \/ \E b \in Buffers : DevFill(b)

Next == Host \/ Timer \/ Faults \/ Device
Spec == Init /\ [][Next]_vars

\* The probe runs and the kernel runs its timers.  The device owes nothing, and
\* no failing read need come to the rescue.
FairSpec == Spec /\ WF_vars(Host) /\ WF_vars(Timer)

-----------------------------------------------------------------------------
\* The device boots from flash only an image that it found whole or that was
\* burned to the last chunk, in order; except after a CRC check whose answer
\* the host did not read (onebox_common_devops.c:512 falls through to 520).
BootsWhole == booted = "flash" /\ crc # "unknown" => Whole

\* A chunk is never written into a buffer that the device still burns.
BufferFree == label = "data" /\ MoreChunks => Target \notin {now, next}

\* bl_timer is on the kernel's list only while something is waited for: it is
\* never initialised again while it is there, nor left behind by device_init.
TimerOnce == pending => wpc # "idle" \/ label \in {"board", "board_read"}

\* However the device behaves, device_init returns.
LoadEnds == <>(label = "done")

-----------------------------------------------------------------------------
\* The inductive invariant.

\* The timer runs for the board's number, or for a command in bl_write_cmd.
TimerInv ==
    /\ TimerOnce
    /\ wpc # "idle" => label \in CommandLabels
    /\ label = "device_init" => ~firing /\ ~bl_timer_expired
    /\ label \in {"board", "board_read"} /\ pending => ~firing /\ ~bl_timer_expired

Idle   == regin = "none" /\ devcmd = "none"
Empty  == now = "none" /\ next = "none"
Steady == Empty /\ regin \notin Burns \cup {Valid(b) : b \in Buffers}
                /\ devcmd \notin Burns \cup {Valid(b) : b \in Buffers}

\* Before the first command the boot loader has done nothing, and before it has
\* posted its number it is not there.
BoardInv ==
    label \in {"device_init", "board", "board_read", "clear"} =>
        /\ Idle /\ Empty /\ crc = "none" /\ booted = "none" /\ sbl # "booted"
        /\ label # "clear" /\ sbl # "up" => regout = "none"
        /\ label = "board_read" => regout # "none"
        /\ label = "clear" /\ bl_req => sbl = "up"

BurnLabels == {"FW_UPGRADE", "BURN_BOOTLOADER"}
FillLabels == {"data", "chunk", "EOF"}
AskLabels  == {"CONFIG", "capacity", "calib", "header", "CHECK_CRC_CMD",
               "bl_file", "upgrade"} \cup BurnLabels \cup FillLabels

\* Nothing is under way when a command is sent, and the device answers once:
\* what the host reads is the answer to this command.  Only the failure of a
\* CRC check may still be there, when REGOUT could not be invalidated.
Left == IF label = "FW_UPGRADE" THEN {"none", "CMD_FAIL"} ELSE {"none"}
AskInv ==
    label \in AskLabels =>
        /\ sbl = "up" /\ booted = "none"
        /\ wpc \in {"idle", "regin", "writein"} => Idle /\ regout \in Left
        /\ wpc = "regout" =>
              /\ \/ regin = "none" /\ devcmd \in {"none", Cmd}
                 \/ regin = Cmd /\ devcmd = "none"
              /\ regout \in Left \cup Bad \cup {Good(Cmd)}
              /\ regout \notin Left => Idle
        /\ wpc = "answer" =>
              /\ seen \in Bad \cup {Good(Cmd)}
              /\ seen \notin Left => Idle /\ regout = seen
        /\ wpc = "passed" => Idle /\ regout = "none"
        /\ wpc = "failed" /\ label = "CHECK_CRC_CMD" /\ crc = "fail" =>
              Idle /\ regout \in {"none", "CMD_FAIL"}

\* What the host knows of the image in flash is so.
CrcInv ==
    /\ label \in {"CONFIG", "capacity", "calib", "header"} => crc = "none"
    /\ label = "CHECK_CRC_CMD" =>
          /\ wpc \notin {"passed", "failed"} => crc = "none"
          /\ wpc = "passed" => crc = "pass"
          /\ wpc = "regout" /\ regout = "CMD_PASS" => Whole
          /\ wpc = "answer" /\ seen = "CMD_PASS" => Whole
    /\ label = "POLLING_MODE_CMD" /\ fw_load_mode = "FULL_FLASH_SBL" =>
          crc \in {"pass", "unknown"}
    /\ crc = "pass" =>
          /\ Whole /\ Steady
          /\ label \notin {"bl_file", "upgrade"} \cup BurnLabels \cup FillLabels

\* The device has given the good answer, read by the host or not.
Answered == \/ wpc = "regout" /\ regout = Good(Cmd)
            \/ wpc = "answer" /\ seen = Good(Cmd)
            \/ wpc = "passed"

\* Before the first chunk the flash is erased and nothing burned.
EraseInv ==
    /\ label \in AskLabels \ FillLabels =>
          Empty /\ regin \notin {Valid(b) : b \in Buffers}
    /\ label \in BurnLabels /\ Answered => flashed = 0
    /\ label \in BurnLabels /\ wpc = "regout" /\ devcmd # "none" => flashed = 0
    /\ label \in {"bl_file", "upgrade"} => flashed = 0

\* The chunks that are burned or wait to be, and those the device has taken.
Waiting == (IF now = "none" THEN 0 ELSE 1) + (IF next = "none" THEN 0 ELSE 1)
Taken   == flashed + Waiting

\* The device has every chunk so far, in order, in one buffer each.
Filled == IF label = "chunk" /\ (\/ wpc \in {"answer", "passed"}
                                 \/ wpc = "regout" /\ regin = "none")
          THEN kk + 1 ELSE kk
FillInv ==
    /\ now = "none" => next = "none"
    /\ label \in FillLabels /\ wpc # "failed" =>
          /\ now # "none" => now # next /\ buffer[now] = flashed
          /\ next # "none" => buffer[next] = flashed + 1
          /\ Taken = Filled
          /\ kk <= Chunks
    /\ label = "data" => Target \notin {now, next}
    /\ label = "chunk" =>
          /\ kk < Chunks
          /\ wpc # "failed" /\ Filled = kk =>
                Target \notin {now, next} /\ buffer[Target] = kk
          /\ Answered => Other(Target) \notin {now, next}
    /\ label = "EOF" =>
          /\ wpc # "failed" => kk = Chunks
          /\ Answered => now = "none"

\* When the device is told to boot from flash, the image is whole and stays so.
BootInv ==
    /\ regin \in NoAnswer => label \in {"LOAD_IMAGE_CMD", "JUMP_TO_ZERO", "done"}
    /\ regin = "LOAD_HOSTED_FW" \/ booted = "flash" =>
          label \in {"LOAD_IMAGE_CMD", "done"}
    /\ label = "LOAD_IMAGE_CMD" \/ regin = "LOAD_HOSTED_FW" \/ booted = "flash"
          => crc = "unknown" \/ (Whole /\ Steady)

\* Only an image that failed its check is replaced, except in BURN_SBL, where
\* it is not checked; on the other ways nothing is burned.
Burning == label \in {"bl_file", "upgrade"} \cup BurnLabels \cup FillLabels
PathInv ==
    /\ fw_load_mode = "BURN_SBL" =>
          /\ crc = "none"
          /\ label \notin {"header", "CHECK_CRC_CMD", "POLLING_MODE_CMD",
                           "LOAD_PMEMDATA", "JUMP_TO_ZERO", "LOAD_IMAGE_CMD"}
    /\ label \in {"calib", "bl_file", "BURN_BOOTLOADER", "verify"}
          => fw_load_mode = "BURN_SBL"
    /\ label \in {"POLLING_MODE_CMD", "LOAD_PMEMDATA", "JUMP_TO_ZERO"}
          => crc # "fail"
    /\ Burning => crc = "fail" \/ fw_load_mode = "BURN_SBL"
    /\ crc # "fail" /\ fw_load_mode # "BURN_SBL" => Steady

\* The buffers hold the chunks after those in flash, also after a failure; so
\* does the one that was announced and not yet taken.
PipeInv ==
    /\ now # "none" => now # next /\ buffer[now] = flashed
    /\ next # "none" => buffer[next] = flashed + 1
    /\ Taken <= Chunks \/ Empty
    /\ \A b \in Buffers : regin = Valid(b) =>
          b \notin {now, next} /\ buffer[b] = Taken /\ Taken < Chunks
    /\ regin \in Burns => Empty
    /\ sbl # "booted" <=> booted = "none"
    /\ regin \in NoAnswer \/ booted # "none" => Empty
    /\ label # "done" => status = "none"

IInv == /\ TypeOK /\ TimerInv /\ BoardInv /\ AskInv /\ CrcInv /\ EraseInv
        /\ FillInv /\ BootInv /\ PathInv /\ PipeInv

-----------------------------------------------------------------------------
\* The driver and the boot loader keep the promise of ImageBurn.
Load == INSTANCE ImageBurn
            WITH size <- Chunks, replace <- fw_load_mode = "BURN_SBL",
                 verdict <- crc, burned <- flashed, held <- Waiting

\* Commands, answers and the two buffers implement the burning of an image in
\* order: no chunk is lost, repeated or overtaken, whichever register access
\* fails and however late the device is; nothing is burned that passed its
\* check, and nothing after the device has booted.
KeepsLoad == Load!Spec
=============================================================================
