------------------------------- MODULE FwLoad -------------------------------
(***************************************************************************)
(* The start of the firmware (rsi_91x_hal.c): the commands the driver      *)
(* exchanges with the boot loader through two registers, each under a      *)
(* timer; the flash of a 9113, checked and, when it does not match, burnt  *)
(* through two buffers in turn; the RAM of a 9116.  The boot loader is     *)
(* external: it takes a command from REGIN, and answers in REGOUT when it  *)
(* is done, which may be after the timer.  A bus error ends a command like *)
(* a refusal.                                                              *)
(***************************************************************************)
EXTENDS Naturals, Sequences

CONSTANTS
    CHUNKS,      \* whole chunks (FLASH_WRITE_CHUNK_SIZE) in the image
    FwTroubles   \* of "refused", "late_callback"
ASSUME FwAssumption ==
    CHUNKS \in Nat \ {0} /\ FwTroubles \subseteq {"refused", "late_callback"}

VARIABLES
    model,      \* [chip, usb: host interface USB, rest: the image has a last, partial chunk]
    at,         \* where rsi_load_firmware stands
    call,       \* where bl_write_cmd stands: "no", "regin", "regout", "pass", "fail"
    resp,       \* *cmd_resp: whose answer was read, and whether it was CMD_FAIL
    index,      \* chunks written
    ram,        \* chunks of a 9116 whose writing failed
    regin,      \* a command, or "free" once the boot loader has taken it
    regout,     \* [of: the command answered, ok], or no valid answer
    bl_timer,   \* bl_cmd_timer is pending
    expired,    \* blcmd_timer_expired
    late,       \* a delayed callback: "no", before the "flag" or before it is to "delete" the timer
    loader,     \* [doing, buffer, busy, flash, good]: the boot loader
    started,    \* the boot loader was told to start the image, or the RAM was released
    fwUpset     \* auxiliary: what has gone wrong

fwVars == <<model, at, call, resp, index, regin, regout, bl_timer, expired, late, loader,
            started, ram, fwUpset>>
clockVars == <<bl_timer, expired, late>>

Buffers  == {"ping", "pong"}
Commands == {"AUTO_READ", "CHECK_CRC", "POLLING", "LOAD", "BURN", "ping", "pong", "EOF",
             "AUTO_READ_AGAIN", "JUMP"}
NoAnswer == [of |-> "nothing", ok |-> TRUE]
Answers  == [of : Commands \union {"nothing", "board"}, ok : BOOLEAN]
Places   == {"version", "invalidate", "prepare", "fill", "fill_RAM", "done", "failed"} \union Commands

(* Mutant of the number of pieces: the last, partial chunk is left out. *)
Pieces_Whole == CHUNKS
Pieces == CHUNKS + (IF model.rest THEN 1 ELSE 0)

FwTypeOK ==
    /\ model \in [chip : {"9113", "9116"}, usb : BOOLEAN, rest : BOOLEAN]
    /\ at \in Places
    /\ call \in {"no", "regin", "regout", "pass", "fail"}
    /\ resp \in Answers /\ regout \in Answers
    /\ index \in 0 .. CHUNKS + 1
    /\ regin \in Commands \union {"free"}
    /\ bl_timer \in BOOLEAN /\ expired \in BOOLEAN /\ started \in BOOLEAN
    /\ late \in {"no", "flag", "delete"} /\ ram \subseteq 1 .. CHUNKS
    /\ loader \in [doing : Commands \union {"nothing"}, buffer : [Buffers -> 0 .. CHUNKS + 1],
                   busy : SUBSET Buffers, flash : Seq(0 .. CHUNKS + 1), good : BOOLEAN]
    /\ fwUpset \subseteq FwTroubles \union {"abandoned", "mixed", "unchecked", "torn", "not_burnt", "jump"}

FwInit ==
    /\ model \in [chip : {"9113", "9116"}, usb : BOOLEAN, rest : BOOLEAN]
    /\ at = "version" /\ call = "no" /\ resp = NoAnswer /\ index = 0
    /\ regin = "free" /\ regout \in {NoAnswer, [of |-> "board", ok |-> TRUE]}
    /\ bl_timer = TRUE /\ expired = FALSE /\ late = "no"
    /\ \E g \in BOOLEAN : loader = [doing |-> "nothing", buffer |-> [b \in Buffers |-> 0],
                                    busy |-> {}, flash |-> <<>>, good |-> g]
    /\ started = FALSE /\ ram = {} /\ fwUpset = {}

Wrong(trouble) == trouble \in FwTroubles /\ fwUpset' = fwUpset \union {trouble}
Noted(set) == fwUpset' = fwUpset \union set
AllWell == UNCHANGED fwUpset

-----------------------------------------------------------------------------
(* bl_start_cmd_timer, bl_stop_cmd_timer and bl_cmd_timeout *)
(* Mutants: the timer is left to run; it is not armed. *)
StopBlTimer_Not == UNCHANGED bl_timer /\ expired' = FALSE
StopBlTimer == bl_timer' = FALSE /\ expired' = FALSE
StartBlTimer_Not == UNCHANGED bl_timer /\ expired' = FALSE
StartBlTimer == bl_timer' = TRUE /\ expired' = FALSE

BlTimerFires ==
    /\ bl_timer
    /\ bl_timer' = FALSE
    /\ \/ expired' = TRUE /\ AllWell /\ UNCHANGED late
       \/ late = "no" /\ late' = "flag" /\ Wrong("late_callback") /\ UNCHANGED expired
    /\ UNCHANGED <<model, at, call, resp, index, regin, regout, loader, started, ram>>

(* A delayed callback sets the flag, and deletes the timer, of a later command. *)
LateCallback ==
    /\ \/ late = "flag" /\ late' = "delete" /\ expired' = TRUE /\ UNCHANGED bl_timer
       \/ late = "delete" /\ late' = "no" /\ bl_timer' = FALSE /\ UNCHANGED expired
    /\ UNCHANGED <<model, at, call, resp, index, regin, regout, loader, started, ram, fwUpset>>

-----------------------------------------------------------------------------
(* bl_write_cmd for the command `at` *)
Calls(cmd) ==
    /\ at' = cmd /\ call' = "regin"
    /\ StartBlTimer /\ UNCHANGED late

(* LOAD_HOSTED_FW and JUMP_TO_ZERO_PC have no answer. *)
Answered(cmd) == cmd \notin {"LOAD", "JUMP"}

WaitRegin ==
    /\ call = "regin"
    /\ \/ expired /\ call' = "fail" /\ AllWell /\ UNCHANGED <<regin, started>>
       \/ /\ ~expired /\ regin = "free"
          /\ regin' = at
          /\ call' = IF Answered(at) THEN "regout" ELSE "pass"
          /\ started' = (started \/ ~Answered(at)) /\ AllWell
    /\ UNCHANGED <<model, at, resp, index, regout, clockVars, loader, ram>>

Expected(cmd) == IF cmd \in {"BURN", "EOF", "ping", "pong", "board"} THEN cmd ELSE "CMD_PASS"

(* A register that cannot be read or written ends the command. *)
CommandRefused ==
    /\ call \in {"regin", "regout"} /\ "refused" \in FwTroubles
    /\ call' = "fail"
    /\ Noted({"refused"} \union IF call = "regout" THEN {"abandoned"} ELSE {})
    /\ UNCHANGED <<model, at, resp, index, regin, regout, clockVars, loader, started, ram>>

(* A command given up after it was written leaves its answer to the next one. *)
(* Mutant: the answer that was read stays valid. *)
Invalidated_Not == regout
Invalidated == NoAnswer
WaitRegout ==
    /\ call = "regout"
    /\ \/ expired /\ call' = "fail" /\ Noted({"abandoned"}) /\ UNCHANGED <<resp, regout>>
       \/ /\ ~expired /\ regout # NoAnswer
          /\ resp' = regout /\ regout' = Invalidated
          /\ call' = IF regout.ok /\ Expected(regout.of) = Expected(at) THEN "pass" ELSE "fail"
          /\ Noted(IF regout.of # at THEN {"mixed"} ELSE {})
    /\ UNCHANGED <<model, at, index, regin, clockVars, loader, started, ram>>

-----------------------------------------------------------------------------
(* The boot loader *)
LoaderTakes ==
    /\ regin # "free" /\ loader.doing = "nothing" /\ ~started
    /\ loader' = [loader EXCEPT !.doing = regin]
    /\ regin' = "free"
    /\ UNCHANGED <<model, at, call, resp, index, regout, clockVars, started, ram, fwUpset>>

OtherBuffer(b) == IF b = "ping" THEN "pong" ELSE "ping"

(* It announces the other buffer when that one is burnt, and burns the one announced. *)
LoaderAnswers ==
    /\ loader.doing \in Commands
    /\ loader.doing \in Buffers => OtherBuffer(loader.doing) \notin loader.busy
    /\ loader.doing = "EOF" => loader.busy = {}
    /\ \/ regout' = [of |-> loader.doing, ok |-> loader.doing = "CHECK_CRC" => loader.good] /\ AllWell
       \/ regout' = [of |-> loader.doing, ok |-> FALSE] /\ Wrong("refused")
    /\ loader' = [loader EXCEPT
                    !.doing = "nothing",
                    !.busy = IF loader.doing \in Buffers THEN @ \union {loader.doing} ELSE @,
                    !.flash = IF loader.doing = "BURN" THEN <<>> ELSE @,
                    !.good = IF loader.doing = "BURN" THEN FALSE ELSE @ \/ loader.doing = "EOF"]
    /\ UNCHANGED <<model, at, call, resp, index, regin, clockVars, started, ram>>

LoaderBurns ==
    /\ \E b \in loader.busy :
         loader' = [loader EXCEPT !.flash = Append(@, loader.buffer[b]), !.busy = @ \ {b}]
    /\ UNCHANGED <<model, at, call, resp, index, regin, regout, clockVars, started, ram, fwUpset>>

-----------------------------------------------------------------------------
(* rsi_load_firmware *)
Fails == at' = "failed" /\ UNCHANGED <<call, clockVars>>
(* bl_cmd and its caller: the timer is stopped, then what follows the command. *)
Follows(next) == at' = next /\ call' = "no" /\ StopBlTimer /\ UNCHANGED late

(* The board's version must appear in REGOUT before the timer runs out. *)
ReadVersion ==
    /\ at = "version" /\ (expired \/ regout.of # "nothing")
    /\ at' = IF expired THEN "failed" ELSE "invalidate"
    /\ StopBlTimer /\ UNCHANGED late
    /\ UNCHANGED <<model, call, resp, index, regin, regout, loader, started, ram, fwUpset>>

InvalidateVersion ==
    /\ at = "invalidate"
    /\ regout' = Invalidated
    /\ IF model.chip = "9113" THEN Calls("AUTO_READ")
       ELSE IF model.usb THEN Calls("POLLING")
            ELSE at' = "fill_RAM" /\ UNCHANGED <<call, clockVars>>
    /\ UNCHANGED <<model, resp, index, regin, loader, started, ram, fwUpset>>

(* The capacity of the flash, the file, its header; any of them may fail. *)
Prepare ==
    /\ at = "prepare"
    /\ \/ Calls("CHECK_CRC") /\ resp' = NoAnswer /\ AllWell
       \/ Fails /\ UNCHANGED resp /\ Wrong("refused")
    /\ UNCHANGED <<model, index, regin, regout, loader, started, ram>>

(* rsi_load_9116_firmware: the status of a chunk replaces that of the one before. *)
(* Mutant: the status of the first one is kept. *)
RamStatus_First == IF 1 \in ram THEN "failed" ELSE "done"
RamStatus == IF CHUNKS \in ram THEN "failed" ELSE "done"
FillRam ==
    /\ at = "fill_RAM"
    /\ \/ /\ index < CHUNKS
          /\ index' = index + 1
          /\ \/ AllWell /\ UNCHANGED ram
             \/ Wrong("refused") /\ ram' = ram \union {index'}
          /\ UNCHANGED <<at, call, clockVars, started>>
       \/ /\ index = CHUNKS /\ model.usb /\ Calls("JUMP")
          /\ AllWell /\ UNCHANGED <<index, ram, started>>
       \/ /\ index = CHUNKS /\ ~model.usb
          /\ at' = RamStatus /\ started' = (at' = "done")
          /\ AllWell /\ UNCHANGED <<index, ram, call, clockVars>>
    /\ UNCHANGED <<model, resp, regin, regout, loader>>

(* auto_fw_upgrade: a chunk goes into the buffer of its turn; no empty last chunk. *)
(* Mutant: always the same buffer. *)
Turn_Same == "pong"
Turn == IF index % 2 = 1 THEN "ping" ELSE "pong"
Fill ==
    /\ at = "fill"
    /\ \/ /\ index < Pieces
          /\ loader' = [loader EXCEPT !.buffer[Turn] = index + 1]
          /\ Noted(IF Turn \in loader.busy THEN {"torn"} ELSE {})
          /\ index' = index + 1
          /\ Calls(Turn)
       \/ index = Pieces /\ Calls("EOF") /\ AllWell /\ UNCHANGED <<loader, index>>
       \/ Follows("AUTO_READ_AGAIN") /\ Wrong("refused") /\ UNCHANGED <<loader, index>>
    /\ UNCHANGED <<model, resp, regin, regout, started, ram>>

(* A check that failed without an answer counts as passed. *)
(* Mutant: the answer to the check is not looked at. *)
CrcFailed_Never(r) == FALSE
CrcFailed(r) == r # NoAnswer /\ ~r.ok
CrcDone ==
    /\ at = "CHECK_CRC" /\ call \in {"pass", "fail"}
    /\ IF call = "fail" /\ CrcFailed(resp)
         THEN Follows("BURN") /\ AllWell
         ELSE Follows("POLLING") /\ Noted(IF call = "fail" /\ resp = NoAnswer THEN {"unchecked"} ELSE {})
    /\ UNCHANGED <<model, resp, index, regin, regout, loader, started, ram>>

(* Places without a call under way start the next command. *)
NextCommand ==
    /\ at \in Commands /\ call = "no"
    /\ Calls(at)
    /\ UNCHANGED <<model, resp, index, regin, regout, loader, started, ram, fwUpset>>

AfterPass(cmd) ==
    CASE cmd = "AUTO_READ" -> "prepare"
      [] cmd = "POLLING"   -> IF model.chip = "9113" THEN "LOAD" ELSE "fill_RAM"
      [] cmd = "BURN"      -> "fill"
      [] cmd \in Buffers   -> "fill"
      [] cmd = "EOF"       -> "LOAD"
      [] cmd = "JUMP"      -> RamStatus
      [] OTHER             -> "done"
AfterFail(cmd) == IF cmd \in Buffers \union {"EOF"} THEN "AUTO_READ_AGAIN" ELSE "failed"

(* The result of JUMP is not looked at; success is returned after a failed upgrade. *)
CommandDone ==
    /\ at \in Commands \ {"CHECK_CRC"} /\ call \in {"pass", "fail"}
    /\ IF call = "pass" \/ at = "JUMP" THEN Follows(AfterPass(at)) ELSE Follows(AfterFail(at))
    /\ Noted(CASE at = "AUTO_READ_AGAIN" /\ call = "pass" -> {"not_burnt"}
               [] at = "JUMP" /\ call = "fail" -> {"jump"}
               [] OTHER -> {})
    /\ UNCHANGED <<model, resp, index, regin, regout, loader, started, ram>>

Loader == LoaderTakes \/ LoaderAnswers \/ LoaderBurns
Driver == \/ WaitRegin \/ WaitRegout \/ ReadVersion \/ InvalidateVersion \/ Prepare
          \/ FillRam \/ Fill \/ CrcDone \/ NextCommand \/ CommandDone

FwNext == Driver \/ CommandRefused \/ Loader \/ BlTimerFires \/ LateCallback

FwSpec == FwInit /\ [][FwNext]_fwVars
(* The loading process runs, and so does the kernel's timer; the boot loader may never answer. *)
FwFairSpec == FwSpec /\ WF_fwVars(Driver) /\ WF_fwVars(BlTimerFires)

-----------------------------------------------------------------------------
No(notes) == fwUpset \cap notes = {}

(* An answer that is read is the answer to the command that waits for it, as
   long as no command was given up after it had been written: REGOUT is
   invalidated with every answer taken, the board's version included. *)
AnswersMatch == No({"abandoned"}) => No({"mixed"})

(* A chunk is not written into a buffer the boot loader is still burning: the
   buffers take turns, and the answer to one announces the other. *)
BuffersInTurn == No({"mixed"}) => No({"torn"})

(* When the image that was burnt is started, the flash holds every chunk of it
   once and in order, the last, partial one too. *)
BurntWhole ==
    at = "LOAD" /\ index > 0 /\ No({"mixed"}) => loader.flash = [i \in 1 .. CHUNKS + (IF model.rest THEN 1 ELSE 0) |-> i]

(* An image that does not match the file is never started, unless its check ended
   without an answer, which the driver takes for a match. *)
StartsGoodImage ==
    started /\ model.chip = "9113" /\ No({"unchecked", "mixed"}) => loader.good

(* rsi_load_firmware reports success only with the image started, except after an
   upgrade that failed or a refused JUMP; on a 9116 the last chunk was written. *)
SuccessStarts ==
    at = "done" /\ No({"not_burnt", "jump"}) => started /\ CHUNKS \notin ram

(* Between two commands no command timer runs that would expire in the next. *)
TimerStopped == call = "no" /\ at # "version" => ~bl_timer

(* Loading the firmware ends, also when the boot loader goes silent, unless a delayed
   callback deletes the timer of the command that waits. *)
LoadReturns == <>(at \in {"done", "failed"} \/ "late_callback" \in fwUpset)

(* Safety of the start of the firmware: the parts above. *)
FwInv ==
    /\ FwTypeOK /\ AnswersMatch
    /\ BuffersInTurn /\ BurntWhole /\ StartsGoodImage /\ SuccessStarts /\ TimerStopped
=============================================================================
