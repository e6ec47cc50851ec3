----------------------------- MODULE BootLink ------------------------------
(***************************************************************************)
(* The UART link of uart_command.c while uart_boot_firmware drives the     *)
(* STM32's system bootloader: the app_main task inside init_line,          *)
(* readout_unprotect, erase and write_flash, the rx and tx tasks those     *)
(* create, the event group, the binary semaphore, the driver's receive     *)
(* buffer with its mutex, and the delays that are meant to keep the tasks  *)
(* of one command from running into the next.                              *)
(*                                                                         *)
(* Time passes in units of 100 ms, the grain of every delay in the code,   *)
(* and only when no task can run.  The four command procedures follow one  *)
(* pattern and differ in the operators Waits, Frame, Spawns, Lead, Linger. *)
(***************************************************************************)
EXTENDS Integers, Sequences

CONSTANTS NBlocks,     \* blocks flash_firmware cuts the firmware file into
          Latency,     \* longest time the bootloader takes to answer each frame
          Refusable,   \* frames the bootloader may answer with NACK
          MaxNacks,    \* bound: refusals in a behaviour
          Stale,       \* bytes the receive buffer may hold at the start
          Rx, Tx       \* bound: slots for rx and tx tasks

\* What reaches the bootloader; "unprotected" is the end of the mass erase it
\* does on its own after "unprotect".
Frames  == {"INIT", "unprotect", "unprotected", "erase", "global",
            "write", "address", "block"}

ASSUME LinkAssumption ==
  /\ NBlocks \in Nat /\ MaxNacks \in Nat /\ Stale \subseteq Nat
  /\ Rx # {} /\ "free" \notin Rx
  /\ Latency \in [Frames -> Nat]

VARIABLES main,        \* the app_main task
          rx, tx,      \* the tasks of each slot
          stop_tasks,
          bits,        \* event_group
          sema,        \* "none" when NULL, else "empty" or "full"
          mux,         \* the rx_mux inside uart_read_bytes: a slot or "free"
          line,        \* bytes in the receive buffer
          dev          \* the bootloader

vars == <<main, rx, tx, stop_tasks, bits, sema, mux, line, dev>>

-----------------------------------------------------------------------------
(* The command procedures *)

Script == <<"init_line", "readout_unprotect", "init_line", "erase">>
          \o [i \in 1..NBlocks |-> "write_flash"]

\* How many times the procedure waits for an answer.
Waits == [init_line |-> 1, readout_unprotect |-> 2, erase |-> 2, write_flash |-> 3]

\* What it sends before each wait; init_line leaves that to tx_task.
Frame == [init_line         |-> <<"none">>,
          readout_unprotect |-> <<"unprotect", "none">>,
          erase             |-> <<"erase", "global">>,
          write_flash       |-> <<"write", "address", "block">>]

\* The waits before which it creates an rx_task.
Spawns == [init_line |-> {1}, readout_unprotect |-> {1}, erase |-> {1},
           write_flash |-> {1, 2, 3}]

\* The delay before the tasks are created and the one after stop_tasks is set.
Lead == [init_line |-> 5, readout_unprotect |-> 0, erase |-> 0, write_flash |-> 0]

\* Mutant: nothing waits for the tasks to exit.
LingerNone == [proc \in DOMAIN Waits |-> 0]

Linger == [init_line |-> 10, readout_unprotect |-> 20, erase |-> 20, write_flash |-> 15]

\* The delay in uart_boot_firmware after a call that returned 0, or -1.
Pause == [init_line |-> 1, readout_unprotect |-> 3, erase |-> 0, write_flash |-> 0]
Gap(proc, result) ==
  IF result = 0 THEN Pause[proc] ELSE IF proc = "write_flash" THEN 0 ELSE 1

AnswerTimeout == 50   \* pdMS_TO_TICKS(5000) of xEventGroupWaitBits
ReadTimeout   == 10   \* 1000 ms of uart_read_bytes
TxPeriod      == 15
HandleDelay   == 1

Answers == {"ACK", "NACK"}

TypeOK ==
  /\ main \in [at : {"pause", "lead", "send", "wait", "take", "linger", "done", "panic"},
               timer : 0..AnswerTimeout, step : 1..Len(Script) + 1,
               wait : 1..3, seen : SUBSET Answers, result : {0, -1}]
  /\ rx \in [Rx -> [at : {"off", "loop", "mux", "read", "first", "between", "after"},
                    timer : 0..ReadTimeout, got : Seq(Answers \union {"other"})]]
  /\ tx \in [Tx -> [at : {"off", "loop"}, timer : 0..TxPeriod]]
  /\ stop_tasks \in BOOLEAN
  /\ bits \subseteq Answers
  /\ sema \in {"none", "empty", "full"}
  /\ mux \in Rx \union {"free"}
  /\ line \in Seq(Answers \union {"other"})
  /\ dev \in [mode : {"baud", "half", "idle", "unprotect", "global", "address", "block"},
              heard : Frames \union {"none"}, age : Nat,
              erased : BOOLEAN, blocks : 0..NBlocks, nacks : 0..MaxNacks]

IdleRx == [at |-> "off", timer |-> 0, got |-> <<>>]

\* control.c has just reset the STM32 into its bootloader.
Init ==
  /\ main = [at |-> "pause", timer |-> 0, step |-> 1, wait |-> 1, seen |-> {}, result |-> 0]
  /\ rx = [r \in Rx |-> IdleRx]
  /\ tx = [t \in Tx |-> [at |-> "off", timer |-> 0]]
  /\ stop_tasks = FALSE /\ bits = {} /\ sema = "none" /\ mux = "free"
  /\ line \in {[i \in 1..n |-> "other"] : n \in Stale}
  /\ dev = [mode |-> "baud", heard |-> "none", age |-> 0,
            erased |-> FALSE, blocks |-> 0, nacks |-> 0]

Proc == Script[main.step]

-----------------------------------------------------------------------------
(* The bootloader, as the code expects it.  A frame that arrives while it   *)
(* is still busy with the one before is lost.                               *)

Hear(frame) ==
  dev' = IF frame = "none" \/ dev.heard # "none" THEN dev
         ELSE [dev EXCEPT !.heard = frame, !.age = 0]

\* What each mode accepts, and the mode it leads to.
Accepts == [idle    |-> {"unprotect", "erase", "write"}, global |-> {"global"},
            address |-> {"address"}, block |-> {"block"}]
Leads   == [unprotect |-> "unprotect", erase |-> "global", write |-> "address",
            global |-> "idle", address |-> "block", block |-> "idle"]

Accepted(mode, frame) == mode \in DOMAIN Accepts /\ frame \in Accepts[mode]

\* A frame the bootloader is not waiting for.  It waits for a command and takes
\* the bytes two by two: two that are no command are refused, one left over is
\* half of the next.  A command is two bytes, an address five, a full block 254,
\* the last one any number.  Of a burst of refusals rx_task looks at two.
Garbled(mode, frame) ==
  CASE frame = "INIT"    -> {IF mode = "idle" THEN [say |-> <<>>, mode |-> "half"]
                                              ELSE [say |-> <<"NACK">>, mode |-> "idle"]}
    [] frame = "address" -> [say : {<<"NACK", "NACK">>}, mode : {"idle", "half"} \ {mode}]
    [] frame = "block"   -> [say : {<<"NACK">>, <<"NACK", "NACK">>}, mode : {"idle", "half"}]
    [] OTHER             -> {[say |-> <<"NACK">>, mode |-> mode]}

\* 0x7F sets the baud rate once; later it is half of a command.  Readout
\* unprotect answers twice and ends in a reset.
Responses(mode, frame) ==
  CASE mode = "baud" /\ frame = "INIT" -> {[say |-> <<"ACK">>, mode |-> "idle"]}
    [] mode = "baud" /\ frame # "INIT" -> {[say |-> <<>>,      mode |-> "baud"]}
    [] mode = "unprotect"              -> {[say |-> <<"ACK">>, mode |-> "baud"]}
    [] Accepted(mode, frame)           -> {[say |-> <<"ACK">>, mode |-> Leads[frame]]}
    [] mode \in {"idle", "half"} /\ ~Accepted(mode, frame) -> Garbled(mode, frame)
    [] OTHER                           -> {[say |-> <<"NACK">>, mode |-> "idle"]}

DeviceAnswers ==
  /\ dev.heard # "none"
  /\ \E reply \in Responses(dev.mode, dev.heard) :
       /\ line' = line \o reply.say
       /\ dev' = [dev EXCEPT
            !.mode = reply.mode,
            !.heard = IF reply.mode = "unprotect" THEN "unprotected" ELSE "none",
            !.age = 0,
            !.erased = @ \/ (dev.mode = "global" /\ Accepted(dev.mode, dev.heard)),
            !.blocks = CASE dev.mode = "global" /\ Accepted(dev.mode, dev.heard) -> 0
                         [] dev.mode = "block" /\ Accepted(dev.mode, dev.heard)  -> @ + 1
                         [] OTHER                                                -> @]
  /\ UNCHANGED <<main, rx, tx, stop_tasks, bits, sema, mux>>

DeviceRefuses ==
  /\ dev.heard \in Refusable /\ dev.nacks < MaxNacks
  /\ Accepted(dev.mode, dev.heard)
  /\ line' = Append(line, "NACK")
  /\ dev' = [dev EXCEPT !.mode = "idle", !.heard = "none", !.age = 0, !.nacks = @ + 1]
  /\ UNCHANGED <<main, rx, tx, stop_tasks, bits, sema, mux>>

-----------------------------------------------------------------------------
(* app_main *)

\* Mutant: the result of the previous call is kept.
EnterKeepsResult ==
  /\ main.at = "pause" /\ main.timer = 0
  /\ IF main.step > Len(Script)
       THEN /\ main' = [main EXCEPT !.at = "done"]
            /\ UNCHANGED <<stop_tasks, sema>>
       ELSE /\ main' = [main EXCEPT !.at = "lead", !.timer = Lead[Proc], !.wait = 1]
            /\ stop_tasks' = FALSE /\ sema' = "empty"
  /\ UNCHANGED <<rx, tx, bits, mux, line, dev>>

\* The procedure's first lines.
Enter ==
  /\ main.at = "pause" /\ main.timer = 0
  /\ IF main.step > Len(Script)
       THEN /\ main' = [main EXCEPT !.at = "done"]
            /\ UNCHANGED <<stop_tasks, sema>>
       ELSE /\ main' = [main EXCEPT !.at = "lead", !.timer = Lead[Proc],
                                    !.wait = 1, !.result = 0]
            /\ stop_tasks' = FALSE /\ sema' = "empty"
  /\ UNCHANGED <<rx, tx, bits, mux, line, dev>>

Ready ==
  /\ main.at = "lead" /\ main.timer = 0
  /\ main' = [main EXCEPT !.at = "send"]
  /\ UNCHANGED <<rx, tx, stop_tasks, bits, sema, mux, line, dev>>

\* Sends the frame, creates the tasks and blocks on the event group.
Send ==
  /\ main.at = "send"
  /\ main' = [main EXCEPT !.at = "wait", !.timer = AnswerTimeout]
  /\ IF main.wait \in Spawns[Proc]
       THEN /\ \E r \in Rx : rx[r].at = "off"
            /\ rx' = [rx EXCEPT ![CHOOSE r \in Rx : rx[r].at = "off"].at = "loop"]
       ELSE UNCHANGED rx
  /\ IF Proc = "init_line"
       THEN /\ \E t \in Tx : tx[t].at = "off"
            /\ tx' = [tx EXCEPT ![CHOOSE t \in Tx : tx[t].at = "off"].at = "loop"]
       ELSE UNCHANGED tx
  /\ Hear(Frame[Proc][main.wait])
  /\ UNCHANGED <<stop_tasks, bits, sema, mux, line>>

\* xEventGroupWaitBits returns the bits that are set, and clears them, or
\* none of them after 5 s.
WaitBits ==
  /\ main.at = "wait" /\ (bits # {} \/ main.timer = 0)
  /\ main' = [main EXCEPT !.at = "take", !.timer = 0, !.seen = bits]
  /\ bits' = {}
  /\ UNCHANGED <<rx, tx, stop_tasks, sema, mux, line, dev>>

\* xSemaphoreTake(sema, portMAX_DELAY): no timeout, and its failure branch is
\* never taken.  An answer is ACK, NACK (result -1) or neither bit (result
\* as it was); the bit is cleared a second time.
Take ==
  /\ main.at = "take" /\ sema = "full"
  /\ sema' = "empty"
  /\ bits' = bits \ (IF "ACK" \in main.seen THEN {"ACK"} ELSE main.seen)
  /\ LET result == IF main.seen = {"NACK"} THEN -1 ELSE main.result IN
     IF main.wait < Waits[Proc]
       THEN /\ main' = [main EXCEPT !.at = "send", !.wait = @ + 1, !.result = result,
                                    !.seen = {}]
            /\ UNCHANGED stop_tasks
       ELSE /\ main' = [main EXCEPT !.at = "linger", !.timer = Linger[Proc],
                                    !.result = result, !.seen = {}]
            /\ stop_tasks' = TRUE
  /\ UNCHANGED <<rx, tx, mux, line, dev>>

\* Mutant: the caller does not repeat a command that returned -1.
ReturnOnce ==
  /\ main.at = "linger" /\ main.timer = 0
  /\ sema' = "none"
  /\ main' = [main EXCEPT !.at = "pause", !.timer = Gap(Proc, main.result), !.wait = 1,
                          !.step = @ + 1]
  /\ UNCHANGED <<rx, tx, stop_tasks, bits, mux, line, dev>>

\* vSemaphoreDelete, the return, and the caller's retry loop.
Return ==
  /\ main.at = "linger" /\ main.timer = 0
  /\ sema' = "none"
  /\ main' = [main EXCEPT !.at = "pause", !.timer = Gap(Proc, main.result), !.wait = 1,
                          !.step = IF main.result = 0 THEN @ + 1 ELSE @]
  /\ UNCHANGED <<rx, tx, stop_tasks, bits, mux, line, dev>>

-----------------------------------------------------------------------------
(* rx_task *)

\* Mutant: the task never looks at stop_tasks.
RxLoopForever(r) ==
  /\ rx[r].at = "loop"
  /\ rx' = [rx EXCEPT ![r] = [at |-> "mux", timer |-> ReadTimeout, got |-> <<>>]]
  /\ UNCHANGED <<main, tx, stop_tasks, bits, sema, mux, line, dev>>

RxLoop(r) ==
  /\ rx[r].at = "loop"
  /\ rx' = [rx EXCEPT ![r] = IF stop_tasks THEN IdleRx
                             ELSE [at |-> "mux", timer |-> ReadTimeout, got |-> <<>>]]
  /\ UNCHANGED <<main, tx, stop_tasks, bits, sema, mux, line, dev>>

\* uart_read_bytes first takes rx_mux, and gives up with -1 after the timeout.
RxLock(r) ==
  /\ rx[r].at = "mux"
  /\ \/ /\ mux = "free" /\ mux' = r
        /\ rx' = [rx EXCEPT ![r].at = "read", ![r].timer = ReadTimeout]
     \/ /\ rx[r].timer = 0 /\ UNCHANGED mux
        /\ rx' = [rx EXCEPT ![r].at = "loop"]
  /\ UNCHANGED <<main, tx, stop_tasks, bits, sema, line, dev>>

\* Bytes that arrive start the timeout afresh; the read returns on silence.
RxReceive(r) ==
  /\ rx[r].at = "read" /\ line # <<>>
  /\ rx' = [rx EXCEPT ![r].got = @ \o line, ![r].timer = ReadTimeout]
  /\ line' = <<>>
  /\ UNCHANGED <<main, tx, stop_tasks, bits, sema, mux, dev>>

RxReturn(r) ==
  /\ rx[r].at = "read" /\ line = <<>> /\ rx[r].timer = 0
  /\ mux' = "free"
  /\ rx' = [rx EXCEPT ![r].at = IF rx[r].got = <<>> THEN "loop" ELSE "first"]
  /\ UNCHANGED <<main, tx, stop_tasks, bits, sema, line, dev>>

\* Sets the answer's bit and gives the semaphore; giving NULL is an assertion
\* failure inside FreeRTOS.
Post(byte) ==
  /\ bits' = IF byte \in Answers THEN bits \union {byte} ELSE bits
  /\ sema' = IF byte \in Answers /\ sema # "none" THEN "full" ELSE sema
  /\ main' = IF byte \in Answers /\ sema = "none" THEN [main EXCEPT !.at = "panic"] ELSE main

RxFirst(r) ==
  /\ rx[r].at = "first"
  /\ Post(rx[r].got[1])
  /\ rx' = [rx EXCEPT ![r].at = "between", ![r].timer = HandleDelay]
  /\ UNCHANGED <<tx, stop_tasks, mux, line, dev>>

\* Mutant: only the first byte of a read is looked at.
RxSecondIgnored(r) ==
  /\ rx[r].at = "between" /\ rx[r].timer = 0
  /\ rx' = [rx EXCEPT ![r] = [at |-> "loop", timer |-> 0, got |-> <<>>]]
  /\ UNCHANGED <<main, tx, stop_tasks, bits, sema, mux, line, dev>>

\* Only the first two bytes of a read are looked at.
RxSecond(r) ==
  /\ rx[r].at = "between" /\ rx[r].timer = 0
  /\ IF Len(rx[r].got) > 1
       THEN /\ Post(rx[r].got[2])
            /\ rx' = [rx EXCEPT ![r] = [at |-> "after", timer |-> HandleDelay, got |-> <<>>]]
       ELSE /\ rx' = [rx EXCEPT ![r] = [at |-> "loop", timer |-> 0, got |-> <<>>]]
            /\ UNCHANGED <<main, bits, sema>>
  /\ UNCHANGED <<tx, stop_tasks, mux, line, dev>>

RxAfter(r) ==
  /\ rx[r].at = "after" /\ rx[r].timer = 0
  /\ rx' = [rx EXCEPT ![r].at = "loop"]
  /\ UNCHANGED <<main, tx, stop_tasks, bits, sema, mux, line, dev>>

-----------------------------------------------------------------------------
(* tx_task sends 0x7F every 1500 ms *)

TxLoop(t) ==
  /\ tx[t].at = "loop" /\ tx[t].timer = 0
  /\ IF stop_tasks
       THEN tx' = [tx EXCEPT ![t].at = "off"] /\ UNCHANGED dev
       ELSE tx' = [tx EXCEPT ![t].timer = TxPeriod] /\ Hear("INIT")
  /\ UNCHANGED <<main, rx, stop_tasks, bits, sema, mux, line>>

-----------------------------------------------------------------------------
(* Time *)

MainReady == \/ main.at \in {"pause", "lead", "linger"} /\ main.timer = 0
             \/ main.at = "send"
             \/ main.at = "wait" /\ (bits # {} \/ main.timer = 0)
             \/ main.at = "take" /\ sema = "full"

RxReady(r) == \/ rx[r].at \in {"loop", "first"}
              \/ rx[r].at = "mux"  /\ (mux = "free" \/ rx[r].timer = 0)
              \/ rx[r].at = "read" /\ (line # <<>> \/ rx[r].timer = 0)
              \/ rx[r].at \in {"between", "after"} /\ rx[r].timer = 0

TxReady(t) == tx[t].at = "loop" /\ tx[t].timer = 0

Down(n) == IF n = 0 THEN 0 ELSE n - 1

Tick ==
  /\ main.at \notin {"done", "panic"}
  /\ ~MainReady /\ (\A r \in Rx : ~RxReady(r)) /\ (\A t \in Tx : ~TxReady(t))
  /\ dev.heard # "none" => dev.age < Latency[dev.heard]
  /\ main' = [main EXCEPT !.timer = Down(@)]
  /\ rx' = [r \in Rx |-> [rx[r] EXCEPT !.timer = Down(@)]]
  /\ tx' = [t \in Tx |-> [tx[t] EXCEPT !.timer = Down(@)]]
  /\ dev' = IF dev.heard = "none" THEN dev ELSE [dev EXCEPT !.age = @ + 1]
  /\ UNCHANGED <<stop_tasks, bits, sema, mux, line>>

-----------------------------------------------------------------------------
AppMain == Enter \/ Ready \/ Send \/ WaitBits \/ Take \/ Return
RxTask(r) == \/ RxLoop(r) \/ RxLock(r) \/ RxReceive(r) \/ RxReturn(r)
             \/ RxFirst(r) \/ RxSecond(r) \/ RxAfter(r)
Device == DeviceAnswers \/ DeviceRefuses

Next == \/ AppMain \/ Device \/ Tick
        \/ \E r \in Rx : RxTask(r)
        \/ \E t \in Tx : TxLoop(t)

Spec == Init /\ [][Next]_vars

\* Every ready task runs and the clock advances; the bootloader answers each
\* frame within its Latency because Tick waits for it.
FairSpec == Spec /\ WF_vars(Next)

-----------------------------------------------------------------------------
(* Properties *)

Expects == [init_line         |-> <<"baud">>,
            readout_unprotect |-> <<"idle", "unprotect">>,
            erase             |-> <<"idle", "global">>,
            write_flash       |-> <<"idle", "address", "block">>]

\* app_main and the bootloader stay in step: as long as no answer was a
\* refusal, app_main sends (or starts to wait for) the next part of a command
\* only when the bootloader is at that part, so no answer is ever credited to
\* a part it does not belong to (uart_command.c:203-212 and its repetitions).
InStep ==
  main.at = "send" /\ main.result = 0
    => /\ dev.mode = Expects[Proc][main.wait] \/ (Proc = "readout_unprotect" /\ dev.mode = "baud")
       /\ dev.heard \in {"none", "unprotected"}

\* When uart_boot_firmware gets to FLASHBOOT the flash was erased and every
\* block of the file was acknowledged, whatever was refused and repeated.
AllProgrammed == main.at = "done" => dev.erased /\ dev.blocks = NBlocks

\* The link's part of a flashing job: the bootloader erases before it programs,
\* and programs every block once, although refused commands are repeated and an
\* answer may come late (erase, flash_firmware).
Job == INSTANCE FlashJob WITH open <- dev.erased /\ main.at # "done", blocks <- dev.blocks,
                              total <- NBlocks, whole <- main.at = "done"
JobSpec == Job!Spec

\* No rx_task outlives its command by so much that it gives the semaphore
\* while sema is NULL (uart_command.c:144, 222, 282, 342, 460).
NeverPanics == main.at # "panic"

\* The tasks of a command are gone before they pile up: however many blocks
\* are written, and although a task may outlive the delay of its command, there
\* are never as many rx tasks as slots (uart_command.c:372, 401, 432, 456).
TasksBounded == \E r \in Rx : rx[r].at = "off"

\* "Timeout waiting for response" (uart_command.c:214, 254, 274): a wait that
\* no answer ended in time makes the command fail, so that it is repeated.
TimeoutFails ==
  [][main.at = "take" /\ main.seen = {} /\ main'.at # "take" => main'.result = -1]_vars

\* uart_boot_firmware gets to its end.
Finishes == <>(main.at = "done")
=============================================================================
