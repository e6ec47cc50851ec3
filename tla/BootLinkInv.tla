---------------------------- MODULE BootLinkInv ----------------------------
(***************************************************************************)
(* The inductive invariant behind the safety properties of BootLink, and   *)
(* the conditions on the bootloader it needs.  It says where the exchange  *)
(* with the bootloader is at each place of app_main, which bytes are on    *)
(* their way, and that the delays of uart_command.c leave every task the   *)
(* time it still needs.  BootLink_proofs proves it for every number of     *)
(* blocks, tasks and refusals; the run LinkInTime checks it with TLC.      *)
(***************************************************************************)
EXTENDS BootLink, FiniteSets

\* Answers that come soon enough for the delays in uart_command.c, at most one
\* byte left in the receive buffer, and no refusal of readout unprotect or of a
\* part of write_flash that others follow.
Punctual ==
  /\ Latency["INIT"] <= 3 /\ Latency["unprotect"] <= 29
  /\ \A f \in Frames : Latency[f] <= 39
  /\ Stale \subseteq {0, 1}
  /\ Refusable \intersect {"unprotect", "write", "address"} = {}

EnoughSlots == IsFiniteSet(Rx) /\ Cardinality(Rx) > 4

Busy == {r \in Rx : rx[r].at # "off"}

\* The bytes an rx task has read and will still look at, and the sequence of
\* those that are on their way to app_main: at most one task has any.
Owes(r) == IF rx[r].at \in {"read", "first"} THEN rx[r].got
           ELSE IF rx[r].at = "between" THEN Tail(rx[r].got)
           ELSE <<>>

Flow(p) == \E r \in Rx : /\ p = Owes(r) \o line
                         /\ \A q \in Rx \ {r} : Owes(q) = <<>>

\* The byte that was in the buffer before the first command.
FlowStale == Flow(<<>>) \/ (main.step = 1 /\ Flow(<<"other">>))

\* The bootloader has done what precedes step k of the script.
Progress(k) == /\ dev.erased <=> k > 4
               /\ dev.blocks = IF k > 5 THEN k - 5 ELSE 0

RestMode(k) == IF k \in {1, 3} THEN "baud" ELSE "idle"

\* It is at part w of the procedure, or past the last one, when the answers to
\* the parts before add up to result.
AtPart(w, result) ==
  IF result # 0 THEN dev.mode = "idle" /\ Progress(main.step)
  ELSE IF w <= Waits[Proc] THEN dev.mode = Expects[Proc][w] /\ Progress(main.step)
  ELSE dev.mode = RestMode(main.step + 1) /\ Progress(main.step + 1)

\* Answer x leads past the part that is under way; only what comes after the
\* bootloader's restart is refused, and of a block's parts only the last.
LeadsOn(x) ==
  /\ AtPart(main.wait + 1, IF x = "NACK" THEN -1 ELSE main.result)
  /\ main.step < 4 => x = "ACK"
  /\ main.step > 4 /\ main.wait < 3 => x = "ACK"

\* Of the two answers to readout unprotect the second is still to come.
SecondComing ==
  /\ \/ dev.heard = "unprotected" /\ dev.mode = "unprotect" /\ Flow(<<>>)
     \/ dev.heard = "none" /\ dev.mode = "baud" /\ Flow(<<"ACK">>)
  /\ Progress(2)

\* Answer x has reached app_main.
Answered(x) ==
  IF main.step = 2 /\ main.wait = 1
  THEN x = "ACK" /\ SecondComing
  ELSE dev.heard = "none" /\ Flow(<<>>) /\ LeadsOn(x)

\* The frame whose answer app_main waits for.
Asked == IF Proc = "init_line" THEN "INIT" ELSE Frame[Proc][main.wait]

\* Where that answer is: its frame is not yet sent, is with the bootloader, or
\* the answer is on its way back.
NotYetSent ==
  /\ Proc = "init_line" /\ main.timer = AnswerTimeout
  /\ \E t \in Tx : tx[t].at = "loop" /\ tx[t].timer = 0
  /\ dev.heard = "none" /\ FlowStale /\ AtPart(1, 0)

Sent ==
  /\ Asked # "none" /\ dev.heard = Asked /\ main.timer + dev.age = AnswerTimeout
  /\ FlowStale /\ AtPart(main.wait, main.result)

OnItsWay ==
  /\ main.step # 2 /\ dev.heard = "none"
  /\ \E x \in Answers : /\ Flow(<<x>>) \/ (main.step = 1 /\ Flow(<<"other", x>>))
                        /\ LeadsOn(x)

FirstOnItsWay ==
  /\ main.step = 2 /\ main.wait = 1 /\ Progress(2)
  /\ \/ dev.heard = "unprotected" /\ dev.mode = "unprotect" /\ Flow(<<"ACK">>)
     \/ dev.heard = "none" /\ dev.mode = "baud" /\ Flow(<<"ACK", "ACK">>)

SecondOnItsWay ==
  /\ main.step = 2 /\ main.wait = 2 /\ SecondComing
  /\ dev.heard # "none" => main.timer + dev.age >= AnswerTimeout

Coming == NotYetSent \/ Sent \/ OnItsWay \/ FirstOnItsWay \/ SecondOnItsWay

\* The semaphore, the event group and the exchange at each place of app_main.
AtRest ==
  main.at \in {"pause", "done"} =>
    /\ sema = "none" /\ bits = {} /\ dev.heard = "none" /\ FlowStale
    /\ dev.mode = RestMode(main.step) /\ Progress(main.step)

AtLead ==
  main.at = "lead" =>
    /\ sema = "empty" /\ bits = {} /\ dev.heard = "none" /\ FlowStale
    /\ main.wait = 1 /\ AtPart(1, 0)

AtSend ==
  main.at = "send" =>
    /\ sema = "empty" /\ bits = {}
    /\ IF main.step = 2 /\ main.wait = 2 THEN SecondComing
       ELSE /\ dev.heard = "none" /\ AtPart(main.wait, main.result)
            /\ IF main.wait = 1 THEN FlowStale ELSE Flow(<<>>)

AtWait ==
  main.at = "wait" =>
    \/ sema = "empty" /\ bits = {} /\ Coming
    \/ sema = "full" /\ \E x \in Answers : bits = {x} /\ Answered(x)

AtTake ==
  main.at = "take" =>
    sema = "full" /\ bits = {} /\ \E x \in Answers : main.seen = {x} /\ Answered(x)

AtLinger ==
  main.at = "linger" =>
    /\ sema = "empty" /\ bits = {} /\ dev.heard = "none" /\ Flow(<<>>)
    /\ AtPart(Waits[Proc] + 1, main.result)

Place ==
  /\ main.at \in {"lead", "send", "wait", "take", "linger"} =>
       main.step <= Len(Script) /\ main.wait <= Waits[Proc]
  /\ main.at \in {"lead", "send", "wait", "take"} =>
       ~stop_tasks /\ (main.wait = 1 \/ main.step > 4 => main.result = 0)
  /\ main.at = "linger" => stop_tasks
  /\ main.at = "done" => main.step > Len(Script)
  /\ main.step < 4 => main.result = 0
  /\ main.at # "panic"

MainInv == Place /\ AtRest /\ AtLead /\ AtSend /\ AtWait /\ AtTake /\ AtLinger

\* The records of the tasks and of the bootloader, whatever app_main does.
RxShape ==
  \A r \in Rx :
    /\ rx[r].at \in {"off", "loop", "mux", "after"} => rx[r].got = <<>>
    /\ rx[r].at \in {"first", "between"} => rx[r].got # <<>>
    /\ rx[r].at \in {"between", "after"} => rx[r].timer <= HandleDelay
    /\ rx[r].at = "read" <=> mux = r

TxShape == \A t \in Tx : tx[t].at = "off" => tx[t].timer = 0

DevShape == dev.heard # "none" => dev.age <= Latency[dev.heard]

ShapeInv == RxShape /\ TxShape /\ DevShape

\* The time that is left when an answer is handled.
Reserve == IF Proc = "init_line" THEN 37
           ELSE IF main.wait = 1 /\ dev.heard = "unprotected" THEN 11 ELSE 1

\* The answer has come and the next wait has not begun; no task of the present
\* command has been created.
Posted == \/ main.at = "wait" /\ bits # {}
          \/ main.at = "take"
          \/ main.at = "send" /\ main.wait > 1

Unborn == \/ main.at \in {"pause", "lead", "done"}
          \/ main.at = "send" /\ main.wait = 1

\* Which rx tasks there are: before write_flash one at most.
Alone ==
  /\ Posted \/ main.at = "wait" => Busy # {}
  /\ main.step < 5 => \A q, r \in Busy : q = r
  /\ main.step < 5 /\ Unborn => Busy = {}

\* Where they are.
Handling ==
  /\ Unborn => \A r \in Rx : rx[r].at \notin {"between", "after"}
  /\ main.step < 5 /\ Posted =>
       \A r \in Busy : rx[r].at \in {"between", "after"} /\ rx[r].timer = HandleDelay
  /\ \A r \in Rx : rx[r].at = "between" => Len(rx[r].got) <= 2

\* The delay after stop_tasks is longer than what the tasks still have to do,
\* except for one that waits for the mutex at its end.
LingerTime ==
  main.at = "linger" => \A r \in Busy :
    /\ rx[r].at \in {"between", "after"} => main.timer >= 9 + rx[r].timer
    /\ rx[r].at = "mux" => main.timer >= 5 + rx[r].timer
    /\ main.step < 5 => rx[r].at \in {"between", "after", "loop"} /\ main.timer >= 9

\* The answer will be handled before the wait ends.
AnswerTime ==
  main.at = "wait" /\ bits = {} =>
    /\ line # <<>> => main.timer >= Reserve + ReadTimeout
    /\ \A r \in Busy :
         /\ rx[r].at = "read" /\ rx[r].got # <<>> => main.timer >= Reserve + rx[r].timer
         /\ rx[r].at = "first" => main.timer >= Reserve
         /\ rx[r].at \in {"between", "after"} =>
              main.timer >= rx[r].timer + (IF main.step = 1 THEN 36 ELSE 49)

\* In init_line, where a stale byte may come before the answer, both are handled
\* before tx_task sends again.
InitTime ==
  main.at = "wait" /\ Proc = "init_line" =>
    /\ bits # {} => main.timer \in 36..40
    /\ bits = {} => \A r \in Busy :
         /\ rx[r].at = "read" /\ rx[r].got # <<>> => main.timer <= 40 + rx[r].timer
         /\ rx[r].at \in {"first", "between"} => main.timer <= 40
         /\ main.step = 1 => /\ rx[r].at # "after"
                             /\ rx[r].at \in {"first", "between"} => line = <<>> /\ OnItsWay

TaskInv == Alone /\ Handling /\ LingerTime /\ AnswerTime /\ InitTime

\* tx_task is there only in init_line, and sends 0x7F once.
TxInv ==
  /\ \A t, u \in Tx : tx[t].at = "loop" /\ tx[u].at = "loop" => t = u
  /\ \A t \in Tx : tx[t].at = "loop" =>
       /\ main.at \in {"wait", "take", "linger"} /\ Proc = "init_line"
       /\ main.at = "wait" => NotYetSent \/ tx[t].timer + 35 = main.timer
       /\ main.at = "take" => tx[t].timer \in 1..5
       /\ main.at = "linger" => tx[t].timer + 5 <= main.timer

Inv == TypeOK /\ ShapeInv /\ MainInv /\ TaskInv /\ TxInv

\* How many rx tasks there are during write_flash.
CountInv == main.step > 4 =>
  /\ main.at \in {"pause", "lead", "done"} => Cardinality(Busy) <= 1
  /\ main.at = "send" => Cardinality(Busy) <= main.wait
  /\ main.at \in {"wait", "take"} => Cardinality(Busy) <= main.wait + 1
  /\ main.at = "linger" => Cardinality(Busy) <= 4 /\ (main.timer < 5 => Cardinality(Busy) <= 1)
=============================================================================
