-------------------------- MODULE BootLink_proofs ---------------------------
(***************************************************************************)
(* Theorems about BootLink, for every number of blocks, tasks and refusals *)
(* and every bootloader that is Punctual: app_main and the bootloader stay *)
(* in step, every block is programmed, no task gives a semaphore that is   *)
(* gone, the tasks never pile up, and the link implements FlashJob.        *)
(***************************************************************************)
EXTENDS BootLink_tasks, BootLink_steps

-----------------------------------------------------------------------------
(* The initial state *)

\* app_main starts in its first pause, with every slot free.
LEMMA TypeInit == Init => TypeOK
<1> SUFFICES ASSUME Init PROVE TypeOK
  OBVIOUS
<1>1. line \in Seq(Answers \union {"other"})
  <2>1. PICK n \in Stale : line = [i \in 1..n |-> "other"]
    BY DEF Init
  <2>2. n \in Nat
    BY LinkAssumption
  <2> QED
    BY <2>1, <2>2
<1>2. /\ 1 \in 1..Len(Script) + 1 /\ 0 \in 0..NBlocks /\ 0 \in 0..MaxNacks
  BY LinkAssumption, ScriptSteps
<1>3. <<>> \in Seq(Answers \union {"other"})
  OBVIOUS
<1>4. main \in [at : {"pause", "lead", "send", "wait", "take", "linger", "done", "panic"},
                timer : 0..AnswerTimeout, step : 1..Len(Script) + 1,
                wait : 1..3, seen : SUBSET Answers, result : {0, -1}]
  BY <1>2 DEF Init, AnswerTimeout
<1>5. dev \in [mode : {"baud", "half", "idle", "unprotect", "global", "address", "block"},
               heard : Frames \union {"none"}, age : Nat,
               erased : BOOLEAN, blocks : 0..NBlocks, nacks : 0..MaxNacks]
  BY <1>2 DEF Init
<1>6. rx \in [Rx -> [at : {"off", "loop", "mux", "read", "first", "between", "after"},
                     timer : 0..ReadTimeout, got : Seq(Answers \union {"other"})]]
  BY <1>3 DEF Init, IdleRx, ReadTimeout
<1>7. tx \in [Tx -> [at : {"off", "loop"}, timer : 0..TxPeriod]]
  BY DEF Init, TxPeriod
<1>8. /\ stop_tasks \in BOOLEAN /\ bits \subseteq Answers
      /\ sema \in {"none", "empty", "full"} /\ mux \in Rx \union {"free"}
  BY DEF Init
<1> QED
  BY <1>1, <1>4, <1>5, <1>6, <1>7, <1>8 DEF TypeOK

\* The buffer holds one stale byte at most.
LEMMA FlowInit ==
  ASSUME Punctual, Init
  PROVE  FlowStale
<1>1. PICK n \in Stale : line = [i \in 1..n |-> "other"]
  BY DEF Init
<1>2. PICK r \in Rx : TRUE
  BY LinkAssumption
<1>3. \A q \in Rx : Owes(q) = <<>>
  BY DEF Init, IdleRx, Owes
<1>4. n = 0 \/ n = 1
  BY DEF Punctual
<1>5. CASE n = 0
  <2>1. line = <<>>
    BY <1>1, <1>5
  <2>2. <<>> = Owes(r) \o line
    BY <1>3, <2>1, ConcatEmptySeq, EmptySeq
  <2> QED
    BY <1>3, <2>2 DEF Flow, FlowStale
<1>6. CASE n = 1
  <2>1. line = <<"other">>
    BY <1>1, <1>6
  <2>2. <<"other">> = Owes(r) \o line
    BY <1>3, <2>1, ShortSequences
  <2> QED
    BY <1>3, <2>2 DEF Flow, FlowStale, Init
<1> QED
  BY <1>4, <1>5, <1>6

\* Every part of the invariant holds before the first command.
LEMMA InvInit ==
  ASSUME Punctual, Init
  PROVE  Inv
<1>1. TypeOK
  BY TypeInit
<1>2. ShapeInv
  BY LinkAssumption DEF Init, ShapeInv, RxShape, TxShape, DevShape, IdleRx
<1>3. MainInv
  <2>1. /\ main.at = "pause" /\ main.step = 1 /\ main.result = 0
        /\ dev.heard = "none" /\ dev.mode = "baud" /\ dev.erased = FALSE /\ dev.blocks = 0
        /\ sema = "none" /\ bits = {}
    BY DEF Init
  <2>2. dev.mode = RestMode(main.step) /\ Progress(main.step)
    BY <2>1 DEF RestMode, Progress
  <2> QED
    BY <2>1, <2>2, FlowInit
       DEF MainInv, Place, AtRest, AtLead, AtSend, AtWait, AtTake, AtLinger
<1>4. TaskInv
  BY DEF Init, TaskInv, Alone, Handling, LingerTime, AnswerTime, InitTime, IdleRx, Busy,
         Posted, Unborn
<1>5. TxInv
  BY DEF Init, TxInv
<1> QED
  BY <1>1, <1>2, <1>3, <1>4, <1>5 DEF Inv

-----------------------------------------------------------------------------
(* The invariant is inductive *)

\* A step of app_main keeps the invariant.
LEMMA MainStep ==
  ASSUME Inv, Punctual, AppMain
  PROVE  MainInv' /\ TaskInv' /\ TxInv'
BY EnterStep, ReadyStep, SendStep, WaitBitsStep, TakeStep, ReturnStep DEF AppMain

\* Nothing changes.
LEMMA StutterStep ==
  ASSUME Inv, UNCHANGED vars
  PROVE  Inv'
<1>1. UNCHANGED <<main, rx, tx, stop_tasks, bits, sema, mux, line, dev>>
  BY DEF vars
<1>2. \A p : Flow(p) => Flow(p)'
  BY <1>1, FlowSame
<1>3. ExchangeStays /\ (OnItsWay => OnItsWay') /\ (NotYetSent => NotYetSent')
  BY <1>1, <1>2, ExchangeKept DEF FlowStays, ExchangeStays
<1>4. TypeOK'
  BY <1>1, TypeParts, TypePartsNext DEF Inv
<1>5. ShapeInv'
  BY <1>1 DEF Inv, ShapeInv, RxShape, TxShape, DevShape
<1>6. MainInv'
  BY <1>1, <1>3, MainKept DEF Inv
<1>7. TaskInv'
  <2>1. Proc' = Proc /\ Reserve' = Reserve /\ (Posted' <=> Posted) /\ (Unborn' <=> Unborn)
        /\ Busy' = Busy
    BY <1>1 DEF Proc, Reserve, Posted, Unborn, Busy
  <2>2. Alone' /\ Handling' /\ LingerTime' /\ AnswerTime'
    BY <1>1, <2>1 DEF Inv, TaskInv, Alone, Handling, LingerTime, AnswerTime
  <2>3. InitTime'
    BY <1>1, <1>3, <2>1 DEF Inv, TaskInv, InitTime
  <2> QED
    BY <2>2, <2>3 DEF TaskInv
<1>8. TxInv'
  BY <1>1, <1>3, TxKept DEF Inv
<1> QED
  BY <1>4, <1>5, <1>6, <1>7, <1>8 DEF Inv

\* The invariant is inductive.
LEMMA InvNext ==
  ASSUME Inv, Punctual, [Next]_vars
  PROVE  Inv'
<1>1. CASE Next
  <2>1. TypeOK'
    <3>1. AppMain => TypeOK'
      BY TypeMain DEF Inv, MainInv
    <3>2. Device => TypeOK'
      BY TypeDevice, BlockLeft DEF Inv
    <3>3. Tick => TypeOK'
      BY TypeTick DEF Inv
    <3>4. (\E r \in Rx : RxTask(r)) => TypeOK'
      BY TypeRx DEF Inv
    <3>5. (\E t \in Tx : TxLoop(t)) => TypeOK'
      BY TypeTx DEF Inv
    <3> QED
      BY <1>1, <3>1, <3>2, <3>3, <3>4, <3>5 DEF Next
  <2>2. ShapeInv'
    BY <1>1, <2>1, RxShapeStep, TxShapeStep, DevShapeStep DEF Inv, ShapeInv
  <2>3. MainInv' /\ TaskInv' /\ TxInv'
    BY <1>1, MainStep, DeviceStep, TickStep, RxStep, TxLoopStep DEF Next
  <2> QED
    BY <2>1, <2>2, <2>3 DEF Inv
<1>2. CASE UNCHANGED vars
  BY <1>2, StutterStep
<1> QED
  BY <1>1, <1>2

\* The inductive invariant of the link holds at all times.
THEOREM Invariance ==
  ASSUME Punctual
  PROVE  Spec => []Inv
<1>1. Init => Inv
  BY InvInit
<1>2. Inv /\ [Next]_vars => Inv'
  BY InvNext
<1> QED
  BY <1>1, <1>2, PTL DEF Spec

-----------------------------------------------------------------------------
(* What follows from the invariant *)

\* Every variable of the link keeps its type (the records of uart_command.c).
THEOREM TypeCorrect ==
  ASSUME Punctual
  PROVE  Spec => []TypeOK
<1>1. Inv => TypeOK
  BY DEF Inv
<1> QED
  BY <1>1, Invariance, PTL

\* app_main and the bootloader stay in step.
THEOREM StaysInStep ==
  ASSUME Punctual
  PROVE  Spec => []InStep
<1>1. Inv => InStep
  <2> SUFFICES ASSUME Inv, main.at = "send", main.result = 0
               PROVE  /\ dev.mode = Expects[Proc][main.wait]
                           \/ (Proc = "readout_unprotect" /\ dev.mode = "baud")
                      /\ dev.heard \in {"none", "unprotected"}
    BY DEF InStep
  <2>1. CASE main.step = 2 /\ main.wait = 2
    <3>1. SecondComing /\ Proc = "readout_unprotect"
      BY <2>1, Sending DEF Inv, MainInv, AtSend
    <3> QED
      BY <2>1, <3>1, Tables DEF SecondComing
  <2>2. CASE ~(main.step = 2 /\ main.wait = 2)
    <3>1. dev.heard = "none" /\ AtPart(main.wait, 0)
      BY <2>2 DEF Inv, MainInv, AtSend
    <3>2. main.wait <= Waits[Proc]
      BY DEF Inv, MainInv, Place
    <3> QED
      BY <3>1, <3>2 DEF AtPart
  <2> QED
    BY <2>1, <2>2
<1> QED
  BY <1>1, Invariance, PTL

\* When uart_boot_firmware gets to FLASHBOOT, the flash was erased and all its
\* blocks were acknowledged (uart_command.c:350-368).
THEOREM EverythingProgrammed ==
  ASSUME Punctual
  PROVE  Spec => []AllProgrammed
<1>1. Inv => AllProgrammed
  <2> SUFFICES ASSUME Inv, main.at = "done" PROVE dev.erased /\ dev.blocks = NBlocks
    BY DEF AllProgrammed
  <2>1. main.step > Len(Script) /\ Progress(main.step)
    BY DEF Inv, MainInv, Place, AtRest
  <2>2. /\ main.step \in 1..NBlocks + 5 /\ NBlocks \in Nat /\ Len(Script) = NBlocks + 4
        /\ dev.blocks \in Nat
    BY Types, Numbers, ScriptSteps, LinkAssumption DEF Inv
  <2>3. main.step = NBlocks + 5
    BY <2>1, <2>2
  <2> QED
    BY <2>1, <2>2, <2>3 DEF Progress
<1> QED
  BY <1>1, Invariance, PTL

\* No rx_task gives the semaphore after vSemaphoreDelete (uart_command.c:144, 222).
THEOREM PanicImpossible ==
  ASSUME Punctual
  PROVE  Spec => []NeverPanics
<1>1. Inv => NeverPanics
  BY DEF Inv, MainInv, Place, NeverPanics
<1> QED
  BY <1>1, Invariance, PTL

-----------------------------------------------------------------------------
(* The flashing job *)

\* app_main's record when no step is its own.
LEMMA RxLeavesMain ==
  ASSUME Inv', NEW r \in Rx, RxTask(r)
  PROVE  UNCHANGED <<main, dev>>
<1>1. main'.at # "panic"
  BY DEF Inv, MainInv, Place
<1>2. ASSUME NEW b, Post(b) PROVE main' = main
  <2> SUFFICES ASSUME main' = [main EXCEPT !.at = "panic"] PROVE main' = main
    BY <1>2 DEF Post
  <2> QED
    BY <1>1
<1>3. UNCHANGED dev
  BY DEF RxTask, RxLoop, RxLock, RxReceive, RxReturn, RxFirst, RxSecond, RxAfter
<1> QED
  BY <1>2, <1>3 DEF RxTask, RxLoop, RxLock, RxReceive, RxReturn, RxFirst, RxSecond, RxAfter

\* Of app_main's steps only the last is one of the job.
LEMMA JobAppMain ==
  ASSUME Inv, Inv', AppMain
  PROVE  [Job!Next]_(Job!vars)
<1>1. main \in Mains /\ dev \in Devs
  BY TypeParts DEF Inv
<1>2. ASSUME main.at # "done", main'.at # "done", dev'.erased = dev.erased, dev'.blocks = dev.blocks
      PROVE  [Job!Next]_(Job!vars)
  BY <1>2 DEF Job!vars
<1>3. CASE Enter
  <2>1. main.at = "pause" /\ dev' = dev
    BY <1>3 DEF Enter
  <2>2. CASE main.step > Len(Script)
    <3>1. main'.at = "done"
      BY <1>1, <1>3, <2>2 DEF Enter, Mains
    <3>2. /\ main.step \in 1..NBlocks + 5 /\ NBlocks \in Nat /\ Len(Script) = NBlocks + 4
          /\ Progress(main.step) /\ dev.erased \in BOOLEAN
      BY <2>1, Types, ScriptSteps, LinkAssumption DEF Inv, MainInv, AtRest
    <3>3. main.step = NBlocks + 5
      BY <2>2, <3>2
    <3>4. dev.erased /\ dev.blocks = NBlocks
      BY <3>2, <3>3 DEF Progress
    <3> QED
      BY <2>1, <3>1, <3>4 DEF Job!Next, Job!Finish
  <2>3. CASE ~(main.step > Len(Script))
    <3>1. main'.at = "lead"
      BY <1>1, <1>3, <2>3 DEF Enter, Mains
    <3> QED
      BY <1>2, <2>1, <3>1
  <2> QED
    BY <2>2, <2>3
<1>4. CASE Send
  <2>1. main.at = "send" /\ main'.at = "wait"
    BY <1>1, <1>4 DEF Send, Mains
  <2>2. dev'.erased = dev.erased /\ dev'.blocks = dev.blocks
    BY <1>1, <1>4 DEF Send, Hear, Devs
  <2> QED
    BY <1>2, <2>1, <2>2
<1>5. CASE Ready \/ WaitBits \/ Take \/ Return
  <2>1. dev' = dev
    BY <1>5 DEF Ready, WaitBits, Take, Return
  <2>2. main.at # "done"
    BY <1>5 DEF Ready, WaitBits, Take, Return
  <2>3. Ready => main'.at # "done"
    BY <1>1 DEF Ready, Mains
  <2>4. WaitBits => main'.at # "done"
    BY <1>1 DEF WaitBits, Mains
  <2>5. Take => main'.at # "done"
    BY <1>1 DEF Take, Mains
  <2>6. Return => main'.at # "done"
    BY <1>1 DEF Return, Mains
  <2> QED
    BY <1>2, <1>5, <2>1, <2>2, <2>3, <2>4, <2>5, <2>6
<1> QED
  BY <1>3, <1>4, <1>5 DEF AppMain

\* The bootloader's erase and its blocks are the job's.
LEMMA JobDevice ==
  ASSUME Inv, Device
  PROVE  [Job!Next]_(Job!vars)
<1>1. main' = main /\ dev.heard # "none" /\ dev \in Devs
  <2>1. dev \in Devs
    BY TypeParts DEF Inv
  <2>2. CASE DeviceAnswers
    BY <2>1, <2>2 DEF DeviceAnswers
  <2>3. CASE DeviceRefuses
    BY <2>1, <2>3 DEF DeviceRefuses, Accepted, Accepts
  <2> QED
    BY <2>2, <2>3 DEF Device
<1>2. main.at # "done" /\ (dev.heard = "block" => main.at = "wait" /\ Sent)
  BY <1>1, Hearing
<1>3. CASE DeviceRefuses
  <2>1. dev'.erased = dev.erased /\ dev'.blocks = dev.blocks
    BY <1>1, <1>3 DEF DeviceRefuses, Devs
  <2> QED
    BY <1>1, <2>1 DEF Job!vars
<1>4. CASE DeviceAnswers
  <2> DEFINE erased == dev.erased \/ (dev.mode = "global" /\ Accepted(dev.mode, dev.heard))
             blocks == CASE dev.mode = "global" /\ Accepted(dev.mode, dev.heard) -> 0
                         [] dev.mode = "block" /\ Accepted(dev.mode, dev.heard)  -> dev.blocks + 1
                         [] OTHER                                                -> dev.blocks
  <2>1. dev'.erased = erased /\ dev'.blocks = blocks
    BY <1>1, <1>4 DEF DeviceAnswers, Devs
  <2>2. CASE dev.mode = "global" /\ Accepted(dev.mode, dev.heard)
    BY <1>1, <1>2, <2>1, <2>2 DEF Job!Next, Job!Erase
  <2>3. CASE dev.mode = "block" /\ Accepted(dev.mode, dev.heard)
    <3>1. dev.heard = "block"
      BY <2>3 DEF Accepted, Accepts
    <3>2. Sent /\ dev.heard = Asked /\ dev.blocks < NBlocks
      BY <1>2, <2>3, <3>1, BlockLeft DEF Sent
    <3>3. main.step >= 5 /\ main.step \in Nat /\ Progress(main.step)
      BY <1>2, <3>1, <3>2, SentFrames
    <3>4. dev.erased
      BY <3>3 DEF Progress
    <3>5. dev'.erased /\ dev'.blocks = dev.blocks + 1
      BY <2>1, <2>3, <3>4
    <3> QED
      BY <1>1, <1>2, <3>2, <3>4, <3>5 DEF Job!Next, Job!Program
  <2>4. CASE ~(dev.mode \in {"global", "block"} /\ Accepted(dev.mode, dev.heard))
    <3>1. dev'.erased = dev.erased /\ dev'.blocks = dev.blocks
      BY <1>1, <2>1, <2>4 DEF Devs
    <3> QED
      BY <1>1, <3>1 DEF Job!vars
  <2> QED
    BY <2>2, <2>3, <2>4
<1> QED
  BY <1>3, <1>4 DEF Device

\* Every step of the link is a step of the job or leaves it alone.
LEMMA JobStep ==
  ASSUME Inv, Inv', [Next]_vars
  PROVE  [Job!Next]_(Job!vars)
<1>1. main \in Mains /\ dev \in Devs
  BY TypeParts DEF Inv
<1>2. ASSUME main'.at = main.at, dev'.erased = dev.erased, dev'.blocks = dev.blocks
      PROVE  [Job!Next]_(Job!vars)
  BY <1>2 DEF Job!vars
<1>3. CASE Tick
  <2>1. main'.at = main.at /\ dev'.erased = dev.erased /\ dev'.blocks = dev.blocks
    BY <1>3, TickFields
  <2> QED
    BY <1>2, <2>1
<1>4. CASE \E r \in Rx : RxTask(r)
  BY <1>2, <1>4, RxLeavesMain
<1>5. CASE \E t \in Tx : TxLoop(t)
  <2>1. main' = main /\ dev'.erased = dev.erased /\ dev'.blocks = dev.blocks
    BY <1>1, <1>5 DEF TxLoop, Hear, Devs
  <2> QED
    BY <1>2, <2>1
<1>6. CASE UNCHANGED vars
  BY <1>2, <1>6 DEF vars
<1> QED
  BY <1>3, <1>4, <1>5, <1>6, JobAppMain, JobDevice DEF Next

\* The link does its part of a flashing job.
THEOREM DoesTheJob ==
  ASSUME Punctual
  PROVE  Spec => JobSpec
<1>1. Init => Job!Init
  <2>1. Init => dev.erased = FALSE /\ dev.blocks = 0 /\ main.at = "pause"
    BY DEF Init
  <2> QED
    BY <2>1, LinkAssumption DEF Job!Init
<1>2. Inv /\ Inv' /\ [Next]_vars => [Job!Next]_(Job!vars)
  BY JobStep
<1> QED
  BY <1>1, <1>2, Invariance, PTL DEF Spec, JobSpec, Job!Spec

-----------------------------------------------------------------------------
(* The number of tasks *)

\* Slots are few, so the busy ones can be counted.
LEMMA Counting ==
  ASSUME EnoughSlots
  PROVE  /\ IsFiniteSet(Busy) /\ Cardinality(Busy) \in Nat
         /\ \A S : S \subseteq Busy => Cardinality(S) <= Cardinality(Busy)
         /\ \A r : Busy \subseteq {r} => Cardinality(Busy) <= 1
         /\ Busy = {} => Cardinality(Busy) = 0
<1>1. Busy \subseteq Rx /\ IsFiniteSet(Rx)
  BY DEF Busy, EnoughSlots
<1>2. IsFiniteSet(Busy)
  BY <1>1, FS_Subset
<1>3. \A S : S \subseteq Busy => Cardinality(S) <= Cardinality(Busy)
  BY <1>2, FS_Subset
<1>4. \A r : Busy \subseteq {r} => Cardinality(Busy) <= 1
  <2> SUFFICES ASSUME NEW r, Busy \subseteq {r} PROVE Cardinality(Busy) <= 1
    OBVIOUS
  <2>1. IsFiniteSet({r}) /\ Cardinality({r}) = 1
    BY FS_Singleton
  <2>2. Cardinality(Busy) <= Cardinality({r})
    BY <2>1, FS_Subset
  <2> QED
    BY <2>1, <2>2
<1> QED
  BY <1>2, <1>3, <1>4, FS_CardinalityType, FS_EmptySet

\* Between the tasks of one command and those of the next at most one is left
\* over, so the commands that write blocks never have more than four.
LEMMA CountStep ==
  ASSUME Inv, Inv', EnoughSlots, CountInv, [Next]_vars
  PROVE  CountInv'
<1> DEFINE n == Cardinality(Busy)
           m == Cardinality(Busy')
<1>1. /\ main \in Mains /\ main.step \in Nat /\ main.wait \in Nat /\ main.timer \in Nat
      /\ n \in Nat
  BY TypeParts, Numbers, Counting DEF Inv
<1>2. m = Cardinality(Busy)'
  OBVIOUS
<1>3. ASSUME main' = main, Busy' \subseteq Busy
      PROVE  CountInv'
  <2>1. m <= n /\ m \in Nat
    <3>1. m <= n
      BY <1>3, Counting
    <3>2. IsFiniteSet(Busy')
      BY <1>3, Counting, FS_Subset
    <3> QED
      BY <3>1, <3>2, FS_CardinalityType
  <2> HIDE DEF n, m
  <2> QED
    BY <1>1, <1>3, <2>1 DEF CountInv, n, m
<1>4. CASE Enter
  <2>1. /\ main.at = "pause" /\ main'.at \in {"done", "lead"} /\ main'.step = main.step
        /\ Busy' = Busy
    BY <1>1, <1>4 DEF Enter, Busy, Mains
  <2> QED
    BY <2>1 DEF CountInv
<1>5. CASE Ready
  <2>1. /\ main.at = "lead" /\ main'.at = "send" /\ main'.step = main.step
        /\ main'.wait = 1 /\ Busy' = Busy
    BY <1>1, <1>5 DEF Ready, Busy, Mains, Inv, MainInv, AtLead
  <2> QED
    BY <2>1 DEF CountInv
<1>6. CASE Send
  <2>1. /\ main.at = "send" /\ main'.at = "wait" /\ main'.step = main.step
        /\ main'.wait = main.wait
    BY <1>1, <1>6 DEF Send, Mains
  <2>2. m <= n + 1 /\ m \in Nat
    <3>1. CASE main.wait \in Spawns[Proc]
      <4>1. /\ NewRx \in Rx /\ rx[NewRx].at = "off"
            /\ rx' = [rx EXCEPT ![NewRx] = [rx[NewRx] EXCEPT !.at = "loop"]]
        BY <1>6, <3>1, SendTasks DEF Inv
      <4>2. Busy' = Busy \union {NewRx}
        BY <4>1, TypeParts DEF Inv, Busy, Rxs
      <4>3. Cardinality(Busy \union {NewRx}) <= n + 1
            /\ IsFiniteSet(Busy \union {NewRx})
        <5>1. NewRx \notin Busy /\ IsFiniteSet(Busy)
          BY <4>1, Counting DEF Busy
        <5>2. /\ IsFiniteSet(Busy \union {NewRx})
              /\ Cardinality(Busy \union {NewRx}) = Cardinality(Busy) + 1
          BY <5>1, FS_AddElement
        <5> QED
          BY <1>1, <5>2
      <4> QED
        BY <4>2, <4>3, FS_CardinalityType
    <3>2. CASE ~(main.wait \in Spawns[Proc])
      <4>1. Busy' = Busy
        BY <1>6, <3>2, SendTasks DEF Inv, Busy
      <4> QED
        BY <1>1, <4>1
    <3> QED
      BY <3>1, <3>2
  <2> HIDE DEF n, m
  <2> QED
    BY <1>1, <2>1, <2>2 DEF CountInv, n, m
<1>7. CASE WaitBits
  <2>1. /\ main.at = "wait" /\ main'.at = "take" /\ main'.step = main.step
        /\ main'.wait = main.wait /\ Busy' = Busy
    BY <1>1, <1>7 DEF WaitBits, Busy, Mains
  <2> QED
    BY <2>1 DEF CountInv
<1>8. CASE Take
  <2>1. main.at = "take" /\ Busy' = Busy /\ main'.step = main.step
    BY <1>1, <1>8 DEF Take, Busy, Mains
  <2>2. main.step > 4 => Waits[Proc] = 3 /\ Linger[Proc] = 15
    BY <2>1, Sending, Tables DEF Inv
  <2>3. main.wait <= Waits[Proc]
    BY <2>1 DEF Inv, MainInv, Place
  <2>4. CASE main.wait < Waits[Proc]
    <3>1. main'.at = "send" /\ main'.wait = main.wait + 1
      BY <1>1, <1>8, <2>4 DEF Take, Mains
    <3> QED
      BY <2>1, <3>1 DEF CountInv
  <2>5. CASE ~(main.wait < Waits[Proc])
    <3>1. main'.at = "linger" /\ main'.timer = Linger[Proc]
      BY <1>1, <1>8, <2>5 DEF Take, Mains
    <3>2. main.step > 4 => main'.timer = 15 /\ main.wait = 3
      BY <1>1, <2>2, <2>3, <2>5, <3>1
    <3> HIDE DEF n
    <3> QED
      BY <1>1, <2>1, <3>1, <3>2 DEF CountInv, n
  <2> QED
    BY <2>4, <2>5
<1>9. CASE Return
  <2>1. /\ main.at = "linger" /\ main.timer = 0 /\ main'.at = "pause" /\ Busy' = Busy
    BY <1>1, <1>9 DEF Return, Busy, Mains
  <2>2. n <= 1
    <3>1. CASE main.step > 4
      BY <2>1, <3>1 DEF CountInv
    <3>2. CASE ~(main.step > 4)
      <4>1. Busy = {}
        BY <1>1, <2>1, <3>2 DEF Inv, TaskInv, LingerTime
      <4> QED
        BY <4>1, Counting
    <3> QED
      BY <3>1, <3>2
  <2> QED
    BY <2>1, <2>2 DEF CountInv
<1>10. CASE Tick
  <2>1. /\ main'.at = main.at /\ main'.step = main.step /\ main'.wait = main.wait
        /\ main'.timer = main.timer - 1 /\ main.timer >= 1
        /\ main.at \in {"pause", "lead", "wait", "linger"}
    BY <1>10, TickFields
  <2>2. Busy' = Busy
    BY <1>10, TickTasks DEF Busy
  <2>3. main.at = "linger" /\ main'.timer < 5 => n <= 1
    <3> SUFFICES ASSUME main.at = "linger", main'.timer < 5 PROVE Busy \subseteq {mux}
      BY Counting
    <3> SUFFICES ASSUME NEW r \in Busy PROVE mux = r
      OBVIOUS
    <3>1. r \in Rx /\ rx[r].at # "off"
      BY DEF Busy
    <3>2. /\ rx[r].at \in {"mux", "read", "between", "after"}
          /\ rx[r].timer >= 1 /\ rx[r].timer \in Nat
      BY <1>10, <3>1, TickTasks
    <3>3. /\ rx[r].at \in {"between", "after"} => main.timer >= 9 + rx[r].timer
          /\ rx[r].at = "mux" => main.timer >= 5 + rx[r].timer
      BY DEF Inv, TaskInv, LingerTime
    <3>4. rx[r].at = "read"
      BY <1>1, <2>1, <3>2, <3>3
    <3> QED
      BY <3>1, <3>4 DEF Inv, ShapeInv, RxShape
  <2> HIDE DEF n, m
  <2> QED
    BY <2>1, <2>2, <2>3 DEF CountInv, n, m
<1>11. CASE Device \/ \E t \in Tx : TxLoop(t)
  <2>1. main' = main /\ rx' = rx
    BY <1>11 DEF Device, DeviceAnswers, DeviceRefuses, TxLoop
  <2> QED
    BY <1>3, <2>1 DEF Busy
<1>12. ASSUME NEW r \in Rx, RxTask(r) PROVE CountInv'
  <2>1. main' = main
    BY <1>12, RxLeavesMain
  <2>2. r \in Busy
    BY <1>12 DEF Busy, RxTask, RxLoop, RxLock, RxReceive, RxReturn, RxFirst, RxSecond, RxAfter
  <2>3. \A q \in Rx \ {r} : rx'[q] = rx[q]
    BY <1>12, TypeParts DEF Inv, RxTask, RxLoop, RxLock, RxReceive, RxReturn, RxFirst, RxSecond, RxAfter
  <2>4. Busy' \subseteq Busy
    BY <2>2, <2>3 DEF Busy
  <2> QED
    BY <1>3, <2>1, <2>4
<1>13. CASE UNCHANGED vars
  BY <1>3, <1>13 DEF vars, Busy
<1> QED
  BY <1>4, <1>5, <1>6, <1>7, <1>8, <1>9, <1>10, <1>11, <1>12, <1>13 DEF Next, AppMain

\* The tasks never take up every slot.
THEOREM TasksFew ==
  ASSUME Punctual, EnoughSlots
  PROVE  Spec => []TasksBounded
<1>1. Init => CountInv
  BY DEF Init, CountInv
<1>2. Inv /\ Inv' /\ CountInv /\ [Next]_vars => CountInv'
  BY CountStep
<1>3. Inv /\ CountInv => TasksBounded
  <2> SUFFICES ASSUME Inv, CountInv PROVE Busy # Rx
    BY DEF TasksBounded, Busy
  <2>1. Cardinality(Busy) <= 4
    <3>1. main.step \in Nat /\ main.wait \in 1..3 /\ Cardinality(Busy) \in Nat
          /\ main.at \in {"pause", "lead", "send", "wait", "take", "linger", "done", "panic"}
      BY Types, Numbers, Counting DEF Inv
    <3>2. CASE main.step > 4
      <4>1. main.at # "panic"
        BY DEF Inv, MainInv, Place
      <4> QED
        BY <3>1, <3>2, <4>1 DEF CountInv
    <3>3. CASE ~(main.step > 4)
      <4>1. \A q, r \in Busy : q = r
        BY <3>1, <3>3 DEF Inv, TaskInv, Alone
      <4>2. PICK r : Busy \subseteq {r}
        BY <4>1
      <4> QED
        BY <3>1, <4>2, Counting
    <3> QED
      BY <3>2, <3>3
  <2>2. Cardinality(Rx) > 4 /\ Cardinality(Busy) \in Nat /\ Cardinality(Rx) \in Nat
    BY Counting, FS_CardinalityType DEF EnoughSlots
  <2> QED
    BY <2>1, <2>2
<1> QED
  BY <1>1, <1>2, <1>3, Invariance, PTL DEF Spec
=============================================================================
