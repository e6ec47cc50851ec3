--------------------------- MODULE BootLink_steps ---------------------------
(***************************************************************************)
(* The steps of app_main, the answers of the bootloader and the clock keep *)
(* the invariant of BootLink.                                              *)
(***************************************************************************)
EXTENDS BootLink_lemmas

-----------------------------------------------------------------------------
(* Steps of app_main *)

\* app_main enters a procedure, or ends.
LEMMA EnterStep ==
  ASSUME Inv, Enter
  PROVE  MainInv' /\ TaskInv' /\ TxInv'
<1>1. /\ main.at = "pause" /\ main.timer = 0 /\ sema = "none" /\ bits = {}
      /\ dev.heard = "none" /\ FlowStale /\ dev.mode = RestMode(main.step) /\ Progress(main.step)
      /\ UNCHANGED <<rx, tx, bits, mux, line, dev>>
      /\ main.step \in 1..NBlocks + 5 /\ NBlocks \in Nat /\ Len(Script) = NBlocks + 4
      /\ \A t \in Tx : tx[t].at # "loop"
  BY Types, ScriptSteps, LinkAssumption DEF Enter, Inv, MainInv, AtRest, TxInv
<1>2. main'.step = main.step /\ main'.at \in {"done", "lead"}
  BY TypeParts DEF Enter, Inv, Mains
<1>3. /\ \A k : Progress(k)' <=> Progress(k)
      /\ FlowStale'
  BY <1>1, <1>2, PartKept, FlowSame DEF FlowStale
<1>4. MainInv'
  <2>1. CASE main.step > Len(Script)
    <3>1. main' = [main EXCEPT !.at = "done"] /\ sema' = sema
      BY <2>1 DEF Enter
    <3>2. main'.at = "done" /\ main'.result = main.result
      BY <3>1, TypeParts DEF Inv, Mains
    <3>3. AtRest'
      BY <1>1, <1>2, <1>3, <3>1, <3>2 DEF AtRest, RestMode, Progress
    <3>4. Place'
      BY <1>1, <1>2, <2>1, <3>2 DEF Place, Inv, MainInv
    <3> QED
      BY <3>2, <3>3, <3>4 DEF MainInv, AtLead, AtSend, AtWait, AtTake, AtLinger
  <2>2. CASE ~(main.step > Len(Script))
    <3>1. main' = [main EXCEPT !.at = "lead", !.timer = Lead[Proc], !.wait = 1, !.result = 0]
          /\ sema' = "empty" /\ stop_tasks' = FALSE
      BY <2>2 DEF Enter
    <3>2. main'.at = "lead" /\ main'.result = 0 /\ main'.wait = 1
      BY <3>1, TypeParts DEF Inv, Mains
    <3>3. Proc' = Proc /\ main.step <= Len(Script) /\ main.step \in Nat
      BY <1>1, <1>2, <2>2 DEF Proc
    <3>4. /\ Proc \in {"init_line", "readout_unprotect", "erase", "write_flash"}
          /\ Expects[Proc][1] = RestMode(main.step)
      BY <3>3, Procs, Tables DEF Inv, RestMode
    <3>5. 1 <= Waits[Proc]
      BY <3>4, Tables
    <3>6. Place'
      BY <1>1, <1>2, <2>2, <3>1, <3>2, <3>3, <3>5 DEF Place
    <3>7. AtPart(1, 0)'
      BY <1>1, <1>2, <3>3, <3>4, <3>5 DEF AtPart, Progress
    <3>8. AtLead'
      BY <1>1, <1>3, <3>1, <3>2, <3>7 DEF AtLead
    <3> QED
      BY <3>2, <3>6, <3>8 DEF MainInv, AtRest, AtSend, AtWait, AtTake, AtLinger
  <2> QED
    BY <2>1, <2>2
<1>5. TaskInv'
  <2>1. Unborn /\ Unborn' /\ ~Posted' /\ Busy' = Busy /\ main'.at \notin {"wait", "linger"}
    BY <1>1, <1>2 DEF Unborn, Posted, Busy
  <2>2. Alone'
    BY <1>2, <2>1 DEF Inv, TaskInv, Alone
  <2>3. Handling'
    BY <1>1, <2>1 DEF Inv, TaskInv, Handling
  <2> QED
    BY <2>1, <2>2, <2>3 DEF TaskInv, LingerTime, AnswerTime, InitTime
<1>6. TxInv'
  BY <1>1 DEF TxInv
<1> QED
  BY <1>4, <1>5, <1>6

\* The lead-in delay is over.
LEMMA ReadyStep ==
  ASSUME Inv, Ready
  PROVE  MainInv' /\ TaskInv' /\ TxInv'
<1>1. /\ main.at = "lead" /\ sema = "empty" /\ bits = {} /\ dev.heard = "none" /\ FlowStale
      /\ main.wait = 1 /\ main.result = 0 /\ AtPart(1, 0)
      /\ UNCHANGED <<rx, tx, stop_tasks, bits, sema, mux, line, dev>>
      /\ \A t \in Tx : tx[t].at # "loop"
  BY DEF Ready, Inv, MainInv, Place, AtLead, TxInv
<1>2. /\ main'.at = "send" /\ main'.step = main.step /\ main'.wait = 1 /\ main'.result = 0
  BY <1>1, TypeParts DEF Ready, Inv, Mains
<1>3. /\ \A w, x : AtPart(w, x)' <=> AtPart(w, x)
      /\ FlowStale' /\ Proc' = Proc
  BY <1>1, <1>2, PartKept, FlowSame DEF FlowStale
<1>4. AtPart(main.wait, main.result)'
  BY <1>1, <1>2, <1>3 DEF AtPart, Progress
<1>5. MainInv'
  <2>1. Place'
    BY <1>1, <1>2, <1>3 DEF Inv, MainInv, Place
  <2>2. AtSend'
    BY <1>1, <1>2, <1>3, <1>4 DEF AtSend
  <2> QED
    BY <1>2, <2>1, <2>2 DEF MainInv, AtRest, AtLead, AtWait, AtTake, AtLinger
<1>6. TaskInv'
  <2>1. Unborn /\ Unborn' /\ ~Posted' /\ Busy' = Busy
    BY <1>1, <1>2 DEF Unborn, Posted, Busy
  <2>2. Alone'
    BY <1>2, <2>1 DEF Inv, TaskInv, Alone
  <2>3. Handling'
    BY <1>1, <2>1 DEF Inv, TaskInv, Handling
  <2> QED
    BY <1>2, <2>2, <2>3 DEF TaskInv, LingerTime, AnswerTime, InitTime
<1>7. TxInv'
  BY <1>1 DEF TxInv
<1> QED
  BY <1>5, <1>6, <1>7

\* A frame goes out and its tasks are created.
LEMMA SendStep ==
  ASSUME Inv, Send
  PROVE  MainInv' /\ TaskInv' /\ TxInv'
<1>1. /\ main.at = "send" /\ sema = "empty" /\ bits = {} /\ ~stop_tasks
      /\ main.wait = 1 => main.result = 0
      /\ UNCHANGED <<stop_tasks, bits, sema, mux, line>>
      /\ \A t \in Tx : tx[t].at # "loop"
      /\ main.step <= Len(Script) /\ main.wait <= Waits[Proc]
  BY DEF Send, Inv, MainInv, Place, AtSend, TxInv
<1>2. /\ main'.at = "wait" /\ main'.timer = 50 /\ main'.step = main.step
      /\ main'.wait = main.wait /\ main'.result = main.result /\ Proc' = Proc
  BY TypeParts DEF Send, Inv, Mains, Proc, AnswerTimeout
<1>3. /\ main.step \in Nat /\ main.step >= 1 /\ main.wait \in 1..3
      /\ \/ main.step \in {1, 3} /\ Proc = "init_line" /\ main.wait = 1
         \/ main.step = 2 /\ Proc = "readout_unprotect" /\ main.wait \in {1, 2}
         \/ main.step = 4 /\ Proc = "erase" /\ main.wait \in {1, 2}
         \/ main.step >= 5 /\ Proc = "write_flash"
  BY <1>1, Sending
<1> DEFINE new == IF main.wait \in Spawns[Proc] THEN {NewRx} ELSE {}
<1>4. /\ new \subseteq Rx
      /\ \A r \in new : rx[r].at = "off" /\ rx'[r].at = "loop" /\ rx'[r].got = <<>>
      /\ \A r \in Rx : r \notin new => rx'[r] = rx[r]
      /\ \A r, s \in new : r = s
  BY TypeParts, SendTasks DEF Inv, Rxs, ShapeInv, RxShape
<1> HIDE DEF new
<1>5. Busy' = Busy \union new
  BY <1>4 DEF Busy
<1>6. \A p : Flow(p) => Flow(p)'
  <2>1. \A r \in Rx : Owes(r)' = Owes(r)
    BY <1>4 DEF Owes
  <2> QED
    BY <1>1, <2>1, FlowKept
<1>7. Coming' /\ (Proc = "init_line" => NotYetSent')
  <2>1. CASE Proc = "init_line"
    <3>1. /\ dev' = dev /\ dev.heard = "none" /\ FlowStale /\ AtPart(1, 0)
      BY <1>1, <1>3, <2>1, Tables DEF Send, Hear, Inv, MainInv, AtSend
    <3>2. NewTx \in Tx /\ tx'[NewTx].at = "loop" /\ tx'[NewTx].timer = 0
      BY <2>1, SendTasks, TypeParts DEF Inv, Txs, ShapeInv, TxShape
    <3>3. AtPart(1, 0)' /\ FlowStale'
      BY <1>2, <1>6, <3>1, PartKept DEF FlowStale
    <3>4. NotYetSent'
      BY <1>2, <2>1, <3>1, <3>2, <3>3 DEF NotYetSent, AnswerTimeout
    <3> QED
      BY <3>4 DEF Coming
  <2>2. CASE main.step = 2 /\ main.wait = 2
    <3>1. dev' = dev /\ SecondComing
      BY <1>1, <1>3, <2>2, Tables DEF Send, Hear, Inv, MainInv, AtSend
    <3>2. SecondComing'
      BY <1>6, <3>1 DEF SecondComing, Progress
    <3>3. dev.age \in Nat
      BY Numbers DEF Inv
    <3>4. SecondOnItsWay'
      BY <1>2, <2>2, <3>1, <3>2, <3>3 DEF SecondOnItsWay, AnswerTimeout
    <3> QED
      BY <1>3, <2>2, <3>4 DEF Coming
  <2>3. CASE Proc # "init_line" /\ ~(main.step = 2 /\ main.wait = 2)
    <3>1. /\ dev.heard = "none" /\ AtPart(main.wait, main.result)
          /\ FlowStale
      BY <1>1, <2>3 DEF Inv, MainInv, AtSend, FlowStale
    <3> DEFINE f == Frame[Proc][main.wait]
    <3>2. f # "none"
      BY <1>3, <2>3, Tables
    <3>3. dev' = [dev EXCEPT !.heard = f, !.age = 0]
      BY <3>1, <3>2 DEF Send, Hear
    <3>4. /\ dev'.heard = f /\ dev'.age = 0 /\ dev'.mode = dev.mode
          /\ dev'.erased = dev.erased /\ dev'.blocks = dev.blocks
      BY <3>3, TypeParts DEF Inv, Devs
    <3>5. /\ AtPart(main.wait, main.result)' /\ FlowStale'
      BY <1>2, <1>6, <3>1, <3>4 DEF FlowStale, AtPart, Progress
    <3>6. Asked' = f
      BY <1>2, <2>3 DEF Asked
    <3> HIDE DEF f
    <3>7. Sent'
      BY <1>2, <3>2, <3>4, <3>5, <3>6 DEF Sent, AnswerTimeout
    <3> QED
      BY <2>3, <3>7 DEF Coming
  <2> QED
    BY <2>1, <2>2, <2>3
<1>8. MainInv'
  <2>1. Place'
    BY <1>1, <1>2 DEF Inv, MainInv, Place
  <2>2. AtWait'
    BY <1>1, <1>7 DEF AtWait
  <2> QED
    BY <1>2, <2>1, <2>2 DEF MainInv, AtRest, AtLead, AtSend, AtTake, AtLinger
<1>9. TaskInv'
  <2>1. ~Unborn' /\ ~Posted' /\ bits' = {}
    BY <1>1, <1>2 DEF Unborn, Posted
  <2>2. main.wait = 1 => new # {} /\ (main.step < 5 => Busy = {})
    BY <1>1, <1>3, Tables DEF new, Inv, TaskInv, Alone, Unborn
  <2>3. main.wait # 1 => Posted /\ (main.step < 5 => new = {})
    BY <1>1, <1>3, Tables DEF Posted, new
  <2>4. Alone'
    <3>1. Busy' # {}
      BY <1>5, <2>2, <2>3 DEF Inv, TaskInv, Alone
    <3>2. main.step < 5 => \A q, r \in Busy' : q = r
      BY <1>4, <1>5, <2>2, <2>3 DEF Inv, TaskInv, Alone
    <3> QED
      BY <1>2, <2>1, <3>1, <3>2 DEF Alone
  <2>5. Handling'
    BY <1>4, <2>1 DEF Inv, TaskInv, Handling
  <2>6. AnswerTime'
    <3>1. \A r \in Rx : /\ rx'[r].timer \in Nat /\ rx'[r].timer <= 10
                        /\ rx'[r].at \in {"between", "after"} => rx'[r].timer <= 1
      <4>1. TypeOK'
        BY TypeMain DEF Inv, MainInv, AppMain
      <4>2. ASSUME NEW r \in Rx PROVE rx'[r].timer \in 0..10
        BY <4>1, TypePartsNext DEF Rxs, RxTimes, ReadTimeout
      <4>3. ASSUME NEW r \in Rx, rx'[r].at \in {"between", "after"} PROVE rx'[r].timer <= 1
        BY <1>4, <4>3 DEF Inv, ShapeInv, RxShape, HandleDelay
      <4> QED
        BY <4>2, <4>3
    <3>2. Reserve' \in {37, 11, 1}
      BY DEF Reserve
    <3>3. Busy' \subseteq Rx
      BY DEF Busy
    <3> DEFINE spare == Reserve'
    <3>4. spare \in Nat /\ spare <= 37
      BY <3>2
    <3> HIDE DEF spare
    <3>5. 50 >= spare + ReadTimeout /\ 50 >= spare
      BY <3>4 DEF ReadTimeout
    <3>6. ASSUME NEW r \in Busy'
          PROVE  /\ 50 >= spare + rx'[r].timer
                 /\ rx'[r].at \in {"between", "after"} =>
                      50 >= rx'[r].timer + (IF main.step = 1 THEN 36 ELSE 49)
      <4>1. rx'[r].timer \in Nat /\ rx'[r].timer <= 10
            /\ (rx'[r].at \in {"between", "after"} => rx'[r].timer <= 1)
        BY <3>1, <3>3
      <4> QED
        BY <3>4, <4>1
    <3> QED
      BY <1>2, <3>5, <3>6 DEF AnswerTime, spare
  <2>7. InitTime'
    BY <1>2, <1>3, <1>4, <1>5, <2>1, <2>2 DEF InitTime
  <2> QED
    BY <1>2, <2>4, <2>5, <2>6, <2>7 DEF TaskInv, LingerTime
<1>10. TxInv'
  <2>1. CASE Proc = "init_line"
    <3>1. \A t \in Tx : tx'[t].at = "loop" => t = NewTx
      BY <1>1, <2>1, SendTasks, TypeParts DEF Inv
    <3> QED
      BY <1>2, <1>7, <2>1, <3>1 DEF TxInv
  <2>2. CASE Proc # "init_line"
    BY <1>1, <2>2, SendTasks DEF TxInv, Inv
  <2> QED
    BY <2>1, <2>2
<1> QED
  BY <1>8, <1>9, <1>10

\* The event group wakes app_main; the answer is always there before the timeout.
LEMMA WaitBitsStep ==
  ASSUME Inv, Punctual, WaitBits
  PROVE  MainInv' /\ TaskInv' /\ TxInv'
<1>1. /\ main.at = "wait" /\ bits # {} /\ sema = "full"
      /\ \E x \in Answers : bits = {x} /\ Answered(x)
      /\ bits' = {}
      /\ UNCHANGED <<rx, tx, stop_tasks, sema, mux, line, dev>>
  BY AnswerInTime DEF WaitBits, Inv, MainInv, AtWait
<1>2. /\ main'.at = "take" /\ main'.timer = 0 /\ main'.seen = bits /\ main'.step = main.step
      /\ main'.wait = main.wait /\ main'.result = main.result /\ Proc' = Proc
  BY TypeParts DEF WaitBits, Inv, Mains, Proc
<1>3. \A x : Answered(x) => Answered(x)'
  <2>1. /\ \A p : Flow(p) => Flow(p)'
        /\ \A k : Progress(k)' <=> Progress(k)
    BY <1>1, <1>2, FlowSame, PartKept
  <2>2. \A x : LeadsOn(x)' <=> LeadsOn(x)
    BY <1>1, <1>2, <2>1 DEF LeadsOn, AtPart, Progress
  <2> QED
    BY <1>1, <1>2, <2>1, <2>2 DEF Answered, SecondComing
<1>4. MainInv'
  <2>1. Place'
    BY <1>1, <1>2 DEF Inv, MainInv, Place
  <2>2. AtTake'
    BY <1>1, <1>2, <1>3 DEF AtTake
  <2> QED
    BY <1>2, <2>1, <2>2 DEF MainInv, AtRest, AtLead, AtSend, AtWait, AtLinger
<1>5. TaskInv'
  <2>1. Posted /\ Posted' /\ ~Unborn' /\ Busy' = Busy
    BY <1>1, <1>2 DEF Posted, Unborn, Busy
  <2>2. Alone'
    BY <1>2, <2>1 DEF Inv, TaskInv, Alone
  <2>3. Handling'
    BY <1>1, <1>2, <2>1 DEF Inv, TaskInv, Handling
  <2> QED
    BY <1>2, <2>2, <2>3 DEF TaskInv, LingerTime, AnswerTime, InitTime
<1>6. TxInv'
  <2>1. ASSUME NEW t \in Tx, tx[t].at = "loop"
        PROVE  Proc = "init_line" /\ tx[t].timer \in 1..5
    <3>1. Proc = "init_line" /\ (NotYetSent \/ tx[t].timer + 35 = main.timer)
      BY <1>1, <2>1 DEF Inv, TxInv
    <3>2. main.timer \in 36..40
      BY <1>1, <3>1 DEF Inv, TaskInv, InitTime
    <3>3. tx[t].timer \in Nat
      BY Numbers DEF Inv
    <3> QED
      BY <3>1, <3>2, <3>3 DEF NotYetSent, AnswerTimeout
  <2> QED
    BY <1>1, <1>2, <2>1 DEF Inv, TxInv
<1> QED
  BY <1>4, <1>5, <1>6

\* app_main takes the semaphore and goes on with the command, or ends it.
LEMMA TakeStep ==
  ASSUME Inv, Take
  PROVE  MainInv' /\ TaskInv' /\ TxInv'
<1>1. /\ main.at = "take" /\ sema = "full" /\ bits = {} /\ ~stop_tasks
      /\ sema' = "empty" /\ bits' = {}
      /\ UNCHANGED <<rx, tx, mux, line, dev>>
      /\ main.step <= Len(Script) /\ main.wait <= Waits[Proc]
      /\ main.step < 4 => main.result = 0
  BY DEF Take, Inv, MainInv, Place, AtTake
<1>2. PICK x \in Answers : main.seen = {x} /\ Answered(x)
  BY <1>1 DEF Inv, MainInv, AtTake
<1>3. /\ main.step \in Nat /\ main.step >= 1 /\ main.wait \in 1..3
      /\ \/ main.step \in {1, 3} /\ Proc = "init_line" /\ main.wait = 1
         \/ main.step = 2 /\ Proc = "readout_unprotect" /\ main.wait \in {1, 2}
         \/ main.step = 4 /\ Proc = "erase" /\ main.wait \in {1, 2}
         \/ main.step >= 5 /\ Proc = "write_flash"
  BY <1>1, Sending
<1> DEFINE result == IF x = "NACK" THEN -1 ELSE main.result
<1>4. (IF main.seen = {"NACK"} THEN -1 ELSE main.result) = result
  BY <1>2
<1>5. main.step < 4 => x = "ACK" /\ result = 0
  <2>1. main.step < 4 => x = "ACK"
    BY <1>2 DEF Answered, LeadsOn
  <2> QED
    BY <1>1, <2>1
<1>r. main.step > 4 /\ main.wait < Waits[Proc] => result = 0
  <2> SUFFICES ASSUME main.step > 4, main.wait < Waits[Proc] PROVE result = 0
    OBVIOUS
  <2>1. main.result = 0
    BY <1>1 DEF Inv, MainInv, Place
  <2>2. main.wait < 3
    BY <1>3, Tables
  <2>3. x = "ACK"
    BY <1>2, <1>3, <2>2 DEF Answered, LeadsOn
  <2> QED
    BY <2>1, <2>3
<1>6. /\ main'.step = main.step /\ main'.result = result /\ Proc' = Proc
      /\ IF main.wait < Waits[Proc]
         THEN main'.at = "send" /\ main'.wait = main.wait + 1 /\ stop_tasks' = stop_tasks
         ELSE /\ main'.at = "linger" /\ main'.wait = main.wait /\ main'.timer = Linger[Proc]
              /\ stop_tasks' = TRUE
  <2>1. main \in Mains
    BY TypeParts DEF Inv
  <2>2. CASE main.wait < Waits[Proc]
    <3>1. main' = [main EXCEPT !.at = "send", !.wait = main.wait + 1, !.result = result, !.seen = {}]
          /\ stop_tasks' = stop_tasks
      BY <1>4, <2>2 DEF Take
    <3> HIDE DEF result
    <3> QED
      BY <2>1, <2>2, <3>1 DEF Mains, Proc
  <2>3. CASE ~(main.wait < Waits[Proc])
    <3>1. main' = [main EXCEPT !.at = "linger", !.timer = Linger[Proc], !.result = result, !.seen = {}]
          /\ stop_tasks' = TRUE
      BY <1>4, <2>3 DEF Take
    <3> HIDE DEF result
    <3> QED
      BY <2>1, <2>3, <3>1 DEF Mains, Proc
  <2> QED
    BY <2>2, <2>3
<1>7. \A p : Flow(p) => Flow(p)'
  BY <1>1, FlowSame
<1>8. LeadsOn(x) => AtPart(main.wait + 1, result)
  BY DEF LeadsOn
<1> HIDE DEF result
<1>9. MainInv'
  <2>1. CASE main.wait < Waits[Proc]
    <3>1. main'.at = "send" /\ main'.wait = main.wait + 1 /\ main'.wait \in {2, 3}
      BY <1>3, <1>6, <2>1, Tables
    <3>2. Place'
      BY <1>1, <1>3, <1>5, <1>r, <1>6, <2>1, <3>1, Tables DEF Place
    <3>3. AtSend'
      <4>1. CASE main.step = 2
        <5>1. main.wait = 1 /\ SecondComing
          BY <1>2, <1>3, <2>1, <4>1, Tables DEF Answered
        <5>2. SecondComing'
          BY <1>1, <1>7, <5>1 DEF SecondComing, Progress
        <5> QED
          BY <1>1, <1>6, <3>1, <4>1, <5>1, <5>2 DEF AtSend
      <4>2. CASE main.step # 2
        <5>1. dev.heard = "none" /\ Flow(<<>>) /\ AtPart(main.wait + 1, result)
          BY <1>2, <1>8, <4>2 DEF Answered
        <5>2. AtPart(main.wait, main.result)'
          BY <1>1, <1>6, <3>1, <5>1 DEF AtPart, Progress
        <5> QED
          BY <1>1, <1>6, <1>7, <3>1, <4>2, <5>1, <5>2 DEF AtSend
      <4> QED
        BY <4>1, <4>2
    <3> QED
      BY <3>1, <3>2, <3>3 DEF MainInv, AtRest, AtLead, AtWait, AtTake, AtLinger
  <2>2. CASE ~(main.wait < Waits[Proc])
    <3>1. main'.at = "linger" /\ main'.wait = main.wait /\ main.wait = Waits[Proc]
      BY <1>1, <1>3, <1>6, <2>2, Tables
    <3>2. Place'
      BY <1>1, <1>5, <1>6, <2>2, <3>1 DEF Place
    <3>3. dev.heard = "none" /\ Flow(<<>>) /\ AtPart(Waits[Proc] + 1, result)
      BY <1>2, <1>3, <1>8, <3>1, Tables DEF Answered
    <3>4. AtPart(Waits[Proc] + 1, main.result)'
      BY <1>1, <1>6, <3>3 DEF AtPart, Progress
    <3>5. AtLinger'
      BY <1>1, <1>7, <3>1, <3>3, <3>4 DEF AtLinger
    <3> QED
      BY <3>1, <3>2, <3>5 DEF MainInv, AtRest, AtLead, AtSend, AtWait, AtTake
  <2> QED
    BY <2>1, <2>2
<1>10. TaskInv'
  <2>1. /\ Posted /\ ~Unborn' /\ Busy' = Busy /\ main'.at \in {"send", "linger"}
    BY <1>1, <1>3, <1>6 DEF Posted, Unborn, Busy
  <2>2. Alone'
    BY <1>6, <2>1 DEF Inv, TaskInv, Alone
  <2>3. Handling'
    BY <1>1, <1>6, <2>1 DEF Inv, TaskInv, Handling
  <2>4. LingerTime'
    <3>1. SUFFICES ASSUME main'.at = "linger", NEW r \in Busy
          PROVE  /\ rx[r].at \in {"between", "after"} => main'.timer >= 9 + rx[r].timer
                 /\ rx[r].at = "mux" => main'.timer >= 5 + rx[r].timer
                 /\ main'.step < 5 => rx[r].at \in {"between", "after", "loop"} /\ main'.timer >= 9
      BY <1>1, <2>1 DEF LingerTime
    <3>2. main'.timer \in {10, 15, 20} /\ (main.step >= 5 => main'.timer = 15)
      BY <1>3, <1>6, <3>1, Tables
    <3>3. rx[r].timer \in Nat /\ rx[r].timer <= 10
          /\ (rx[r].at \in {"between", "after"} => rx[r].timer <= 1)
      BY Numbers DEF Inv, ShapeInv, RxShape, HandleDelay, Busy
    <3>4. main.step < 5 => rx[r].at \in {"between", "after"}
      BY <2>1 DEF Inv, TaskInv, Handling
    <3> QED
      BY <1>3, <1>6, <3>2, <3>3, <3>4
  <2> QED
    BY <2>1, <2>2, <2>3, <2>4 DEF TaskInv, AnswerTime, InitTime
<1>11. TxInv'
  <2>1. \A t \in Tx : tx[t].at = "loop" => Proc = "init_line" /\ tx[t].timer \in 1..5
    BY <1>1 DEF Inv, TxInv
  <2>2. Proc = "init_line" => main'.at = "linger" /\ main'.timer = 10
    BY <1>3, <1>6, Tables
  <2> QED
    BY <1>1, <1>6, <2>1, <2>2 DEF Inv, TxInv
<1> QED
  BY <1>9, <1>10, <1>11

\* The command returns: its tasks have ended, but for one that may still read.
LEMMA ReturnStep ==
  ASSUME Inv, Return
  PROVE  MainInv' /\ TaskInv' /\ TxInv'
<1>1. /\ main.at = "linger" /\ main.timer = 0 /\ bits = {} /\ sema' = "none"
      /\ dev.heard = "none" /\ Flow(<<>>) /\ AtPart(Waits[Proc] + 1, main.result)
      /\ UNCHANGED <<rx, tx, stop_tasks, bits, mux, line, dev>>
      /\ main.step < 4 => main.result = 0
  BY DEF Return, Inv, MainInv, Place, AtLinger
<1>2. /\ main.step \in Nat /\ main.result \in {0, -1}
      /\ Proc \in {"init_line", "readout_unprotect", "erase", "write_flash"}
  BY <1>1, Sending, Types DEF Inv
<1>3. /\ main'.at = "pause" /\ main'.wait = 1 /\ main'.result = main.result
      /\ main'.step = IF main.result = 0 THEN main.step + 1 ELSE main.step
  BY TypeParts DEF Return, Inv, Mains
<1>4. Waits[Proc] \in Nat
  BY <1>2, Tables
<1>5. dev.mode = RestMode(main'.step) /\ Progress(main'.step)
  BY <1>1, <1>2, <1>3, <1>4 DEF AtPart, RestMode
<1>6. Flow(<<>>)'
  BY <1>1, FlowSame
<1>7. MainInv'
  <2>1. AtRest'
    BY <1>1, <1>3, <1>5, <1>6 DEF AtRest, FlowStale, RestMode, Progress
  <2>2. Place'
    BY <1>1, <1>2, <1>3 DEF Place
  <2> QED
    BY <1>3, <2>1, <2>2 DEF MainInv, AtLead, AtSend, AtWait, AtTake, AtLinger
<1>8. TaskInv'
  <2>1. Unborn' /\ ~Posted' /\ Busy' = Busy /\ (main'.step < 5 => main.step < 5)
    BY <1>1, <1>2, <1>3 DEF Unborn, Posted, Busy
  <2>2. \A r \in Busy : rx[r].at \notin {"between", "after"} /\ ~(main.step < 5)
    <3>1. \A r \in Busy : rx[r].timer \in Nat
      BY Numbers DEF Inv, Busy
    <3> QED
      BY <1>1, <3>1 DEF Inv, TaskInv, LingerTime
  <2>3. Alone'
    BY <1>3, <2>1, <2>2 DEF Inv, TaskInv, Alone
  <2>4. Handling'
    BY <1>1, <2>1, <2>2 DEF Inv, TaskInv, Handling, Busy
  <2> QED
    BY <1>3, <2>3, <2>4 DEF TaskInv, LingerTime, AnswerTime, InitTime
<1>9. TxInv'
  <2>1. \A t \in Tx : tx[t].at # "loop"
    <3>1. \A t \in Tx : tx[t].timer \in Nat
      BY Numbers DEF Inv
    <3> QED
      BY <1>1, <3>1 DEF Inv, TxInv
  <2> QED
    BY <1>1, <2>1 DEF TxInv
<1> QED
  BY <1>7, <1>8, <1>9

-----------------------------------------------------------------------------
(* The answers of the bootloader *)

\* When the bootloader is at work: on the frame app_main has just sent, or on
\* the mass erase after "unprotect".
LEMMA Hearing ==
  ASSUME Inv, dev.heard # "none"
  PROVE  \/ main.at = "wait" /\ bits = {} /\ sema = "empty" /\ Sent
         \/ /\ main.at \in {"send", "wait", "take"} /\ main.step = 2
            /\ dev.heard = "unprotected" /\ dev.mode = "unprotect"
<1>1. main.at \notin {"pause", "done", "lead", "linger", "panic"}
  BY DEF Inv, MainInv, Place, AtRest, AtLead, AtLinger
<1>2. main.at \in {"send", "wait", "take"}
  BY <1>1, Types DEF Inv
<1>3. CASE main.at = "send"
  BY <1>3 DEF Inv, MainInv, AtSend, SecondComing
<1>4. CASE main.at = "take"
  BY <1>4 DEF Inv, MainInv, AtTake, Answered, SecondComing
<1>5. CASE main.at = "wait"
  <2>1. CASE \E x \in Answers : Answered(x)
    BY <1>5, <2>1 DEF Answered, SecondComing
  <2>2. CASE sema = "empty" /\ bits = {} /\ Coming
    BY <1>5, <2>2 DEF Coming, NotYetSent, OnItsWay, FirstOnItsWay, SecondOnItsWay, SecondComing
  <2> QED
    BY <1>5, <2>1, <2>2 DEF Inv, MainInv, AtWait
<1> QED
  BY <1>2, <1>3, <1>4, <1>5

\* The seven frames app_main asks with, and the mode in which the bootloader
\* gets them; after a refusal it gets the rest of the command when idle.
LEMMA SentFrames ==
  ASSUME Inv, main.at = "wait", Sent
  PROVE  /\ main.step \in Nat /\ NBlocks \in Nat
         /\ Progress(main.step)
         /\ \/ main.step \in {1, 3} /\ main.wait = 1 /\ Proc = "init_line" /\ Asked = "INIT"
            \/ main.step = 2 /\ main.wait = 1 /\ Proc = "readout_unprotect" /\ Asked = "unprotect"
            \/ /\ main.step = 4 /\ Proc = "erase"
               /\ \/ main.wait = 1 /\ Asked = "erase"
                  \/ main.wait = 2 /\ Asked = "global"
            \/ /\ main.step >= 5 /\ main.step <= NBlocks + 4 /\ Proc = "write_flash"
               /\ \/ main.wait = 1 /\ Asked = "write"
                  \/ main.wait = 2 /\ Asked = "address"
                  \/ main.wait = 3 /\ Asked = "block"
         /\ \/ main.result = 0 /\ dev.mode = Expects[Proc][main.wait]
            \/ main.result = -1 /\ main.step >= 4 /\ main.wait > 1 /\ dev.mode = "idle"
<1>1. /\ main.step \in Nat /\ NBlocks \in Nat /\ main.wait \in 1..3
      /\ main.result \in {0, -1}
      /\ \/ main.step \in {1, 3} /\ Proc = "init_line" /\ main.wait = 1
         \/ main.step = 2 /\ Proc = "readout_unprotect" /\ main.wait \in {1, 2}
         \/ main.step = 4 /\ Proc = "erase" /\ main.wait \in {1, 2}
         \/ main.step >= 5 /\ Proc = "write_flash"
  BY Sending, Types, LinkAssumption DEF Inv
<1>2. /\ main.step <= NBlocks + 4 /\ main.wait <= Waits[Proc]
      /\ main.wait = 1 => main.result = 0
      /\ main.step < 4 => main.result = 0
  BY ScriptSteps DEF Inv, MainInv, Place
<1>3. Asked # "none" /\ AtPart(main.wait, main.result)
  BY DEF Sent
<1>4. Asked = IF Proc = "init_line" THEN "INIT" ELSE Frame[Proc][main.wait]
  BY DEF Asked
<1>5. /\ Progress(main.step)
      /\ \/ main.result = 0 /\ dev.mode = Expects[Proc][main.wait]
         \/ main.result = -1 /\ dev.mode = "idle"
  BY <1>1, <1>2, <1>3 DEF AtPart
<1>6. main.result = -1 => main.step >= 4 /\ main.wait > 1
  BY <1>1, <1>2
<1>7. CASE Proc = "init_line"
  BY <1>1, <1>2, <1>4, <1>5, <1>7
<1>8. CASE Proc = "readout_unprotect"
  BY <1>1, <1>2, <1>3, <1>4, <1>5, <1>8, Tables
<1>9. CASE Proc = "erase"
  BY <1>1, <1>4, <1>5, <1>6, <1>9, Tables
<1>10. CASE Proc = "write_flash"
  <2>1. main.step >= 5 /\ main.wait \in 1..3
    BY <1>1, <1>10
  <2>2. Asked = Frame["write_flash"][main.wait]
    BY <1>4, <1>10
  <2> QED
    BY <1>1, <1>2, <1>5, <1>6, <1>10, <2>1, <2>2, Tables
<1> QED
  BY <1>1, <1>7, <1>8, <1>9, <1>10

\* There is a block left whenever the bootloader accepts one.
LEMMA BlockLeft ==
  ASSUME Inv
  PROVE  dev.mode = "block" /\ dev.heard = "block" => dev.blocks < NBlocks
<1> SUFFICES ASSUME dev.mode = "block", dev.heard = "block" PROVE dev.blocks < NBlocks
  OBVIOUS
<1>1. main.at = "wait" /\ Sent /\ Asked = "block"
  BY Hearing DEF Sent
<1>2. main.step \in Nat /\ NBlocks \in Nat /\ main.step >= 5 /\ main.step <= NBlocks + 4
      /\ Progress(main.step)
  BY <1>1, SentFrames
<1> QED
  BY <1>2 DEF Progress

\* The bootloader does not touch the tasks; what it says leaves time enough.
LEMMA DeviceKeeps ==
  ASSUME Inv, UNCHANGED <<main, rx, tx, stop_tasks, bits, sema, mux>>, dev.heard # "none",
         main.at = "wait" /\ bits = {} =>
           main.timer >= Reserve' + ReadTimeout /\ (Reserve' = Reserve \/ Reserve' = 1 \/ Flow(<<>>))
  PROVE  TaskInv' /\ TxInv'
<1>1. (Posted' <=> Posted) /\ (Unborn' <=> Unborn) /\ Busy' = Busy /\ Proc' = Proc
  BY DEF Posted, Unborn, Busy, Proc
<1>2. Alone' /\ Handling' /\ LingerTime'
  BY <1>1 DEF Inv, TaskInv, Alone, Handling, LingerTime
<1>3. AnswerTime'
  <2> SUFFICES ASSUME main.at = "wait", bits = {}, NEW r \in Busy
               PROVE  /\ rx[r].at = "read" /\ rx[r].got # <<>> =>
                           main.timer >= Reserve' + rx[r].timer
                      /\ rx[r].at = "first" => main.timer >= Reserve'
                      /\ rx[r].at \in {"between", "after"} =>
                           main.timer >= rx[r].timer + (IF main.step = 1 THEN 36 ELSE 49)
    BY <1>1 DEF AnswerTime
  <2>1. /\ rx[r].at = "read" /\ rx[r].got # <<>> => main.timer >= Reserve + rx[r].timer
        /\ rx[r].at = "first" => main.timer >= Reserve
        /\ rx[r].at \in {"between", "after"} =>
             main.timer >= rx[r].timer + (IF main.step = 1 THEN 36 ELSE 49)
    BY DEF Inv, TaskInv, AnswerTime
  <2>2. Reserve \in {37, 11, 1} /\ rx[r].timer \in Nat /\ main.timer \in Nat /\ r \in Rx
    BY Numbers DEF Reserve, Inv, Busy
  <2>3. CASE Reserve' = Reserve \/ Reserve' = 1
    BY <2>1, <2>2, <2>3
  <2>4. CASE Flow(<<>>)
    <3>1. Owes(r) = <<>>
      BY <2>2, <2>4, FlowPlaces DEF Inv
    <3>2. ~(rx[r].at = "read" /\ rx[r].got # <<>>) /\ rx[r].at # "first"
      BY <2>2, <3>1 DEF Owes, Inv, ShapeInv, RxShape
    <3> QED
      BY <2>1, <3>2
  <2> QED
    BY <2>3, <2>4
<1>4. InitTime'
  BY <1>1 DEF Inv, TaskInv, InitTime, OnItsWay
<1>5. TxInv'
  BY TxKept DEF NotYetSent, Inv
<1> QED
  BY <1>2, <1>3, <1>4, <1>5 DEF TaskInv

\* The bootloader's record and the buffer after an answer.
LEMMA DeviceFields ==
  ASSUME TypeOK, DeviceAnswers, NEW say, NEW mode,
         Responses(dev.mode, dev.heard) = {[say |-> say, mode |-> mode]}
  PROVE  /\ line' = line \o say
         /\ dev'.mode = mode
         /\ dev'.heard = IF mode = "unprotect" THEN "unprotected" ELSE "none"
         /\ dev'.erased = (dev.erased \/ (dev.mode = "global" /\ Accepted(dev.mode, dev.heard)))
         /\ dev'.blocks = CASE dev.mode = "global" /\ Accepted(dev.mode, dev.heard) -> 0
                            [] dev.mode = "block" /\ Accepted(dev.mode, dev.heard)  -> dev.blocks + 1
                            [] OTHER                                                -> dev.blocks
         /\ UNCHANGED <<main, rx, tx, stop_tasks, bits, sema, mux>>
<1> DEFINE erased == dev.erased \/ (dev.mode = "global" /\ Accepted(dev.mode, dev.heard))
           blocks == CASE dev.mode = "global" /\ Accepted(dev.mode, dev.heard) -> 0
                       [] dev.mode = "block" /\ Accepted(dev.mode, dev.heard)  -> dev.blocks + 1
                       [] OTHER                                                -> dev.blocks
           heard == IF mode = "unprotect" THEN "unprotected" ELSE "none"
<1>1. \A reply \in Responses(dev.mode, dev.heard) : reply.say = say /\ reply.mode = mode
  OBVIOUS
<1>2. /\ line' = line \o say
      /\ dev' = [dev EXCEPT !.mode = mode, !.heard = heard, !.age = 0, !.erased = erased,
                            !.blocks = blocks]
      /\ UNCHANGED <<main, rx, tx, stop_tasks, bits, sema, mux>>
  BY <1>1 DEF DeviceAnswers
<1>3. dev \in Devs
  BY TypeParts
<1> HIDE DEF heard, erased, blocks
<1>4. /\ dev'.mode = mode /\ dev'.heard = heard /\ dev'.erased = erased /\ dev'.blocks = blocks
  BY <1>2, <1>3 DEF Devs
<1> QED
  BY <1>2, <1>4 DEF heard, erased, blocks

\* The mass erase ends, and the second answer to readout unprotect goes out.
LEMMA EndOfUnprotect ==
  ASSUME Inv, Punctual, Device, dev.heard = "unprotected", dev.mode = "unprotect",
         main.step = 2, main.at \in {"send", "wait", "take"}
  PROVE  MainInv' /\ TaskInv' /\ TxInv'
<1>1. DeviceAnswers
  BY DEF Device, DeviceRefuses, Accepted, Accepts
<1>2. Responses(dev.mode, dev.heard) = {[say |-> <<"ACK">>, mode |-> "baud"]}
  <2>1. ~Accepted(dev.mode, dev.heard)
    BY DEF Accepted, Accepts
  <2> QED
    BY <2>1 DEF Responses
<1>3. /\ line' = line \o <<"ACK">> /\ dev'.mode = "baud" /\ dev'.heard = "none"
      /\ dev'.erased = dev.erased /\ dev'.blocks = dev.blocks
      /\ UNCHANGED <<main, rx, tx, stop_tasks, bits, sema, mux>>
  <2>1. dev.erased \in BOOLEAN
    BY Types DEF Inv
  <2>2. /\ line' = line \o <<"ACK">>
        /\ dev'.mode = "baud"
        /\ dev'.heard = IF "baud" = "unprotect" THEN "unprotected" ELSE "none"
        /\ dev'.erased = (dev.erased \/ (dev.mode = "global" /\ Accepted(dev.mode, dev.heard)))
        /\ dev'.blocks = CASE dev.mode = "global" /\ Accepted(dev.mode, dev.heard) -> 0
                           [] dev.mode = "block" /\ Accepted(dev.mode, dev.heard)  -> dev.blocks + 1
                           [] OTHER                                                -> dev.blocks
        /\ UNCHANGED <<main, rx, tx, stop_tasks, bits, sema, mux>>
    BY <1>1, <1>2, DeviceFields DEF Inv
  <2> QED
    BY <2>1, <2>2
<1>4. /\ \A k : Progress(k)' <=> Progress(k)
      /\ Proc' = Proc /\ Proc = "readout_unprotect"
  BY <1>3, Sending DEF Progress, Proc, Inv
<1>5. /\ Flow(<<>>) => Flow(<<"ACK">>)'
      /\ Flow(<<"ACK">>) => Flow(<<"ACK", "ACK">>)'
  <2>1. <<"ACK">> \in Seq(Bytes)
    BY DEF Bytes, Answers
  <2>2. \A p : Flow(p) => Flow(p \o <<"ACK">>)'
    BY <1>3, <2>1, FlowGrows DEF Inv
  <2>3. <<>> \o <<"ACK">> = <<"ACK">> /\ <<"ACK">> \o <<"ACK">> = <<"ACK", "ACK">>
    BY ShortSequences
  <2>4. Flow(<<>>) => Flow(<<>> \o <<"ACK">>)'
    BY <2>2
  <2>5. Flow(<<"ACK">>) => Flow(<<"ACK">> \o <<"ACK">>)'
    BY <2>2
  <2> QED
    BY <2>3, <2>4, <2>5
<1>6. SecondComing => SecondComing'
  BY <1>3, <1>4, <1>5 DEF SecondComing
<1>7. Coming => Coming' /\ (FirstOnItsWay \/ SecondOnItsWay)
  <2>1. ~Sent
    <3>1. main.wait \in {1, 2}
      BY <1>4, Sending DEF Inv
    <3>2. Asked \in {"unprotect", "none"}
      BY <1>4, <3>1, Tables DEF Asked
    <3> QED
      BY <3>2 DEF Sent
  <2>2. FirstOnItsWay => FirstOnItsWay'
    BY <1>3, <1>4, <1>5 DEF FirstOnItsWay
  <2>3. SecondOnItsWay => SecondOnItsWay'
    BY <1>3, <1>6 DEF SecondOnItsWay
  <2> QED
    BY <2>1, <2>2, <2>3 DEF Coming, NotYetSent, OnItsWay
<1>8. \A x : Answered(x) => Answered(x)'
  BY <1>3, <1>6 DEF Answered
<1>9. MainInv'
  <2>1. Place'
    BY <1>3, <1>4 DEF Inv, MainInv, Place
  <2>2. AtSend'
    BY <1>3, <1>6 DEF Inv, MainInv, AtSend
  <2>3. AtWait'
    BY <1>3, <1>7, <1>8 DEF Inv, MainInv, AtWait
  <2>4. AtTake'
    BY <1>3, <1>8 DEF Inv, MainInv, AtTake
  <2> QED
    BY <1>3, <2>1, <2>2, <2>3, <2>4 DEF MainInv, AtRest, AtLead, AtLinger
<1>10. TaskInv' /\ TxInv'
  <2>1. Reserve' = 1
    BY <1>3, <1>4 DEF Reserve
  <2>2. ASSUME main.at = "wait", bits = {} PROVE main.timer >= 11
    <3>1. FirstOnItsWay \/ SecondOnItsWay
      BY <1>7, <2>2 DEF Inv, MainInv, AtWait
    <3>2. main.timer \in Nat /\ dev.age \in Nat
      BY Numbers DEF Inv
    <3>3. CASE FirstOnItsWay
      <4>1. Flow(<<"ACK">>) /\ main.wait = 1
        BY <3>3 DEF FirstOnItsWay
      <4>2. Reserve = 11
        BY <1>4, <4>1 DEF Reserve
      <4> QED
        <5>1. <<"ACK">> # <<>>
          BY ShortSequences
        <5>2. main.timer >= Reserve \/ (main.step = 1 /\ main.timer >= 36)
          BY <2>2, <4>1, <5>1, FlowInTime
        <5> QED
          BY <4>2, <5>2
    <3>4. CASE SecondOnItsWay
      <4>1. dev.age <= Latency["unprotected"] /\ Latency["unprotected"] <= 39
            /\ Latency["unprotected"] \in Nat
        BY LinkAssumption DEF Inv, ShapeInv, DevShape, Punctual, Frames
      <4>2. main.timer + dev.age >= 50
        BY <3>4 DEF SecondOnItsWay, AnswerTimeout
      <4> QED
        BY <3>2, <4>1, <4>2
    <3> QED
      BY <3>1, <3>3, <3>4
  <2>3. main.timer \in Nat
    BY Numbers DEF Inv
  <2>4. dev.heard # "none"
    OBVIOUS
  <2>5. main.at = "wait" /\ bits = {} => main.timer >= 1 + ReadTimeout
    BY <2>2, <2>3 DEF ReadTimeout
  <2> QED
    BY <1>3, <2>1, <2>4, <2>5, DeviceKeeps
<1> QED
  BY <1>9, <1>10

\* What the bootloader answers to the frames that come in turn, and to the rest
\* of an erase command whose first part it refused.
LEMMA Replies ==
  /\ Responses("baud", "INIT") = {[say |-> <<"ACK">>, mode |-> "idle"]}
  /\ Responses("idle", "unprotect") = {[say |-> <<"ACK">>, mode |-> "unprotect"]}
  /\ Responses("idle", "erase") = {[say |-> <<"ACK">>, mode |-> "global"]}
  /\ Responses("global", "global") = {[say |-> <<"ACK">>, mode |-> "idle"]}
  /\ Responses("idle", "write") = {[say |-> <<"ACK">>, mode |-> "address"]}
  /\ Responses("address", "address") = {[say |-> <<"ACK">>, mode |-> "block"]}
  /\ Responses("block", "block") = {[say |-> <<"ACK">>, mode |-> "idle"]}
  /\ Responses("idle", "global") = {[say |-> <<"NACK">>, mode |-> "idle"]}
<1>1. /\ ~Accepted("idle", "global") /\ ~Accepted("baud", "INIT")
      /\ Accepted("idle", "unprotect") /\ Accepted("idle", "erase") /\ Accepted("idle", "write")
      /\ Accepted("global", "global") /\ Accepted("address", "address") /\ Accepted("block", "block")
  BY DEF Accepted, Accepts
<1>2. Garbled("idle", "global") = {[say |-> <<"NACK">>, mode |-> "idle"]}
  BY DEF Garbled
<1>3. Responses("idle", "global") = {[say |-> <<"NACK">>, mode |-> "idle"]}
  BY <1>1, <1>2 DEF Responses
<1>4. Responses("baud", "INIT") = {[say |-> <<"ACK">>, mode |-> "idle"]}
  BY <1>1 DEF Responses
<1> QED
  BY <1>1, <1>3, <1>4 DEF Responses, Leads

\* Which of those frames are accepted.
LEMMA AcceptedFrames ==
  /\ ~Accepted("baud", "INIT")
  /\ Accepted("global", "global") /\ Accepted("block", "block")
  /\ ~Accepted("idle", "global")
BY DEF Accepted, Accepts

\* Punctual bootloaders leave app_main enough of its 5 s.
LEMMA SentTime ==
  ASSUME Inv, Punctual, main.at = "wait", Sent
  PROVE  /\ main.timer >= 11
         /\ Asked = "INIT" => main.timer >= 47
         /\ Asked = "unprotect" => main.timer >= 21
<1>1. main.timer \in Nat /\ dev.age \in Nat /\ dev.heard \in Heards
  BY Numbers DEF Inv
<1>2. dev.heard = Asked /\ Asked # "none" /\ main.timer + dev.age = 50
  BY DEF Sent, AnswerTimeout
<1>3. Asked \in Frames
  BY <1>1, <1>2 DEF Heards
<1>4. dev.age <= Latency[Asked] /\ Latency[Asked] \in Nat /\ Latency[Asked] <= 39
  BY <1>2, <1>3, LinkAssumption DEF Inv, ShapeInv, DevShape, Punctual
<1>5. Latency["INIT"] <= 3 /\ Latency["unprotect"] <= 29
  BY DEF Punctual
<1>6. Asked = "INIT" => dev.age <= 3
  <2> SUFFICES ASSUME Asked = "INIT" PROVE dev.age <= 3
    OBVIOUS
  <2>1. Latency["INIT"] \in Nat /\ dev.age <= Latency["INIT"]
    BY <1>4
  <2> QED
    BY <1>1, <1>5, <2>1
<1>7. Asked = "unprotect" => dev.age <= 29
  <2> SUFFICES ASSUME Asked = "unprotect" PROVE dev.age <= 29
    OBVIOUS
  <2>1. Latency["unprotect"] \in Nat /\ dev.age <= Latency["unprotect"]
    BY <1>4
  <2> QED
    BY <1>1, <1>5, <2>1
<1>8. dev.age <= 39
  BY <1>1, <1>4
<1> QED
  BY <1>1, <1>2, <1>6, <1>7, <1>8

\* The answer to the frame app_main waits for goes out.
LEMMA AnswerGoes ==
  ASSUME Inv, Punctual, main.at = "wait", bits = {}, sema = "empty", Sent, main.step # 2,
         NEW x \in Answers, line' = line \o <<x>>, dev'.heard = "none", LeadsOn(x)',
         UNCHANGED <<main, rx, tx, stop_tasks, bits, sema, mux>>
  PROVE  MainInv' /\ TaskInv' /\ TxInv'
<1>1. dev.heard = Asked /\ Asked # "none" /\ FlowStale /\ Proc' = Proc
  BY DEF Sent, Proc
<1>2. OnItsWay'
  <2>1. <<x>> \in Seq(Bytes) /\ x \in Bytes
    BY DEF Bytes
  <2>2. \A p : Flow(p) => Flow(p \o <<x>>)'
    BY <2>1, FlowGrows DEF Inv
  <2>3. <<>> \o <<x>> = <<x>> /\ <<"other">> \o <<x>> = <<"other", x>>
    BY ShortSequences
  <2>4. Flow(<<>>) => Flow(<<>> \o <<x>>)'
    BY <2>2
  <2>5. Flow(<<"other">>) => Flow(<<"other">> \o <<x>>)'
    BY <2>2
  <2>6. Flow(<<x>>)' \/ (main.step = 1 /\ Flow(<<"other", x>>)')
    BY <1>1, <2>3, <2>4, <2>5 DEF FlowStale
  <2> QED
    BY <2>6 DEF OnItsWay
<1>3. MainInv'
  <2>1. Place'
    BY <1>1 DEF Inv, MainInv, Place
  <2>2. AtWait'
    BY <1>2 DEF AtWait, Coming
  <2> QED
    BY <2>1, <2>2 DEF MainInv, AtRest, AtLead, AtSend, AtTake, AtLinger
<1>4. TaskInv' /\ TxInv'
  <2>1. Asked # "unprotected"
    <3>1. Asked \in {"INIT", "unprotect", "erase", "global", "write", "address", "block"}
      BY SentFrames
    <3> QED
      BY <3>1
  <2>2. Reserve' = Reserve
    BY <1>1, <2>1 DEF Reserve
  <2>3. main.timer >= Reserve + 10
    <3>1. main.timer \in Nat /\ main.timer >= 11 /\ (Asked = "INIT" => main.timer >= 47)
      BY SentTime, Numbers DEF Inv
    <3>2. Proc = "init_line" => Asked = "INIT"
      BY DEF Asked
    <3> QED
      BY <1>1, <2>1, <3>1, <3>2 DEF Reserve
  <2> QED
    BY <1>1, <2>2, <2>3, DeviceKeeps DEF ReadTimeout
<1> QED
  BY <1>3, <1>4

\* The first answer to readout unprotect goes out, and the mass erase begins.
LEMMA UnprotectGoes ==
  ASSUME Inv, Punctual, main.at = "wait", bits = {}, sema = "empty", Sent, main.step = 2,
         line' = line \o <<"ACK">>, dev'.heard = "unprotected", dev'.mode = "unprotect",
         dev'.erased = dev.erased, dev'.blocks = dev.blocks,
         UNCHANGED <<main, rx, tx, stop_tasks, bits, sema, mux>>
  PROVE  MainInv' /\ TaskInv' /\ TxInv'
<1>1. /\ dev.heard = Asked /\ Asked # "none" /\ Flow(<<>>) /\ Proc' = Proc
      /\ Proc = "readout_unprotect" /\ main.wait = 1 /\ Progress(2) /\ Asked = "unprotect"
  BY SentFrames DEF Sent, Proc, FlowStale
<1>2. FirstOnItsWay'
  <2>1. <<"ACK">> \in Seq(Bytes)
    BY DEF Bytes, Answers
  <2>2. Flow(<<>> \o <<"ACK">>)'
    BY <1>1, <2>1, FlowGrows DEF Inv
  <2>3. Flow(<<"ACK">>)'
    BY <2>2, ShortSequences
  <2> QED
    BY <1>1, <2>3 DEF FirstOnItsWay, Progress
<1>3. MainInv'
  <2>1. Place'
    BY <1>1 DEF Inv, MainInv, Place
  <2>2. AtWait'
    BY <1>2 DEF AtWait, Coming
  <2> QED
    BY <2>1, <2>2 DEF MainInv, AtRest, AtLead, AtSend, AtTake, AtLinger
<1>4. TaskInv' /\ TxInv'
  <2>1. Reserve' = 11
    BY <1>1 DEF Reserve
  <2>2. main.timer \in Nat /\ main.timer >= 21
    BY <1>1, SentTime, Numbers DEF Inv
  <2> QED
    BY <1>1, <2>1, <2>2, DeviceKeeps DEF ReadTimeout
<1> QED
  BY <1>3, <1>4

\* Where an accepted frame leads.
LEMMA Accepting ==
  ASSUME Inv, Punctual, DeviceAnswers, main.at = "wait", bits = {}, sema = "empty", Sent,
         main.step # 2, main.result = 0
  PROVE  MainInv' /\ TaskInv' /\ TxInv'
<1>1. /\ dev.heard = Asked /\ main.step \in Nat /\ NBlocks \in Nat /\ Progress(main.step)
      /\ dev.mode = Expects[Proc][main.wait]
      /\ dev.erased \in BOOLEAN /\ dev.blocks \in Nat
  BY SentFrames, Types, Numbers DEF Sent, Inv
<1>2. ASSUME NEW m, Responses(dev.mode, dev.heard) = {[say |-> <<"ACK">>, mode |-> m]},
             m # "unprotect"
      PROVE  /\ line' = line \o <<"ACK">> /\ dev'.mode = m /\ dev'.heard = "none"
             /\ dev'.erased = (dev.erased \/ (dev.mode = "global" /\ Accepted(dev.mode, dev.heard)))
             /\ dev'.blocks = CASE dev.mode = "global" /\ Accepted(dev.mode, dev.heard) -> 0
                                [] dev.mode = "block" /\ Accepted(dev.mode, dev.heard)  -> dev.blocks + 1
                                [] OTHER                                                -> dev.blocks
             /\ UNCHANGED <<main, rx, tx, stop_tasks, bits, sema, mux>>
  <2>1. (IF m = "unprotect" THEN "unprotected" ELSE "none") = "none"
    BY <1>2
  <2> QED
    BY <1>2, <2>1, DeviceFields DEF Inv
<1>3. ASSUME line' = line \o <<"ACK">>, dev'.heard = "none",
             UNCHANGED <<main, rx, tx, stop_tasks, bits, sema, mux>>,
             IF main.wait + 1 <= Waits[Proc]
             THEN dev'.mode = Expects[Proc][main.wait + 1] /\ Progress(main.step)'
             ELSE dev'.mode = RestMode(main.step + 1) /\ Progress(main.step + 1)'
      PROVE  MainInv' /\ TaskInv' /\ TxInv'
  <2>1. Proc' = Proc
    BY <1>3 DEF Proc
  <2>2. LeadsOn("ACK")'
    BY <1>3, <2>1 DEF LeadsOn, AtPart, RestMode, Progress
  <2>3. "ACK" \in Answers
    BY DEF Answers
  <2> QED
    BY <1>3, <2>2, <2>3, AnswerGoes
<1>4. CASE Asked = "INIT"
  <2>1. main.step \in {1, 3} /\ main.wait = 1 /\ Proc = "init_line" /\ dev.mode = "baud"
    BY <1>1, <1>4, SentFrames, Tables
  <2>2. /\ line' = line \o <<"ACK">> /\ dev'.mode = "idle" /\ dev'.heard = "none"
        /\ dev'.erased = dev.erased /\ dev'.blocks = dev.blocks
        /\ UNCHANGED <<main, rx, tx, stop_tasks, bits, sema, mux>>
    BY <1>1, <1>2, <1>4, <2>1, Replies
  <2>3. RestMode(main.step + 1) = "idle" /\ Progress(main.step + 1)'
    BY <1>1, <2>1, <2>2 DEF RestMode, Progress
  <2> QED
    BY <1>3, <2>1, <2>2, <2>3, Tables
<1>5. CASE Asked = "erase"
  <2>1. main.step = 4 /\ main.wait = 1 /\ Proc = "erase" /\ dev.mode = "idle"
    BY <1>1, <1>5, SentFrames, Tables
  <2>2. /\ line' = line \o <<"ACK">> /\ dev'.mode = "global" /\ dev'.heard = "none"
        /\ dev'.erased = dev.erased /\ dev'.blocks = dev.blocks
        /\ UNCHANGED <<main, rx, tx, stop_tasks, bits, sema, mux>>
    BY <1>1, <1>2, <1>5, <2>1, Replies
  <2>3. Progress(main.step)'
    BY <1>1, <2>2 DEF Progress
  <2> QED
    BY <1>3, <2>1, <2>2, <2>3, Tables
<1>6. CASE Asked = "global"
  <2>1. main.step = 4 /\ main.wait = 2 /\ Proc = "erase" /\ dev.mode = "global"
    BY <1>1, <1>6, SentFrames, Tables
  <2>2. /\ line' = line \o <<"ACK">> /\ dev'.mode = "idle" /\ dev'.heard = "none"
        /\ dev'.erased = TRUE /\ dev'.blocks = 0
        /\ UNCHANGED <<main, rx, tx, stop_tasks, bits, sema, mux>>
    BY <1>1, <1>2, <1>6, <2>1, Replies, AcceptedFrames
  <2>3. RestMode(main.step + 1) = "idle" /\ Progress(main.step + 1)'
    BY <2>1, <2>2 DEF RestMode, Progress
  <2> QED
    BY <1>3, <2>1, <2>2, <2>3, Tables
<1>7. CASE Asked = "write"
  <2>1. main.step >= 5 /\ main.wait = 1 /\ Proc = "write_flash" /\ dev.mode = "idle"
    BY <1>1, <1>7, SentFrames, Tables
  <2>2. /\ line' = line \o <<"ACK">> /\ dev'.mode = "address" /\ dev'.heard = "none"
        /\ dev'.erased = dev.erased /\ dev'.blocks = dev.blocks
        /\ UNCHANGED <<main, rx, tx, stop_tasks, bits, sema, mux>>
    BY <1>1, <1>2, <1>7, <2>1, Replies
  <2>3. Progress(main.step)'
    BY <1>1, <2>2 DEF Progress
  <2> QED
    BY <1>3, <2>1, <2>2, <2>3, Tables
<1>8. CASE Asked = "address"
  <2>1. main.step >= 5 /\ main.wait = 2 /\ Proc = "write_flash" /\ dev.mode = "address"
    BY <1>1, <1>8, SentFrames, Tables
  <2>2. /\ line' = line \o <<"ACK">> /\ dev'.mode = "block" /\ dev'.heard = "none"
        /\ dev'.erased = dev.erased /\ dev'.blocks = dev.blocks
        /\ UNCHANGED <<main, rx, tx, stop_tasks, bits, sema, mux>>
    BY <1>1, <1>2, <1>8, <2>1, Replies
  <2>3. Progress(main.step)'
    BY <1>1, <2>2 DEF Progress
  <2> QED
    BY <1>3, <2>1, <2>2, <2>3, Tables
<1>9. CASE Asked = "block"
  <2>1. main.step >= 5 /\ main.wait = 3 /\ Proc = "write_flash" /\ dev.mode = "block"
    BY <1>1, <1>9, SentFrames, Tables
  <2>2. /\ line' = line \o <<"ACK">> /\ dev'.mode = "idle" /\ dev'.heard = "none"
        /\ dev'.erased = dev.erased /\ dev'.blocks = dev.blocks + 1
        /\ UNCHANGED <<main, rx, tx, stop_tasks, bits, sema, mux>>
    BY <1>1, <1>2, <1>9, <2>1, Replies, AcceptedFrames
  <2>3. RestMode(main.step + 1) = "idle" /\ Progress(main.step + 1)'
    BY <1>1, <2>1, <2>2 DEF RestMode, Progress
  <2> QED
    BY <1>3, <2>1, <2>2, <2>3, Tables
<1> QED
  BY <1>1, <1>4, <1>5, <1>6, <1>7, <1>8, <1>9, SentFrames

\* Where a refusal leads, by choice or because the command was refused before.
LEMMA Refusing ==
  ASSUME Inv, Punctual, main.at = "wait", bits = {}, sema = "empty", Sent, main.step >= 4,
         main.step > 4 => main.wait = 3,
         line' = line \o <<"NACK">>, dev'.mode = "idle", dev'.heard = "none",
         dev'.erased = dev.erased, dev'.blocks = dev.blocks,
         UNCHANGED <<main, rx, tx, stop_tasks, bits, sema, mux>>
  PROVE  MainInv' /\ TaskInv' /\ TxInv'
<1>1. Progress(main.step) /\ main.step \in Nat /\ Proc' = Proc
  BY SentFrames DEF Proc
<1>2. LeadsOn("NACK")'
  BY <1>1 DEF LeadsOn, AtPart, Progress
<1>3. "NACK" \in Answers
  BY DEF Answers
<1> QED
  BY <1>1, <1>2, <1>3, AnswerGoes

\* No answer of the bootloader puts it out of step with app_main.
LEMMA DeviceStep ==
  ASSUME Inv, Punctual, Device
  PROVE  MainInv' /\ TaskInv' /\ TxInv'
<1>1. dev.heard # "none"
  <2>1. DeviceAnswers => dev.heard # "none"
    BY DEF DeviceAnswers
  <2>2. DeviceRefuses => dev.heard # "none"
    BY DEF DeviceRefuses, Accepted, Accepts
  <2> QED
    BY <2>1, <2>2 DEF Device
<1>2. CASE main.at \in {"send", "wait", "take"} /\ main.step = 2
           /\ dev.heard = "unprotected" /\ dev.mode = "unprotect"
  BY <1>2, EndOfUnprotect
<1>3. CASE main.at = "wait" /\ bits = {} /\ sema = "empty" /\ Sent
  <2>1. /\ dev.heard = Asked /\ main.step \in Nat
        /\ \/ main.result = 0 /\ dev.mode = Expects[Proc][main.wait]
           \/ main.result = -1 /\ main.step >= 4 /\ main.wait > 1 /\ dev.mode = "idle"
        /\ dev.erased \in BOOLEAN
    BY <1>3, SentFrames, Types DEF Sent, Inv
  <2>2. CASE DeviceAnswers /\ main.step = 2
    <3>1. main.result = 0 /\ dev.mode = "idle" /\ dev.heard = "unprotect"
      BY <1>3, <2>1, <2>2, SentFrames, Tables
    <3>2. Responses(dev.mode, dev.heard) = {[say |-> <<"ACK">>, mode |-> "unprotect"]}
      BY <3>1, Replies
    <3>3. /\ line' = line \o <<"ACK">> /\ dev'.mode = "unprotect" /\ dev'.heard = "unprotected"
          /\ dev'.erased = dev.erased /\ dev'.blocks = dev.blocks
          /\ UNCHANGED <<main, rx, tx, stop_tasks, bits, sema, mux>>
      <4>1. /\ line' = line \o <<"ACK">> /\ dev'.mode = "unprotect"
            /\ dev'.heard = IF "unprotect" = "unprotect" THEN "unprotected" ELSE "none"
            /\ dev'.erased = (dev.erased \/ (dev.mode = "global" /\ Accepted(dev.mode, dev.heard)))
            /\ dev'.blocks = CASE dev.mode = "global" /\ Accepted(dev.mode, dev.heard) -> 0
                               [] dev.mode = "block" /\ Accepted(dev.mode, dev.heard)  -> dev.blocks + 1
                               [] OTHER                                                -> dev.blocks
            /\ UNCHANGED <<main, rx, tx, stop_tasks, bits, sema, mux>>
        BY <2>2, <3>2, DeviceFields DEF Inv
      <4> QED
        BY <2>1, <3>1, <4>1
    <3> QED
      BY <1>3, <2>2, <3>3, UnprotectGoes
  <2>3. CASE DeviceAnswers /\ main.step # 2 /\ main.result = 0
    BY <1>3, <2>3, Accepting
  <2>4. CASE DeviceAnswers /\ main.result # 0
    <3>1. dev.mode = "idle" /\ dev.heard = "global" /\ main.step = 4
      <4>1. ~(main.step > 4)
        BY <1>3, <2>4 DEF Inv, MainInv, Place
      <4> QED
        BY <1>3, <2>1, <2>4, <4>1, SentFrames
    <3>2. Responses(dev.mode, dev.heard) = {[say |-> <<"NACK">>, mode |-> "idle"]}
      BY <3>1, Replies
    <3>3. /\ line' = line \o <<"NACK">> /\ dev'.mode = "idle" /\ dev'.heard = "none"
          /\ dev'.erased = dev.erased /\ dev'.blocks = dev.blocks
          /\ UNCHANGED <<main, rx, tx, stop_tasks, bits, sema, mux>>
      <4>1. /\ line' = line \o <<"NACK">> /\ dev'.mode = "idle"
            /\ dev'.heard = IF "idle" = "unprotect" THEN "unprotected" ELSE "none"
            /\ dev'.erased = (dev.erased \/ (dev.mode = "global" /\ Accepted(dev.mode, dev.heard)))
            /\ dev'.blocks = CASE dev.mode = "global" /\ Accepted(dev.mode, dev.heard) -> 0
                               [] dev.mode = "block" /\ Accepted(dev.mode, dev.heard)  -> dev.blocks + 1
                               [] OTHER                                                -> dev.blocks
            /\ UNCHANGED <<main, rx, tx, stop_tasks, bits, sema, mux>>
        BY <2>4, <3>2, DeviceFields DEF Inv
      <4> QED
        BY <2>1, <3>1, <4>1
    <3> QED
      BY <1>3, <3>1, <3>3, Refusing
  <2>5. CASE DeviceRefuses
    <3>1. main.step >= 4
      <4>1. dev.heard # "unprotect" /\ ~(dev.heard = "INIT" /\ dev.mode = "baud")
        BY <2>5, AcceptedFrames DEF DeviceRefuses, Punctual
      <4>2. main.step \in {1, 3} => dev.heard = "INIT" /\ dev.mode = "baud"
        BY <1>3, <2>1, SentFrames, Tables
      <4>3. main.step = 2 => dev.heard = "unprotect"
        BY <1>3, <2>1, SentFrames
      <4>4. main.step >= 1
        BY Numbers DEF Inv
      <4> QED
        BY <2>1, <4>1, <4>2, <4>3, <4>4
    <3>2. line' = line \o <<"NACK">>
      <4>1. line \in Seq(Bytes) /\ "NACK" \in Bytes
        BY Types DEF Inv, Bytes, Answers
      <4> QED
        BY <2>5, <4>1, AppendIsConcat DEF DeviceRefuses
    <3>3. /\ dev'.mode = "idle" /\ dev'.heard = "none"
          /\ dev'.erased = dev.erased /\ dev'.blocks = dev.blocks
          /\ UNCHANGED <<main, rx, tx, stop_tasks, bits, sema, mux>>
      BY <2>5, TypeParts DEF DeviceRefuses, Inv, Devs
    <3>4. main.step > 4 => main.wait = 3
      <4>1. dev.heard \notin {"write", "address"}
        BY <2>5 DEF DeviceRefuses, Punctual
      <4> QED
        BY <1>3, <2>1, <4>1, SentFrames
    <3> QED
      BY <1>3, <3>1, <3>2, <3>3, <3>4, Refusing
  <2> QED
    BY <2>1, <2>2, <2>3, <2>4, <2>5 DEF Device
<1> QED
  BY <1>1, <1>2, <1>3, Hearing

-----------------------------------------------------------------------------
(* The clock *)

\* What stands still while the clock advances.
LEMMA TickFields ==
  ASSUME Inv, Tick
  PROVE  /\ main.at \in {"pause", "lead", "wait", "linger"}
         /\ main.at = "wait" => bits = {}
         /\ main.timer \in Nat /\ main.timer >= 1 /\ main'.timer = main.timer - 1
         /\ main'.at = main.at /\ main'.step = main.step /\ main'.wait = main.wait
         /\ main'.seen = main.seen /\ main'.result = main.result
         /\ UNCHANGED <<stop_tasks, bits, sema, mux, line>>
         /\ dev'.mode = dev.mode /\ dev'.heard = dev.heard
         /\ dev'.erased = dev.erased /\ dev'.blocks = dev.blocks
         /\ dev.heard # "none" => dev'.age = dev.age + 1
<1>1. main \in Mains /\ dev \in Devs /\ main.timer \in Nat
  BY TypeParts, Numbers DEF Inv
<1>2. main.at \notin {"done", "panic", "send", "take"}
  BY DEF Tick, MainReady, Inv, MainInv, AtTake
<1>3. main.at \in {"pause", "lead", "wait", "linger"}
  BY <1>2, Types DEF Inv
<1>4. main.timer # 0 /\ (main.at = "wait" => bits = {})
  BY <1>3 DEF Tick, MainReady
<1>5. main' = [main EXCEPT !.timer = main.timer - 1]
  BY <1>4 DEF Tick, Down
<1> QED
  BY <1>1, <1>3, <1>4, <1>5 DEF Tick, Mains, Devs

\* Which tasks can wait for the clock.
LEMMA TickTasks ==
  ASSUME Inv, Tick
  PROVE  /\ \A r \in Rx : /\ rx'[r].at = rx[r].at /\ rx'[r].got = rx[r].got
                          /\ rx[r].timer \in Nat
                          /\ rx[r].at # "off" =>
                               /\ rx[r].at \in {"mux", "read", "between", "after"}
                               /\ rx[r].timer >= 1 /\ rx'[r].timer = rx[r].timer - 1
                          /\ rx[r].at = "mux" => mux # "free"
                          /\ rx[r].at = "read" => line = <<>>
         /\ \A t \in Tx : /\ tx'[t].at = tx[t].at
                          /\ tx[t].timer \in Nat
                          /\ tx[t].at = "loop" =>
                               tx[t].timer >= 1 /\ tx'[t].timer = tx[t].timer - 1
<1>1. ASSUME NEW r \in Rx
      PROVE  /\ rx'[r].at = rx[r].at /\ rx'[r].got = rx[r].got
             /\ rx[r].timer \in Nat
             /\ rx[r].at # "off" =>
                  /\ rx[r].at \in {"mux", "read", "between", "after"}
                  /\ rx[r].timer >= 1 /\ rx'[r].timer = rx[r].timer - 1
             /\ rx[r].at = "mux" => mux # "free"
             /\ rx[r].at = "read" => line = <<>>
  <2>1. rx[r] \in Rxs /\ rx'[r] = [rx[r] EXCEPT !.timer = Down(rx[r].timer)]
    BY TypeParts DEF Inv, Tick
  <2>2. /\ rx'[r].at = rx[r].at /\ rx'[r].got = rx[r].got
        /\ rx'[r].timer = Down(rx[r].timer)
    BY <2>1 DEF Rxs
  <2>3. /\ rx[r].at \in {"off", "loop", "mux", "read", "first", "between", "after"}
        /\ rx[r].timer \in Nat
    BY Types, Numbers DEF Inv
  <2>4. ~RxReady(r)
    BY DEF Tick
  <2>5. /\ rx[r].at \notin {"loop", "first"}
        /\ rx[r].at = "mux" => mux # "free" /\ rx[r].timer # 0
        /\ rx[r].at = "read" => line = <<>> /\ rx[r].timer # 0
        /\ rx[r].at \in {"between", "after"} => rx[r].timer # 0
    BY <2>4 DEF RxReady
  <2> QED
    BY <2>2, <2>3, <2>5 DEF Down
<1>2. ASSUME NEW t \in Tx
      PROVE  /\ tx'[t].at = tx[t].at
             /\ tx[t].timer \in Nat
             /\ tx[t].at = "loop" => tx[t].timer >= 1 /\ tx'[t].timer = tx[t].timer - 1
  <2>1. tx[t] \in Txs /\ tx'[t] = [tx[t] EXCEPT !.timer = Down(tx[t].timer)]
    BY TypeParts DEF Inv, Tick
  <2>2. tx'[t].at = tx[t].at /\ tx'[t].timer = Down(tx[t].timer)
    BY <2>1 DEF Txs
  <2>3. tx[t].timer \in Nat /\ ~TxReady(t)
    BY Numbers DEF Inv, Tick
  <2> QED
    BY <2>2, <2>3 DEF TxReady, Down
<1> QED
  BY <1>1, <1>2

\* app_main's part of the invariant does not depend on the clock.
LEMMA TickMain ==
  ASSUME Inv, Tick
  PROVE  MainInv' /\ (OnItsWay => OnItsWay') /\ (main.at = "wait" => ~NotYetSent)
<1>1. /\ main.at \in {"pause", "lead", "wait", "linger"}
      /\ main.at = "wait" => bits = {}
      /\ main.timer \in Nat /\ main.timer >= 1 /\ main'.timer = main.timer - 1
      /\ main'.at = main.at /\ main'.step = main.step /\ main'.wait = main.wait
      /\ main'.seen = main.seen /\ main'.result = main.result
      /\ UNCHANGED <<stop_tasks, bits, sema, mux, line>>
      /\ dev'.mode = dev.mode /\ dev'.heard = dev.heard
      /\ dev'.erased = dev.erased /\ dev'.blocks = dev.blocks
      /\ dev.heard # "none" => dev'.age = dev.age + 1
  BY TickFields
<1>2. \A p : Flow(p) => Flow(p)'
  <2>1. \A r \in Rx : Owes(r)' = Owes(r)
    BY TickTasks DEF Owes
  <2> QED
    BY <1>1, <2>1, FlowKept
<1>3. /\ \A k : Progress(k)' <=> Progress(k)
      /\ \A w, x : AtPart(w, x)' <=> AtPart(w, x)
      /\ Proc' = Proc
  BY <1>1, PartKept
<1>4. /\ FlowStale => FlowStale'
      /\ SecondComing => SecondComing'
      /\ \A x : LeadsOn(x)' <=> LeadsOn(x)
      /\ AtPart(main.wait, main.result)' <=> AtPart(main.wait, main.result)
  BY <1>1, <1>2, <1>3 DEF FlowStale, SecondComing, LeadsOn, AtPart, Progress
<1>5. ~NotYetSent
  BY TickTasks DEF NotYetSent
<1>6. OnItsWay => OnItsWay'
  BY <1>1, <1>2, <1>4 DEF OnItsWay
<1>7. Coming => Coming'
  <2>1. dev.age \in Nat
    BY Numbers DEF Inv
  <2>2. Sent => Sent'
    <3>1. Asked' = Asked
      BY <1>1, <1>3 DEF Asked
    <3> QED
      BY <1>1, <1>4, <2>1, <3>1 DEF Sent, AnswerTimeout
  <2>3. FirstOnItsWay => FirstOnItsWay'
    BY <1>1, <1>2, <1>3 DEF FirstOnItsWay
  <2>4. SecondOnItsWay => SecondOnItsWay'
    BY <1>1, <1>4, <2>1 DEF SecondOnItsWay, AnswerTimeout
  <2> QED
    BY <1>5, <1>6, <2>2, <2>3, <2>4 DEF Coming
<1>8. Place'
  BY <1>1, <1>3 DEF Inv, MainInv, Place
<1>9. AtRest'
  BY <1>1, <1>3, <1>4 DEF Inv, MainInv, AtRest, Progress
<1>10. AtLead'
  BY <1>1, <1>3, <1>4 DEF Inv, MainInv, AtLead
<1>11. AtWait'
  BY <1>1, <1>7 DEF Inv, MainInv, AtWait
<1>12. AtLinger'
  BY <1>1, <1>2, <1>3 DEF Inv, MainInv, AtLinger, AtPart, Progress
<1>13. AtSend' /\ AtTake'
  BY <1>1 DEF AtSend, AtTake
<1> QED
  BY <1>5, <1>6, <1>8, <1>9, <1>10, <1>11, <1>12, <1>13 DEF MainInv

\* A byte that the clock finds in the buffer waits behind one that is handled.
LEMMA TickLine ==
  ASSUME Inv, Tick, main.at = "wait", line # <<>>
  PROVE  main.timer - 1 >= Reserve + ReadTimeout
<1>1. PICK r \in Busy : TRUE
  BY DEF Inv, TaskInv, Alone
<1>2. r \in Rx /\ rx[r].at # "off"
  BY DEF Busy
<1>3. \A q \in Rx : rx[q].at # "read"
  BY TickTasks
<1>4. mux = "free"
  BY <1>3, TypeParts DEF Inv, ShapeInv, RxShape
<1>5. rx[r].at \in {"between", "after"} /\ rx[r].timer >= 1 /\ rx[r].timer \in Nat
  BY <1>2, <1>3, <1>4, TickTasks
<1>6. bits = {} /\ main.timer \in Nat /\ main.timer <= 50
  BY TickFields, Numbers DEF Inv
<1>7. main.step # 1
  <2>1. main.step = 1 => Proc = "init_line"
    BY Sending DEF Inv
  <2> QED
    BY <1>1, <1>5, <1>6, <2>1 DEF Inv, TaskInv, InitTime
<1>8. main.timer >= rx[r].timer + 49
  BY <1>1, <1>5, <1>6, <1>7 DEF Inv, TaskInv, AnswerTime
<1>9. Reserve \in {37, 11, 1}
  BY DEF Reserve
<1> QED
  BY <1>5, <1>6, <1>8, <1>9 DEF ReadTimeout

\* The clock keeps the invariant.
LEMMA TickStep ==
  ASSUME Inv, Tick
  PROVE  MainInv' /\ TaskInv' /\ TxInv'
<1>1. /\ main.at \in {"pause", "lead", "wait", "linger"}
      /\ main.at = "wait" => bits = {}
      /\ main.timer \in Nat /\ main.timer >= 1 /\ main'.timer = main.timer - 1
      /\ main'.at = main.at /\ main'.step = main.step /\ main'.wait = main.wait
      /\ UNCHANGED <<bits, mux, line>> /\ dev'.heard = dev.heard
  BY TickFields
<1>2. /\ ~Posted /\ ~Posted' /\ (Unborn' <=> Unborn) /\ Proc' = Proc
      /\ Reserve' = Reserve /\ Reserve \in {37, 11, 1}
  BY <1>1 DEF Posted, Unborn, Proc, Reserve
<1>3. Busy' = Busy /\ Busy \subseteq Rx
  BY TickTasks DEF Busy
<1>4. \A r \in Busy : /\ rx[r].at \in {"mux", "read", "between", "after"}
                      /\ rx'[r].at = rx[r].at /\ rx'[r].got = rx[r].got
                      /\ rx[r].timer \in Nat /\ rx[r].timer >= 1
                      /\ rx'[r].timer = rx[r].timer - 1
  BY TickTasks DEF Busy
<1>5. MainInv' /\ (OnItsWay => OnItsWay')
  BY TickMain
<1>6. Alone'
  BY <1>1, <1>2, <1>3 DEF Inv, TaskInv, Alone
<1>7. Handling'
  BY <1>1, <1>2, <1>3, TickTasks DEF Inv, TaskInv, Handling
<1>8. LingerTime'
  <2> SUFFICES ASSUME main.at = "linger", NEW r \in Busy
               PROVE  /\ rx'[r].at \in {"between", "after"} => main'.timer >= 9 + rx'[r].timer
                      /\ rx'[r].at = "mux" => main'.timer >= 5 + rx'[r].timer
                      /\ main.step < 5 =>
                           rx'[r].at \in {"between", "after", "loop"} /\ main'.timer >= 9
    BY <1>1, <1>3 DEF LingerTime
  <2>1. /\ rx[r].at \in {"between", "after"} => main.timer >= 9 + rx[r].timer
        /\ rx[r].at = "mux" => main.timer >= 5 + rx[r].timer
        /\ main.step < 5 => rx[r].at \in {"between", "after", "loop"} /\ main.timer >= 9
    BY DEF Inv, TaskInv, LingerTime
  <2> QED
    BY <1>1, <1>4, <2>1
<1>9. AnswerTime'
  <2>1. main.at = "wait" /\ line # <<>> => main'.timer >= Reserve + ReadTimeout
    BY <1>1, TickLine
  <2>2. ASSUME main.at = "wait", NEW r \in Busy
        PROVE  /\ rx'[r].at = "read" /\ rx'[r].got # <<>> => main'.timer >= Reserve + rx'[r].timer
               /\ rx'[r].at # "first"
               /\ rx'[r].at \in {"between", "after"} =>
                    main'.timer >= rx'[r].timer + (IF main.step = 1 THEN 36 ELSE 49)
    <3>1. /\ rx[r].at = "read" /\ rx[r].got # <<>> => main.timer >= Reserve + rx[r].timer
          /\ rx[r].at \in {"between", "after"} =>
               main.timer >= rx[r].timer + (IF main.step = 1 THEN 36 ELSE 49)
      BY <1>1, <2>2 DEF Inv, TaskInv, AnswerTime
    <3>2. /\ rx[r].at \in {"mux", "read", "between", "after"}
          /\ rx'[r].at = rx[r].at /\ rx'[r].got = rx[r].got
          /\ rx[r].timer \in Nat /\ rx'[r].timer = rx[r].timer - 1
      BY <1>4
    <3>3. rx[r].at = "read" /\ rx[r].got # <<>> => main'.timer >= Reserve + rx'[r].timer
      <4>1. Reserve \in Nat
        BY <1>2
      <4> QED
        BY <1>1, <3>1, <3>2, <4>1
    <3>4. rx[r].at \in {"between", "after"} =>
            main'.timer >= rx'[r].timer + (IF main.step = 1 THEN 36 ELSE 49)
      BY <1>1, <3>1, <3>2
    <3> QED
      BY <3>2, <3>3, <3>4
  <2> QED
    BY <1>1, <1>2, <1>3, <2>1, <2>2 DEF AnswerTime
<1>10. InitTime'
  <2>1. ASSUME main.at = "wait", Proc = "init_line", NEW r \in Busy
        PROVE  /\ rx'[r].at = "read" /\ rx'[r].got # <<>> => main'.timer <= 40 + rx'[r].timer
               /\ rx'[r].at \in {"first", "between"} => main'.timer <= 40
               /\ main.step = 1 => /\ rx'[r].at # "after"
                                   /\ rx'[r].at \in {"first", "between"} => line = <<>> /\ OnItsWay'
    <3>1. /\ rx[r].at = "read" /\ rx[r].got # <<>> => main.timer <= 40 + rx[r].timer
          /\ rx[r].at \in {"first", "between"} => main.timer <= 40
          /\ main.step = 1 => /\ rx[r].at # "after"
                              /\ rx[r].at \in {"first", "between"} => line = <<>> /\ OnItsWay
      BY <1>1, <2>1 DEF Inv, TaskInv, InitTime
    <3> QED
      BY <1>1, <1>4, <1>5, <3>1
  <2> QED
    BY <1>1, <1>2, <1>3, <2>1 DEF InitTime
<1>11. TxInv'
  <2>1. ASSUME NEW t \in Tx, tx[t].at = "loop"
        PROVE  /\ main.at \in {"wait", "linger"} /\ Proc = "init_line"
               /\ main.at = "wait" => tx'[t].timer + 35 = main'.timer
               /\ main.at = "linger" => tx'[t].timer + 5 <= main'.timer
    <3>1. /\ main.at \in {"wait", "linger"} /\ Proc = "init_line"
          /\ main.at = "wait" => tx[t].timer + 35 = main.timer
          /\ main.at = "linger" => tx[t].timer + 5 <= main.timer
      BY <1>1, <2>1, TickMain DEF Inv, TxInv
    <3>2. tx[t].timer \in Nat /\ tx'[t].timer = tx[t].timer - 1
      BY <2>1, TickTasks
    <3> QED
      BY <1>1, <3>1, <3>2
  <2>2. \A t \in Tx : tx'[t].at = tx[t].at
    BY TickTasks
  <2> QED
    BY <1>1, <1>2, <2>1, <2>2 DEF Inv, TxInv
<1> QED
  BY <1>5, <1>6, <1>7, <1>8, <1>9, <1>10, <1>11 DEF TaskInv
=============================================================================
