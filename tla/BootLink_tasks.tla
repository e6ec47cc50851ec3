--------------------------- MODULE BootLink_tasks ---------------------------
(***************************************************************************)
(* The steps of the rx tasks and of tx_task keep the invariant of          *)
(* BootLink.                                                               *)
(***************************************************************************)
EXTENDS BootLink_lemmas

-----------------------------------------------------------------------------
(* Steps of one rx task *)

\* What TaskInv asks of one task, when the buffer holds buf.
GoodTask(q, buf) ==
  /\ Unborn => q.at \notin {"between", "after"}
  /\ main.step < 5 /\ Posted => q.at \in {"between", "after"} /\ q.timer = HandleDelay
  /\ q.at = "between" => Len(q.got) <= 2
  /\ main.at = "linger" =>
       /\ q.at \in {"between", "after"} => main.timer >= 9 + q.timer
       /\ q.at = "mux" => main.timer >= 5 + q.timer
       /\ main.step < 5 => q.at \in {"between", "after", "loop"} /\ main.timer >= 9
  /\ main.at = "wait" /\ bits = {} =>
       /\ q.at = "read" /\ q.got # <<>> => main.timer >= Reserve + q.timer
       /\ q.at = "first" => main.timer >= Reserve
       /\ q.at \in {"between", "after"} =>
            main.timer >= q.timer + (IF main.step = 1 THEN 36 ELSE 49)
  /\ main.at = "wait" /\ Proc = "init_line" /\ bits = {} =>
       /\ q.at = "read" /\ q.got # <<>> => main.timer <= 40 + q.timer
       /\ q.at \in {"first", "between"} => main.timer <= 40
       /\ main.step = 1 => /\ q.at # "after"
                           /\ q.at \in {"first", "between"} => buf = <<>>

\* Every task that exists is a good one.
LEMMA TaskIsGood ==
  ASSUME TaskInv, NEW r \in Busy
  PROVE  GoodTask(rx[r], line)
BY DEF TaskInv, Alone, Handling, LingerTime, AnswerTime, InitTime, GoodTask, Busy

\* A step that turns r's record into another good one keeps TaskInv.
LEMMA TaskLocal ==
  ASSUME Inv, NEW r \in Busy, NEW q, rx' = [rx EXCEPT ![r] = q],
         UNCHANGED <<main, bits, dev>>, line' = line \/ line' = <<>>,
         OnItsWay => OnItsWay',
         q.at = "off" => Unborn \/ main.at \in {"linger", "panic"},
         q.at # "off" => GoodTask(q, line'),
         main.at = "wait" /\ bits = {} /\ main.step = 1 /\ q.at \in {"first", "between"} => OnItsWay'
  PROVE  TaskInv'
<1>1. /\ r \in Rx /\ rx'[r] = q /\ \A s \in Rx \ {r} : rx'[s] = rx[s]
      /\ Proc' = Proc /\ Reserve' = Reserve /\ (Posted' <=> Posted) /\ (Unborn' <=> Unborn)
  BY DEF Inv, TypeOK, Busy, Proc, Reserve, Posted, Unborn
<1>2. Busy' \subseteq Busy /\ Busy \ {r} \subseteq Busy' /\ (q.at # "off" => r \in Busy')
  BY <1>1 DEF Busy
<1>3. \A s \in Busy' : rx'[s] = rx[s] \/ (s = r /\ q.at # "off")
  BY <1>1, <1>2 DEF Busy
<1>4. \A s \in Busy' : GoodTask(rx'[s], line')
  <2>1. ASSUME NEW s \in Busy', rx'[s] = rx[s] PROVE GoodTask(rx'[s], line')
    <3>1. GoodTask(rx[s], line)
      BY <1>2, TaskIsGood DEF Inv
    <3> QED
      BY <2>1, <3>1 DEF GoodTask
  <2> QED
    BY <1>1, <1>3, <2>1
<1>5. Alone'
  <2>1. Posted' \/ main'.at = "wait" => Busy' # {}
    BY <1>1, <1>2 DEF Inv, TaskInv, Alone, Posted, Unborn
  <2> QED
    BY <1>1, <1>2, <2>1 DEF Inv, TaskInv, Alone
<1>6. Handling'
  <2>1. \A s \in Rx : s \notin Busy' => rx'[s].at = "off"
    BY DEF Busy
  <2>2. (Unborn => \A s \in Rx : rx'[s].at \notin {"between", "after"})
    BY <1>4, <2>1 DEF GoodTask
  <2>3. main.step < 5 /\ Posted =>
          \A s \in Busy' : rx'[s].at \in {"between", "after"} /\ rx'[s].timer = HandleDelay
    BY <1>4 DEF GoodTask
  <2>4. \A s \in Rx : rx'[s].at = "between" => Len(rx'[s].got) <= 2
    BY <1>4, <2>1 DEF GoodTask
  <2> QED
    BY <1>1, <2>2, <2>3, <2>4 DEF Handling
<1>7. LingerTime'
  BY <1>4 DEF GoodTask, LingerTime
<1>8. AnswerTime'
  <2>1. main.at = "wait" /\ bits = {} /\ line' # <<>> => main.timer >= Reserve + ReadTimeout
    BY DEF Inv, TaskInv, AnswerTime
  <2> QED
    BY <1>1, <1>4, <2>1 DEF GoodTask, AnswerTime
<1>9. InitTime'
  <2>1. main.at = "wait" /\ Proc = "init_line" /\ bits # {} => main.timer \in 36..40
    BY DEF Inv, TaskInv, InitTime
  <2>2. ASSUME NEW s \in Busy', main.at = "wait", Proc = "init_line", bits = {}, main.step = 1,
               rx'[s].at \in {"first", "between"}
        PROVE  OnItsWay'
    <3>1. CASE s = r
      BY <1>1, <2>2, <3>1
    <3>2. CASE s # r
      <4>1. s \in Busy /\ rx[s].at \in {"first", "between"}
        BY <1>1, <1>2, <2>2, <3>2 DEF Busy
      <4> QED
        BY <2>2, <4>1 DEF Inv, TaskInv, InitTime
    <3> QED
      BY <3>1, <3>2
  <2> QED
    BY <1>1, <1>4, <2>1, <2>2 DEF GoodTask, InitTime
<1> QED
  BY <1>5, <1>6, <1>7, <1>8, <1>9 DEF TaskInv

\* A step that keeps everything but one task, and what is on its way.
LEMMA RxKeeps ==
  ASSUME Inv, NEW r \in Busy, NEW q, rx' = [rx EXCEPT ![r] = q],
         UNCHANGED <<main, tx, stop_tasks, bits, sema, dev>>, line' = line \/ line' = <<>>,
         FlowStays,
         q.at = "off" => Unborn \/ main.at \in {"linger", "panic"},
         q.at # "off" => GoodTask(q, line'),
         main.at = "wait" /\ bits = {} /\ main.step = 1 /\ q.at \in {"first", "between"} => OnItsWay
  PROVE  MainInv' /\ TaskInv' /\ TxInv'
<1>1. (OnItsWay => OnItsWay') /\ (NotYetSent => NotYetSent')
  BY ExchangeKept
<1>2. MainInv'
  <2>1. ExchangeStays
    BY ExchangeKept DEF ExchangeStays, FlowStays
  <2> QED
    BY <2>1, MainKept DEF Inv
<1>3. TaskInv'
  BY <1>1, TaskLocal
<1>4. TxInv'
  BY <1>1, TxKept DEF Inv
<1> QED
  BY <1>2, <1>3, <1>4

\* A task that owes the same before and after a step.
LEMMA OwesKept ==
  ASSUME TypeOK, NEW r \in Rx, NEW q, rx' = [rx EXCEPT ![r] = q], line' = line,
         Owes(r)' = Owes(r)
  PROVE  FlowStays
<1>1. \A s \in Rx : Owes(s)' = Owes(s)
  BY DEF Owes, TypeOK
<1> QED
  BY <1>1, FlowKept DEF FlowStays

\* rx_task looks at stop_tasks: it ends, or asks for the mutex.
LEMMA RxLoopStep ==
  ASSUME Inv, NEW r \in Rx, RxLoop(r)
  PROVE  MainInv' /\ TaskInv' /\ TxInv'
<1> DEFINE q == IF stop_tasks THEN IdleRx
                ELSE [at |-> "mux", timer |-> ReadTimeout, got |-> <<>>]
<1>1. /\ rx[r].at = "loop" /\ rx' = [rx EXCEPT ![r] = q] /\ r \in Busy /\ line' = line
      /\ UNCHANGED <<main, tx, stop_tasks, bits, sema, dev>>
  BY DEF RxLoop, Busy
<1>2. rx'[r] = q
  BY <1>1 DEF Inv, TypeOK
<1>3. Owes(r)' = Owes(r)
  BY <1>1, <1>2 DEF Owes, IdleRx
<1>4. FlowStays
  BY <1>1, <1>3, OwesKept DEF Inv
<1>5. q.at = "off" => Unborn \/ main.at \in {"linger", "panic"}
  BY Types DEF Inv, MainInv, Place, Unborn
<1>6. q.at # "off" => GoodTask(q, line')
  <2>1. ~(main.step < 5 /\ Posted)
    BY <1>1, TaskIsGood DEF Inv, GoodTask
  <2> QED
    BY <2>1 DEF Inv, MainInv, Place, GoodTask, IdleRx
<1>7. q.at \notin {"first", "between"}
  BY DEF IdleRx
<1> HIDE DEF q
<1> QED
  BY <1>1, <1>4, <1>5, <1>6, <1>7, RxKeeps

\* It gets the mutex, or gives up after the timeout.
LEMMA RxLockStep ==
  ASSUME Inv, NEW r \in Rx, RxLock(r)
  PROVE  MainInv' /\ TaskInv' /\ TxInv'
<1>1. /\ rx[r].at = "mux" /\ r \in Busy /\ line' = line /\ rx[r].got = <<>>
      /\ UNCHANGED <<main, tx, stop_tasks, bits, sema, dev>>
  BY DEF RxLock, Busy, Inv, ShapeInv, RxShape
<1>2. PICK q : /\ rx' = [rx EXCEPT ![r] = q] /\ q.at \in {"read", "loop"} /\ q.got = <<>>
  <2>1. CASE rx' = [rx EXCEPT ![r].at = "read", ![r].timer = ReadTimeout]
    <3> DEFINE q == [rx[r] EXCEPT !.at = "read", !.timer = ReadTimeout]
    <3>1. rx' = [rx EXCEPT ![r] = q] /\ q.at = "read" /\ q.got = <<>>
      BY <1>1, <2>1, TypeParts DEF Inv, Rxs
    <3> QED
      BY <3>1
  <2>2. CASE rx' = [rx EXCEPT ![r].at = "loop"]
    <3> DEFINE q == [rx[r] EXCEPT !.at = "loop"]
    <3>1. rx' = [rx EXCEPT ![r] = q] /\ q.at = "loop" /\ q.got = <<>>
      BY <1>1, <2>2, TypeParts DEF Inv, Rxs
    <3> QED
      BY <3>1
  <2> QED
    BY <2>1, <2>2 DEF RxLock
<1>3. rx'[r] = q
  BY <1>2 DEF Inv, TypeOK
<1>4. Owes(r)' = Owes(r)
  BY <1>1, <1>2, <1>3 DEF Owes
<1>5. FlowStays
  BY <1>1, <1>2, <1>4, OwesKept DEF Inv
<1>6. GoodTask(q, line')
  BY <1>1, <1>2, TaskIsGood DEF Inv, GoodTask
<1> QED
  BY <1>1, <1>2, <1>5, <1>6, RxKeeps

\* It has handled the second byte.
LEMMA RxAfterStep ==
  ASSUME Inv, NEW r \in Rx, RxAfter(r)
  PROVE  MainInv' /\ TaskInv' /\ TxInv'
<1> DEFINE q == [rx[r] EXCEPT !.at = "loop"]
<1>1. /\ rx[r].at = "after" /\ r \in Busy /\ line' = line /\ rx[r].timer = 0
      /\ UNCHANGED <<main, tx, stop_tasks, bits, sema, dev>>
      /\ rx' = [rx EXCEPT ![r] = q] /\ q.at = "loop"
  BY TypeParts DEF RxAfter, Busy, Inv, Rxs
<1>2. rx'[r] = q
  BY <1>1 DEF Inv, TypeOK
<1> HIDE DEF q
<1>3. Owes(r)' = Owes(r)
  BY <1>1, <1>2 DEF Owes
<1>4. FlowStays
  BY <1>1, <1>3, OwesKept DEF Inv
<1>5. GoodTask(q, line')
  BY <1>1, TaskIsGood, Numbers DEF Inv, GoodTask, HandleDelay
<1> QED
  BY <1>1, <1>4, <1>5, RxKeeps

\* A read of one byte ends with its first.
LEMMA RxSecondOfOne ==
  ASSUME Inv, NEW r \in Rx, RxSecond(r), ~(Len(rx[r].got) > 1)
  PROVE  MainInv' /\ TaskInv' /\ TxInv'
<1> DEFINE q == [at |-> "loop", timer |-> 0, got |-> <<>>]
<1>1. /\ rx[r].at = "between" /\ r \in Busy /\ line' = line /\ rx[r].timer = 0
      /\ UNCHANGED <<main, tx, stop_tasks, bits, sema, dev>>
      /\ rx' = [rx EXCEPT ![r] = q]
  BY DEF RxSecond, Busy
<1>2. rx'[r].at = "loop"
  BY <1>1 DEF Inv, TypeOK
<1>3. Owes(r)' = Owes(r)
  <2>1. rx[r].got \in Seq(Bytes) /\ rx[r].got # <<>>
    BY <1>1, ByteTypes DEF Inv, ShapeInv, RxShape
  <2>2. Tail(rx[r].got) = <<>>
    BY <2>1, OneByte
  <2> QED
    BY <1>1, <1>2, <2>2 DEF Owes
<1>4. FlowStays
  BY <1>1, <1>3, OwesKept DEF Inv
<1>5. GoodTask(q, line')
  BY <1>1, TaskIsGood, Numbers DEF Inv, GoodTask, HandleDelay
<1> QED
  BY <1>1, <1>4, <1>5, RxKeeps

\* It takes what the buffer holds.
LEMMA RxReceiveStep ==
  ASSUME Inv, NEW r \in Rx, RxReceive(r)
  PROVE  MainInv' /\ TaskInv' /\ TxInv'
<1> DEFINE q == [rx[r] EXCEPT !.got = rx[r].got \o line, !.timer = ReadTimeout]
<1>1. /\ rx[r].at = "read" /\ r \in Busy /\ line # <<>> /\ line' = <<>>
      /\ UNCHANGED <<main, tx, stop_tasks, bits, sema, dev>>
      /\ rx' = [rx EXCEPT ![r] = q] /\ q.at = "read" /\ q.timer = ReadTimeout
  BY TypeParts DEF RxReceive, Busy, Inv, Rxs
<1> HIDE DEF q
<1>2. FlowStays
  <2>1. ~Flow(<<>>)
    BY <1>1, FlowPlaces DEF Inv
  <2> QED
    BY <2>1, FlowReceive DEF FlowStays, Inv, TaskInv
<1>3. GoodTask(q, line')
  <2>1. main.at = "wait" /\ bits = {} => main.timer >= Reserve + ReadTimeout
    BY <1>1 DEF Inv, TaskInv, AnswerTime
  <2>2. main.timer <= 50
    BY Numbers DEF Inv
  <2> QED
    BY <1>1, <2>1, <2>2, TaskIsGood DEF Inv, GoodTask, ReadTimeout
<1> QED
  BY <1>1, <1>2, <1>3, RxKeeps

\* Its read comes back, with bytes or without.
LEMMA RxReturnStep ==
  ASSUME Inv, Punctual, NEW r \in Rx, RxReturn(r)
  PROVE  MainInv' /\ TaskInv' /\ TxInv'
<1> DEFINE q == [rx[r] EXCEPT !.at = IF rx[r].got = <<>> THEN "loop" ELSE "first"]
<1>1. /\ rx[r].at = "read" /\ r \in Busy /\ line = <<>> /\ line' = line /\ rx[r].timer = 0
      /\ UNCHANGED <<main, tx, stop_tasks, bits, sema, dev>>
      /\ rx' = [rx EXCEPT ![r] = q] /\ q.got = rx[r].got /\ q.timer = 0
      /\ q.at = IF rx[r].got = <<>> THEN "loop" ELSE "first"
  BY TypeParts DEF RxReturn, Busy, Inv, Rxs
<1>2. rx'[r] = q
  BY <1>1 DEF Inv, TypeOK
<1> HIDE DEF q
<1>3. Owes(r)' = Owes(r)
  BY <1>1, <1>2 DEF Owes
<1>4. FlowStays
  BY <1>1, <1>3, OwesKept DEF Inv
<1>5. GoodTask(rx[r], line)
  BY <1>1, TaskIsGood DEF Inv
<1>6. GoodTask(q, line')
  <2>1. Reserve \in {37, 11, 1} /\ main.timer \in Nat
    BY Numbers DEF Inv, Reserve
  <2> QED
    BY <1>1, <1>5, <2>1 DEF GoodTask
<1>7. ASSUME main.at = "wait", bits = {}, main.step = 1, q.at = "first"
      PROVE  OnItsWay
  <2>1. Proc = "init_line"
    BY <1>7, Procs, ScriptSteps, LinkAssumption DEF Inv
  <2>2. main.timer <= 40
    BY <1>1, <1>5, <1>7, <2>1 DEF GoodTask
  <2>3. ~NotYetSent /\ ~Sent
    <3>1. /\ main.timer \in Nat /\ dev.age \in Nat /\ Latency["INIT"] \in Nat
          /\ Latency["INIT"] <= 3
      BY Numbers, LinkAssumption DEF Inv, Punctual, Frames
    <3>2. dev.heard = "INIT" => dev.age <= Latency["INIT"]
      BY DEF Inv, ShapeInv, DevShape
    <3> QED
      BY <2>1, <2>2, <3>1, <3>2 DEF NotYetSent, Sent, Asked, AnswerTimeout
  <2> QED
    BY <1>7, <2>3 DEF Inv, MainInv, AtWait, Coming, FirstOnItsWay, SecondOnItsWay
<1> QED
  BY <1>1, <1>4, <1>6, <1>7, RxKeeps

-----------------------------------------------------------------------------
(* Answers *)

\* An answer is handled: it was the one app_main waits for.
LEMMA AnswerPosted ==
  ASSUME Inv, NEW b \in Answers, Post(b), Consumes(b), ~(main.step < 5 /\ Posted),
         UNCHANGED <<tx, stop_tasks, dev>>
  PROVE  /\ main.at = "wait" /\ bits = {} /\ main' = main /\ bits' = {b}
         /\ OnItsWay \/ main.step = 2
         /\ MainInv'
<1>1. ~Flow(<<>>) /\ ~FlowStale /\ \A x : ~Flow(<<"other", x>>)
  <2>1. b # "other"
    BY DEF Answers
  <2>2. ~Flow(<<>>) /\ (\A x : Flow(<<x>>) => x = b) /\ (\A x, y : Flow(<<x, y>>) => x = b)
    BY DEF Consumes
  <2>3. ~Flow(<<"other">>) /\ \A x : ~Flow(<<"other", x>>)
    BY <2>1, <2>2
  <2> QED
    BY <2>2, <2>3 DEF FlowStale
<1>2. main.at = "wait" /\ bits = {} /\ sema = "empty" /\ Coming
  <2>1. main.at \in {"pause", "lead", "send", "wait", "take", "linger", "done"}
    BY Types DEF Inv, MainInv, Place
  <2>2. \A x : Answered(x) => main.step = 2
    BY <1>1 DEF Answered
  <2>3. main.at \notin {"pause", "done", "lead", "linger"}
    BY <1>1 DEF Inv, MainInv, AtRest, AtLead, AtLinger
  <2>4. main.at = "send" => main.step = 2 /\ main.wait = 2
    BY <1>1 DEF Inv, MainInv, AtSend
  <2>5. main.at = "take" => main.step = 2
    BY <2>2 DEF Inv, MainInv, AtTake
  <2>6. main.at = "wait" /\ bits # {} => main.step = 2
    BY <2>2 DEF Inv, MainInv, AtWait
  <2>7. main.at = "wait" /\ bits = {}
    BY <2>1, <2>3, <2>4, <2>5, <2>6 DEF Posted
  <2> QED
    BY <2>7 DEF Inv, MainInv, AtWait
<1>3. main' = main /\ bits' = {b} /\ sema' = "full"
  BY <1>2 DEF Post
<1>4. ~NotYetSent /\ ~Sent
  BY <1>1 DEF NotYetSent, Sent
<1>5. /\ \A k : Progress(k)' <=> Progress(k)
      /\ \A w, x : AtPart(w, x)' <=> AtPart(w, x)
      /\ Proc' = Proc
  BY <1>3, PartKept
<1>6. \A x : LeadsOn(x)' <=> LeadsOn(x)
  BY <1>3, <1>5 DEF LeadsOn, AtPart, Progress
<1>7. \A x : Flow(<<x>>) => x = b /\ Flow(<<>>)'
  BY DEF Consumes
<1>8. Answered(b)'
  <2>1. CASE OnItsWay
    <3>1. PICK x \in Answers : Flow(<<x>>) /\ LeadsOn(x)
      BY <1>1, <2>1 DEF OnItsWay
    <3> QED
      BY <1>3, <1>6, <1>7, <2>1, <3>1 DEF Answered, OnItsWay
  <2>2. CASE FirstOnItsWay
    <3>1. b = "ACK" /\ SecondComing'
      BY <1>3, <1>5, <2>2 DEF FirstOnItsWay, SecondComing, Consumes
    <3> QED
      BY <1>3, <2>2, <3>1 DEF FirstOnItsWay, Answered
  <2>3. CASE SecondOnItsWay
    <3>1. /\ dev.heard = "none" /\ dev.mode = "baud" /\ Flow(<<"ACK">>) /\ Progress(2)
          /\ main.step = 2 /\ main.wait = 2
      BY <1>1, <2>3 DEF SecondOnItsWay, SecondComing
    <3>2. b = "ACK" /\ Flow(<<>>)'
      BY <1>7, <3>1
    <3>3. Proc = "readout_unprotect" /\ main.result = 0
      BY <3>1, Procs, ScriptSteps, LinkAssumption DEF Inv, MainInv, Place
    <3>4. LeadsOn("ACK")
      BY <3>1, <3>3, Tables DEF LeadsOn, AtPart, Progress, RestMode
    <3> QED
      BY <1>3, <1>6, <3>1, <3>2, <3>4 DEF Answered
  <2> QED
    BY <1>2, <1>4, <2>1, <2>2, <2>3 DEF Coming
<1>9. MainInv'
  <2>1. Place'
    BY <1>3, <1>5 DEF Inv, MainInv, Place
  <2> QED
    BY <1>2, <1>3, <1>8, <2>1
       DEF MainInv, AtRest, AtLead, AtSend, AtWait, AtTake, AtLinger
<1> QED
  BY <1>2, <1>3, <1>4, <1>9 DEF Coming, FirstOnItsWay, SecondOnItsWay

\* The stale byte is handled: app_main does not notice.
LEMMA StalePosted ==
  ASSUME Inv, Post("other"), Consumes("other"), UNCHANGED <<tx, stop_tasks, dev>>
  PROVE  /\ UNCHANGED <<main, bits, sema>>
         /\ ExchangeStays /\ MainInv'
         /\ OnItsWay => OnItsWay'
         /\ NotYetSent => NotYetSent'
         /\ OnItsWay => \E x \in Answers : Flow(<<"other", x>>)
<1>1. UNCHANGED <<main, bits, sema>>
  BY DEF Post, Answers
<1>2. ~Flow(<<>>) /\ \A x \in Answers : ~Flow(<<x>>) /\ \A y : ~Flow(<<x, y>>)
  BY DEF Consumes, Answers
<1>3. /\ Flow(<<"other">>) => Flow(<<>>)'
      /\ \A x : Flow(<<"other", x>>) => Flow(<<x>>)'
  BY DEF Consumes
<1>4. /\ \A k : Progress(k)' <=> Progress(k)
      /\ \A w, x : AtPart(w, x)' <=> AtPart(w, x)
      /\ Proc' = Proc
  BY <1>1, PartKept
<1>5. \A x : LeadsOn(x)' <=> LeadsOn(x)
  BY <1>1, <1>4 DEF LeadsOn, AtPart, Progress
<1>6. ~SecondComing /\ ~FirstOnItsWay /\ ~SecondOnItsWay /\ \A x : ~Answered(x)
  BY <1>2 DEF SecondComing, FirstOnItsWay, SecondOnItsWay, Answered, Answers
<1>7. FlowStale => FlowStale'
  BY <1>1, <1>2, <1>3 DEF FlowStale
<1>8. OnItsWay => OnItsWay' /\ \E x \in Answers : Flow(<<"other", x>>)
  BY <1>1, <1>2, <1>3, <1>5 DEF OnItsWay
<1>9. NotYetSent => NotYetSent'
  BY <1>1, <1>4, <1>7 DEF NotYetSent
<1>10. Sent => Sent'
  <2>1. AtPart(main.wait, main.result)' <=> AtPart(main.wait, main.result)
    BY <1>1, <1>4 DEF AtPart, Progress
  <2> QED
    BY <1>1, <1>4, <1>7, <2>1 DEF Sent, Asked
<1>11. ExchangeStays
  BY <1>2, <1>6, <1>7, <1>8, <1>9, <1>10 DEF ExchangeStays, Coming
<1> QED
  BY <1>1, <1>8, <1>9, <1>11, MainKept DEF Inv

\* The time at which a task has handled an answer, after which its record is q.
LEMMA TaskAfterAnswer ==
  ASSUME Inv, NEW r \in Busy, NEW q, rx' = [rx EXCEPT ![r] = q], NEW b \in Answers,
         main.at = "wait", bits = {}, UNCHANGED <<main, dev>>, bits' = {b},
         q.at \in {"between", "after"}, q.timer = HandleDelay,
         q.at = "between" => Len(q.got) <= 2,
         Proc = "init_line" => main.timer \in 36..40
  PROVE  TaskInv' /\ (TxInv /\ tx' = tx => TxInv')
<1>1. /\ r \in Rx /\ rx'[r] = q /\ (\A s \in Rx \ {r} : rx'[s] = rx[s])
      /\ Proc' = Proc /\ ~Unborn' /\ bits' # {}
  BY DEF Inv, TypeOK, Busy, Proc, Unborn
<1>2. Busy' = Busy
  BY <1>1 DEF Busy
<1>3. Alone'
  BY <1>1, <1>2 DEF Inv, TaskInv, Alone
<1>4. Handling'
  <2>1. main.step < 5 => \A s \in Busy : s = r
    BY DEF Inv, TaskInv, Alone
  <2>2. \A s \in Rx : rx'[s].at = "between" => Len(rx'[s].got) <= 2
    BY <1>1 DEF Inv, TaskInv, Handling
  <2> QED
    BY <1>1, <1>2, <2>1, <2>2 DEF Handling
<1>5. LingerTime' /\ AnswerTime' /\ InitTime'
  BY <1>1 DEF LingerTime, AnswerTime, InitTime
<1>6. ASSUME TxInv, tx' = tx PROVE TxInv'
  <2>1. NotYetSent => ~(Proc = "init_line")
    BY DEF NotYetSent, AnswerTimeout
  <2>2. \A t \in Tx : tx[t].at = "loop" => Proc = "init_line"
    BY <1>6 DEF TxInv
  <2> QED
    BY <1>1, <1>6, <2>1, <2>2 DEF TxInv
<1> QED
  BY <1>3, <1>4, <1>5, <1>6 DEF TaskInv

\* Bytes are handled only while app_main waits for them, and two at most.
LEMMA HandledInWait ==
  ASSUME Inv, NEW r \in Busy, ~(main.step < 5 /\ Posted), ~Flow(<<>>)
  PROVE  main.at = "wait" /\ bits = {} /\ Coming
<1>1. main.at \in {"pause", "lead", "send", "wait", "take", "linger", "done"}
  BY Types DEF Inv, MainInv, Place
<1>2. ~(main.step < 5 /\ Unborn)
  BY DEF Inv, TaskInv, Alone
<1>3. main.step \in Nat /\ main.wait \in Nat /\ main.wait >= 1
  BY Numbers DEF Inv
<1>4. main.step >= 5 => ~FlowStale /\ \A x : ~Answered(x)
  BY <1>3 DEF FlowStale, Answered
<1>5. main.at \notin {"pause", "done", "lead", "linger"}
  BY <1>2, <1>3, <1>4 DEF Unborn, Inv, MainInv, AtRest, AtLead, AtLinger
<1>6. main.at # "send"
  BY <1>2, <1>3, <1>4 DEF Unborn, Posted, Inv, MainInv, AtSend
<1>7. main.at # "take"
  BY <1>3, <1>4 DEF Posted, Inv, MainInv, AtTake
<1>8. main.at = "wait" /\ bits = {}
  BY <1>1, <1>3, <1>4, <1>5, <1>6, <1>7 DEF Posted, Inv, MainInv, AtWait
<1> QED
  BY <1>8 DEF Inv, MainInv, AtWait

\* While an answer is awaited, no task has more than two bytes left.
LEMMA FewBytes ==
  ASSUME Inv, Coming, NEW r \in Rx
  PROVE  Len(Owes(r)) <= 2
<1>1. ASSUME NEW p \in Seq(Bytes), Len(p) <= 2, Flow(p) PROVE Len(Owes(r)) <= 2
  <2>1. PICK q \in Rx : p = Owes(q) \o line /\ \A s \in Rx \ {q} : Owes(s) = <<>>
    BY <1>1 DEF Flow
  <2>2. /\ Owes(q) \in Seq(Bytes) /\ line \in Seq(Bytes)
    BY ByteTypes DEF Inv
  <2>3. Len(p) = Len(Owes(q)) + Len(line) /\ Len(Owes(q)) \in Nat /\ Len(line) \in Nat
    BY <2>1, <2>2, ConcatProperties, LenProperties
  <2>4. Len(<<>>) = 0
    OBVIOUS
  <2> QED
    BY <1>1, <2>1, <2>3, <2>4
<1>2. \A x, y \in Bytes : <<x, y>> \in Seq(Bytes) /\ Len(<<x, y>>) <= 2
  OBVIOUS
<1>3. \A x \in Bytes : <<x>> \in Seq(Bytes) /\ Len(<<x>>) <= 2
  OBVIOUS
<1>4. <<>> \in Seq(Bytes) /\ Len(<<>>) <= 2
  OBVIOUS
<1>5. "other" \in Bytes /\ "ACK" \in Bytes /\ \A x \in Answers : x \in Bytes
  BY DEF Bytes, Answers
<1>6. \/ Flow(<<>>) \/ Flow(<<"other">>) \/ (\E x \in Answers : Flow(<<x>>) \/ Flow(<<"other", x>>))
      \/ Flow(<<"ACK">>) \/ Flow(<<"ACK", "ACK">>)
  BY DEF Coming, NotYetSent, Sent, FlowStale, OnItsWay, FirstOnItsWay, SecondOnItsWay, SecondComing
<1> QED
  BY <1>1, <1>2, <1>3, <1>4, <1>5, <1>6

\* It handles the first byte of a read.
LEMMA RxFirstStep ==
  ASSUME Inv, NEW r \in Rx, RxFirst(r)
  PROVE  MainInv' /\ TaskInv' /\ TxInv'
<1> DEFINE q == [rx[r] EXCEPT !.at = "between", !.timer = HandleDelay]
           b == rx[r].got[1]
<1>1. /\ rx[r].at = "first" /\ r \in Busy /\ line' = line /\ Post(b)
      /\ UNCHANGED <<tx, stop_tasks, dev>>
      /\ rx' = [rx EXCEPT ![r] = q] /\ q.at = "between" /\ q.timer = HandleDelay
      /\ q.got = rx[r].got
  BY TypeParts DEF RxFirst, Busy, Inv, Rxs
<1>2. Consumes(b)
  BY FlowPosted DEF Inv
<1>3. b \in Bytes /\ rx[r].got \in Seq(Bytes) /\ rx[r].got # <<>>
  <2>1. rx[r].got \in Seq(Bytes) /\ rx[r].got # <<>>
    BY <1>1, ByteTypes DEF Inv, ShapeInv, RxShape
  <2> QED
    BY <2>1
<1>4. GoodTask(rx[r], line)
  BY <1>1, TaskIsGood DEF Inv
<1>5. ~(main.step < 5 /\ Posted)
  BY <1>1, <1>4 DEF GoodTask
<1> HIDE DEF q, b
<1>6. main.at = "wait" /\ bits = {} /\ Coming
  BY <1>1, <1>2, <1>5, HandledInWait DEF Consumes
<1>7. Len(rx[r].got) <= 2
  BY <1>1, <1>6, FewBytes DEF Owes
<1>8. /\ main.timer >= Reserve
      /\ Proc = "init_line" => main.timer <= 40
  BY <1>1, <1>4, <1>6 DEF GoodTask
<1>9. /\ Proc = "init_line" => Reserve = 37
      /\ main.step = 1 => Proc = "init_line" /\ OnItsWay
      /\ main.timer \in Nat
  BY <1>1, <1>6, Procs, ScriptSteps, LinkAssumption, Numbers
     DEF Reserve, Inv, MainInv, Place, TaskInv, InitTime
<1>10. CASE b \in Answers
  <2>1. main' = main /\ bits' = {b} /\ MainInv'
    BY <1>1, <1>2, <1>5, <1>10, AnswerPosted
  <2>2. Proc = "init_line" => main.timer \in 36..40
    BY <1>8, <1>9
  <2>3. TaskInv' /\ (TxInv /\ tx' = tx => TxInv')
    BY <1>1, <1>6, <1>7, <1>10, <2>1, <2>2, TaskAfterAnswer
  <2> QED
    BY <1>1, <2>1, <2>3 DEF Inv
<1>11. CASE b = "other"
  <2>1. /\ UNCHANGED <<main, bits, sema>> /\ MainInv'
        /\ OnItsWay => OnItsWay'
        /\ NotYetSent => NotYetSent'
    BY <1>1, <1>2, <1>11, StalePosted
  <2>2. main.step = 1
    BY <1>2, <1>6, <1>11 DEF Consumes, Coming, NotYetSent, Sent, FlowStale, OnItsWay,
          FirstOnItsWay, SecondOnItsWay, SecondComing, Answers
  <2>3. GoodTask(q, line')
    BY <1>1, <1>4, <1>6, <1>7, <1>8, <1>9, <2>2 DEF GoodTask, Unborn, Posted, HandleDelay
  <2>4. TaskInv'
    BY <1>1, <1>9, <2>1, <2>2, <2>3, TaskLocal
  <2> QED
    BY <1>1, <2>1, <2>4, TxKept DEF Inv
<1> QED
  BY <1>3, <1>10, <1>11 DEF Bytes

\* A read of two bytes ends with its second.
LEMMA RxSecondOfTwo ==
  ASSUME Inv, NEW r \in Rx, RxSecond(r), Len(rx[r].got) > 1
  PROVE  MainInv' /\ TaskInv' /\ TxInv'
<1> DEFINE q == [at |-> "after", timer |-> HandleDelay, got |-> <<>>]
           b == rx[r].got[2]
<1>1. /\ rx[r].at = "between" /\ r \in Busy /\ line' = line /\ Post(b) /\ rx[r].timer = 0
      /\ UNCHANGED <<tx, stop_tasks, dev>>
      /\ rx' = [rx EXCEPT ![r] = q] /\ q.at = "after" /\ q.timer = HandleDelay
  BY DEF RxSecond, Busy
<1>2. GoodTask(rx[r], line) /\ Len(rx[r].got) <= 2
  BY <1>1, TaskIsGood DEF Inv, GoodTask
<1>3. Consumes(b)
  BY <1>2, FlowPosted DEF Inv
<1>4. rx[r].got \in Seq(Bytes) /\ Owes(r) = Tail(rx[r].got)
  BY <1>1, ByteTypes DEF Inv, Owes
<1>5. Owes(r) # <<>> /\ Owes(r) \in Seq(Bytes) /\ Tail(Owes(r)) = <<>> /\ b \in Bytes
  <2>1. Owes(r) # <<>> /\ Head(Owes(r)) = b /\ Tail(Owes(r)) = <<>>
    BY <1>2, <1>4, TwoBytes
  <2>2. Owes(r) \in Seq(Bytes)
    BY ByteTypes DEF Inv
  <2>3. Head(Owes(r)) \in Bytes
    BY <2>1, <2>2, HeadTailProperties
  <2> QED
    BY <2>1, <2>2, <2>3
<1>6. ~(main.step < 5 /\ Posted)
  BY <1>1, <1>2 DEF GoodTask, HandleDelay
<1> HIDE DEF q, b
<1>7. main.at = "wait" /\ bits = {} /\ Coming
  BY <1>1, <1>3, <1>6, HandledInWait DEF Consumes
<1>8. main.step \in Nat /\ main.timer \in Nat
      /\ (Proc = "init_line" => main.step \in {1, 3}) /\ (main.step = 1 => Proc = "init_line")
  <2>1. main.step <= Len(Script)
    BY <1>7 DEF Inv, MainInv, Place
  <2>2. main.step \in 1..NBlocks + 4 /\ NBlocks \in Nat
    BY <2>1, Procs, LinkAssumption DEF Inv
  <2> QED
    BY <2>1, <2>2, Procs, Numbers DEF Inv
<1>9. CASE b \in Answers
  <2>1. main' = main /\ bits' = {b} /\ MainInv'
    BY <1>1, <1>3, <1>6, <1>9, AnswerPosted
  <2>2. Proc = "init_line" => main.timer \in 36..40
    BY <1>1, <1>2, <1>7, <1>8 DEF GoodTask
  <2>3. TaskInv' /\ (TxInv /\ tx' = tx => TxInv')
    BY <1>1, <1>7, <1>9, <2>1, <2>2, TaskAfterAnswer
  <2> QED
    BY <1>1, <2>1, <2>3 DEF Inv
<1>10. CASE b = "other"
  <2>1. main.step = 1
    BY <1>3, <1>7, <1>10 DEF Consumes, Coming, NotYetSent, Sent, FlowStale, OnItsWay,
          FirstOnItsWay, SecondOnItsWay, SecondComing, Answers
  <2>2. OnItsWay /\ line = <<>>
    BY <1>1, <1>7, <1>8, <2>1 DEF Inv, TaskInv, InitTime
  <2>3. PICK x \in Answers : Flow(<<"other", x>>)
    BY <1>1, <1>3, <1>10, <2>2, StalePosted
  <2>4. PICK s \in Rx : <<"other", x>> = Owes(s) \o line /\ \A o \in Rx \ {s} : Owes(o) = <<>>
    BY <2>3 DEF Flow
  <2>5. <<"other", x>> = Owes(r)
    BY <1>5, <2>2, <2>4, ConcatEmptySeq
  <2>6. Tail(<<"other", x>>) = <<x>> /\ <<x>> # <<>>
    BY ShortSequences
  <2> QED
    BY <1>5, <2>5, <2>6
<1> QED
  BY <1>5, <1>9, <1>10 DEF Bytes

\* Every step of an rx task keeps the invariant.
LEMMA RxStep ==
  ASSUME Inv, Punctual, NEW r \in Rx, RxTask(r)
  PROVE  MainInv' /\ TaskInv' /\ TxInv'
<1>1. CASE RxLoop(r)
  BY <1>1, RxLoopStep
<1>2. CASE RxLock(r)
  BY <1>2, RxLockStep
<1>3. CASE RxReceive(r)
  BY <1>3, RxReceiveStep
<1>4. CASE RxReturn(r)
  BY <1>4, RxReturnStep
<1>5. CASE RxFirst(r)
  BY <1>5, RxFirstStep
<1>6. CASE RxSecond(r)
  BY <1>6, RxSecondOfOne, RxSecondOfTwo
<1>7. CASE RxAfter(r)
  BY <1>7, RxAfterStep
<1> QED
  BY <1>1, <1>2, <1>3, <1>4, <1>5, <1>6, <1>7 DEF RxTask

-----------------------------------------------------------------------------
(* The steps of tx_task *)

\* tx_task sends 0x7F or ends; it sends only the first, before any answer.
LEMMA TxLoopStep ==
  ASSUME Inv, Punctual, NEW t \in Tx, TxLoop(t)
  PROVE  MainInv' /\ TaskInv' /\ TxInv'
<1>1. /\ tx[t].at = "loop" /\ tx[t].timer = 0
      /\ main.at \in {"wait", "take", "linger"} /\ Proc = "init_line"
      /\ UNCHANGED <<main, rx, stop_tasks, bits, sema, mux, line>>
      /\ \A u \in Tx : tx[u].at = "loop" => u = t
  BY DEF TxLoop, Inv, TxInv
<1>2. \A p : Flow(p) => Flow(p)'
  BY <1>1, FlowSame
<1>3. CASE stop_tasks
  <2>1. main.at = "linger" /\ dev' = dev /\ tx' = [tx EXCEPT ![t].at = "off"]
    BY <1>1, <1>3 DEF TxLoop, Inv, MainInv, Place
  <2>2. MainInv'
    <3>1. Place'
      BY <1>1, PartKept, <2>1 DEF Inv, MainInv, Place
    <3>2. AtLinger'
      BY <1>1, <1>2, <2>1 DEF Inv, MainInv, AtLinger, AtPart, Progress, Proc
    <3> QED
      BY <1>1, <2>1, <3>1, <3>2 DEF MainInv, AtRest, AtLead, AtSend, AtWait, AtTake
  <2>3. TaskInv'
    <3>1. (Posted' <=> Posted) /\ (Unborn' <=> Unborn) /\ Busy' = Busy /\ Proc' = Proc
      BY <1>1 DEF Posted, Unborn, Busy, Proc
    <3>2. Alone' /\ Handling' /\ LingerTime'
      BY <1>1, <3>1 DEF Inv, TaskInv, Alone, Handling, LingerTime
    <3> QED
      BY <1>1, <2>1, <3>2 DEF TaskInv, AnswerTime, InitTime
  <2>4. TxInv'
    <3>1. \A u \in Tx : tx'[u].at # "loop"
      BY <1>1, <2>1, TypeParts DEF Inv, Txs
    <3> QED
      BY <3>1 DEF TxInv
  <2> QED
    BY <2>2, <2>3, <2>4
<1>4. CASE ~stop_tasks
  <2>1. main.at = "wait"
    BY <1>1, <1>4 DEF Inv, MainInv, Place, TxInv
  <2>2. NotYetSent \/ main.timer = 35
    BY <1>1, <2>1 DEF Inv, TxInv
  <2>3. bits = {} /\ sema = "empty"
    <3>1. main.timer = 50 \/ main.timer = 35
      BY <2>2 DEF NotYetSent, AnswerTimeout
    <3>2. bits # {} => main.timer \in 36..40
      BY <1>1, <2>1 DEF Inv, TaskInv, InitTime
    <3>3. bits = {}
      BY <3>1, <3>2
    <3> QED
      BY <2>1, <3>3 DEF Inv, MainInv, AtWait
  <2>4. NotYetSent
    BY <1>1, <2>1, <2>2, <2>3, AnswerInTime
  <2>5. /\ dev.heard = "none" /\ FlowStale /\ AtPart(1, 0) /\ main.timer = 50
        /\ tx' = [tx EXCEPT ![t].timer = TxPeriod]
        /\ dev' = [dev EXCEPT !.heard = "INIT", !.age = 0]
    BY <1>4, <2>4 DEF NotYetSent, AnswerTimeout, TxLoop, Hear
  <2>6. /\ dev'.heard = "INIT" /\ dev'.age = 0 /\ dev'.mode = dev.mode
        /\ dev'.erased = dev.erased /\ dev'.blocks = dev.blocks
    BY <2>5, TypeParts DEF Inv, Devs
  <2>7. main.wait = 1 /\ main.result = 0
    BY <1>1, <2>1, Sending DEF Inv, MainInv, Place
  <2>8. Proc' = Proc /\ \A w, x : AtPart(w, x)' <=> AtPart(w, x)
    BY <1>1, <2>6, PartKept
  <2>9. Sent'
    <3>1. Asked' = "INIT"
      BY <1>1, <2>8 DEF Asked
    <3>2. FlowStale'
      BY <1>1, <1>2, <2>5 DEF FlowStale
    <3>3. AtPart(main.wait, main.result)'
      BY <1>1, <2>5, <2>6, <2>7, <2>8 DEF AtPart, Progress
    <3> QED
      BY <1>1, <2>5, <2>6, <3>1, <3>2, <3>3 DEF Sent, AnswerTimeout
  <2>10. MainInv'
    <3>1. Place'
      BY <1>1, <2>8 DEF Inv, MainInv, Place
    <3>2. AtWait'
      BY <1>1, <2>3, <2>9 DEF AtWait, Coming
    <3> QED
      BY <1>1, <2>1, <3>1, <3>2 DEF MainInv, AtRest, AtLead, AtSend, AtTake, AtLinger
  <2>11. TaskInv'
    <3>1. (Posted' <=> Posted) /\ (Unborn' <=> Unborn) /\ Busy' = Busy /\ Reserve' = Reserve
      BY <1>1, <2>8 DEF Posted, Unborn, Busy, Reserve
    <3>2. Alone' /\ Handling' /\ LingerTime'
      BY <1>1, <3>1 DEF Inv, TaskInv, Alone, Handling, LingerTime
    <3>3. AnswerTime'
      BY <1>1, <3>1 DEF Inv, TaskInv, AnswerTime
    <3>4. InitTime'
      <4>1. \A r \in Busy : rx[r].at \notin {"first", "between"}
        BY <1>1, <2>1, <2>3, <2>5 DEF Inv, TaskInv, InitTime
      <4> QED
        BY <1>1, <2>3, <3>1, <4>1 DEF Inv, TaskInv, InitTime
    <3> QED
      BY <3>2, <3>3, <3>4 DEF TaskInv
  <2>12. TxInv'
    <3>1. tx'[t].timer = 15 /\ \A u \in Tx : tx'[u].at = tx[u].at
      BY <2>5, TypeParts DEF Inv, Txs, TxPeriod
    <3> QED
      BY <1>1, <2>1, <2>5, <2>8, <3>1 DEF TxInv
  <2> QED
    BY <2>10, <2>11, <2>12
<1> QED
  BY <1>3, <1>4
=============================================================================
