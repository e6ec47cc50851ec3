-------------------------- MODULE BootLink_lemmas ---------------------------
(***************************************************************************)
(* What the proofs about BootLink keep needing: the script and its tables, *)
(* the bytes on their way from the bootloader to app_main, the types of    *)
(* the state, and how much time is left when an answer comes.              *)
(***************************************************************************)
EXTENDS BootLinkInv, TLAPS, SequenceTheorems, FiniteSetTheorems

-----------------------------------------------------------------------------
(* The script and its tables *)

\* What each step of the script runs.
LEMMA ScriptSteps ==
  /\ Len(Script) = NBlocks + 4
  /\ Script[1] = "init_line" /\ Script[2] = "readout_unprotect"
  /\ Script[3] = "init_line" /\ Script[4] = "erase"
  /\ \A i \in 5..NBlocks + 4 : Script[i] = "write_flash"
<1> DEFINE head == <<"init_line", "readout_unprotect", "init_line", "erase">>
           blocks == [i \in 1..NBlocks |-> "write_flash"]
           names == {"init_line", "readout_unprotect", "erase", "write_flash"}
<1>1. NBlocks \in Nat
  BY LinkAssumption
<1>2. head \in Seq(names) /\ Len(head) = 4
  OBVIOUS
<1>3. blocks \in Seq(names) /\ Len(blocks) = NBlocks
  BY <1>1
<1>4. /\ Len(head \o blocks) = NBlocks + 4
      /\ \A i \in 1..NBlocks + 4 :
           (head \o blocks)[i] = IF i <= 4 THEN head[i] ELSE blocks[i - 4]
  BY <1>1, <1>2, <1>3, ConcatProperties
<1> HIDE DEF blocks
<1>5. \A i \in 5..NBlocks + 4 : blocks[i - 4] = "write_flash"
  BY <1>1 DEF blocks
<1> QED
  BY <1>1, <1>4, <1>5 DEF Script, blocks

\* The tables of the four procedures, entry by entry.
LEMMA Tables ==
  /\ Waits["init_line"] = 1 /\ Waits["readout_unprotect"] = 2
  /\ Waits["erase"] = 2 /\ Waits["write_flash"] = 3
  /\ Frame["init_line"][1] = "none"
  /\ Frame["readout_unprotect"][1] = "unprotect" /\ Frame["readout_unprotect"][2] = "none"
  /\ Frame["erase"][1] = "erase" /\ Frame["erase"][2] = "global"
  /\ Frame["write_flash"][1] = "write" /\ Frame["write_flash"][2] = "address"
  /\ Frame["write_flash"][3] = "block"
  /\ Expects["init_line"][1] = "baud"
  /\ Expects["readout_unprotect"][1] = "idle" /\ Expects["readout_unprotect"][2] = "unprotect"
  /\ Expects["erase"][1] = "idle" /\ Expects["erase"][2] = "global"
  /\ Expects["write_flash"][1] = "idle" /\ Expects["write_flash"][2] = "address"
  /\ Expects["write_flash"][3] = "block"
  /\ Spawns["init_line"] = {1} /\ Spawns["readout_unprotect"] = {1} /\ Spawns["erase"] = {1}
  /\ Spawns["write_flash"] = {1, 2, 3}
  /\ Linger["init_line"] = 10 /\ Linger["readout_unprotect"] = 20
  /\ Linger["erase"] = 20 /\ Linger["write_flash"] = 15
  /\ Lead["init_line"] = 5 /\ Lead["readout_unprotect"] = 0
  /\ Lead["erase"] = 0 /\ Lead["write_flash"] = 0
  /\ Pause["init_line"] = 1 /\ Pause["readout_unprotect"] = 3
  /\ Pause["erase"] = 0 /\ Pause["write_flash"] = 0
BY DEF Waits, Frame, Expects, Spawns, Linger, Lead, Pause

\* Which procedure app_main is in, by its place in the script.
LEMMA Procs ==
  ASSUME TypeOK, main.step <= Len(Script)
  PROVE  /\ main.step \in 1..NBlocks + 4
         /\ main.step = 1 => Proc = "init_line"
         /\ main.step = 2 => Proc = "readout_unprotect"
         /\ main.step = 3 => Proc = "init_line"
         /\ main.step = 4 => Proc = "erase"
         /\ main.step > 4 => Proc = "write_flash"
<1>1. main.step \in Nat /\ main.step >= 1 /\ NBlocks \in Nat
  BY LinkAssumption, ScriptSteps DEF TypeOK
<1> QED
  BY <1>1, ScriptSteps DEF Proc

-----------------------------------------------------------------------------
(* Bytes on their way *)

Bytes == Answers \union {"other"}

\* Sequences of at most two bytes.
LEMMA ShortSequences ==
  /\ \A x, y : Len(<<x>>) = 1 /\ Len(<<x, y>>) = 2
  /\ \A x, y : Tail(<<x>>) = <<>> /\ Tail(<<x, y>>) = <<y>>
  /\ \A x, y : Head(<<x>>) = x /\ Head(<<x, y>>) = x
  /\ \A x, y : <<x>> # <<>> /\ <<x, y>> # <<>>
  /\ \A x, y : <<>> \o <<x>> = <<x>> /\ <<x>> \o <<y>> = <<x, y>>
  /\ \A x \in Bytes : <<x>> \in Seq(Bytes)
<1>1. \A x, y : Len(<<x>>) = 1 /\ Len(<<x, y>>) = 2
  OBVIOUS
<1>2. \A x, y : Tail(<<x>>) = <<>> /\ Tail(<<x, y>>) = <<y>>
  OBVIOUS
<1>3. \A x, y : Head(<<x>>) = x /\ Head(<<x, y>>) = x
  OBVIOUS
<1>4. \A x, y : <<x>> # <<>> /\ <<x, y>> # <<>>
  OBVIOUS
<1>5. \A x, y : <<>> \o <<x>> = <<x>> /\ <<x>> \o <<y>> = <<x, y>>
  <2> SUFFICES ASSUME NEW x, NEW y PROVE <<>> \o <<x>> = <<x>> /\ <<x>> \o <<y>> = <<x, y>>
    OBVIOUS
  <2>1. <<x>> \in Seq({x, y}) /\ <<>> \in Seq({x, y})
    OBVIOUS
  <2>2. <<>> \o <<x>> = <<x>>
    BY <2>1, ConcatEmptySeq
  <2>3. Append(<<x>>, y) = <<x>> \o <<y>>
    BY <2>1, AppendIsConcat
  <2>4. <<x, y>> \in Seq({x, y}) /\ Len(<<x, y>>) = 2 /\ <<x, y>>[1] = x /\ <<x, y>>[2] = y
    OBVIOUS
  <2>5. /\ Append(<<x>>, y) \in Seq({x, y}) /\ Len(Append(<<x>>, y)) = 2
        /\ Append(<<x>>, y)[1] = x /\ Append(<<x>>, y)[2] = y
    BY <2>1, AppendProperties
  <2>6. Append(<<x>>, y) = <<x, y>>
    <3>1. \A i \in 1..2 : Append(<<x>>, y)[i] = <<x, y>>[i]
      BY <2>4, <2>5
    <3> QED
      BY <2>4, <2>5, <3>1, SeqEqual
  <2> QED
    BY <2>2, <2>3, <2>6
<1>6. \A x \in Bytes : <<x>> \in Seq(Bytes)
  OBVIOUS
<1> QED
  BY <1>1, <1>2, <1>3, <1>4, <1>5, <1>6

\* Of two sequences that make up a single byte one is empty.
LEMMA SingleSplit ==
  ASSUME NEW s \in Seq(Bytes), NEW t \in Seq(Bytes), NEW x, s \o t = <<x>>
  PROVE  (s = <<>> /\ t = <<x>>) \/ (s = <<x>> /\ t = <<>>)
<1>1. Len(s) + Len(t) = 1
  BY ConcatProperties
<1>2. Len(s) \in Nat /\ Len(t) \in Nat
  OBVIOUS
<1>3. CASE Len(s) = 0
  <2>1. s = <<>>
    BY <1>3, EmptySeq
  <2>2. <<>> \o t = t
    BY ConcatEmptySeq
  <2> QED
    BY <2>1, <2>2
<1>4. CASE Len(t) = 0
  <2>1. t = <<>>
    BY <1>4, EmptySeq
  <2>2. s \o t = s
    BY <2>1, ConcatEmptySeq
  <2> QED
    BY <2>1, <2>2
<1> QED
  BY <1>1, <1>2, <1>3, <1>4

\* Behind the first of two bytes there is one.
LEMMA TwoBytes ==
  ASSUME NEW g \in Seq(Bytes), Len(g) > 1, Len(g) <= 2
  PROVE  Tail(g) # <<>> /\ Head(Tail(g)) = g[2] /\ Tail(Tail(g)) = <<>>
<1>1. Len(<<>>) = 0
  OBVIOUS
<1>2. Len(g) \in Nat
  BY LenProperties
<1>3. g # <<>>
  BY <1>1
<1>4. \A n \in Nat : n > 1 /\ n <= 2 => n = 2
  OBVIOUS
<1>5. Len(g) = 2 /\ g # <<>>
  BY <1>2, <1>4, <1>3
<1>6. /\ Tail(g) \in Seq(Bytes) /\ Len(Tail(g)) = 1
      /\ \A i \in 1..Len(Tail(g)) : Tail(g)[i] = g[i + 1]
  BY <1>5, HeadTailProperties
<1> DEFINE t == Tail(g)
<1> HIDE DEF t
<1>7. t \in Seq(Bytes) /\ Len(t) = 1 /\ t[1] = g[2]
  BY <1>5, <1>6 DEF t
<1>8. t # <<>>
  BY <1>1, <1>7
<1>9. Tail(t) \in Seq(Bytes) /\ Len(Tail(t)) = 0 /\ Head(t) = t[1]
  BY <1>7, <1>8, HeadTailProperties
<1>10. Tail(t) = <<>>
  BY <1>9, EmptySeq
<1> QED
  BY <1>7, <1>8, <1>9, <1>10 DEF t

\* Behind the only byte there is none.
LEMMA OneByte ==
  ASSUME NEW g \in Seq(Bytes), g # <<>>, ~(Len(g) > 1)
  PROVE  Tail(g) = <<>>
<1>1. Len(g) \in Nat \ {0}
  BY EmptySeq
<1>2. \A n \in Nat \ {0} : ~(n > 1) => n = 1
  OBVIOUS
<1>3. Len(g) = 1
  BY <1>1, <1>2
<1>4. Tail(g) \in Seq(Bytes) /\ Len(Tail(g)) = 0
  BY <1>3, HeadTailProperties
<1> QED
  BY <1>4, EmptySeq

\* What an rx task has read and what the buffer holds are sequences of bytes.
LEMMA ByteTypes ==
  ASSUME TypeOK, ShapeInv
  PROVE  /\ line \in Seq(Bytes)
         /\ \A r \in Rx : rx[r].got \in Seq(Bytes) /\ Owes(r) \in Seq(Bytes)
<1>1. line \in Seq(Bytes) /\ \A r \in Rx : rx[r].got \in Seq(Bytes)
  BY DEF TypeOK, Bytes
<1>2. \A s \in Seq(Bytes) : s # <<>> => Tail(s) \in Seq(Bytes)
  OBVIOUS
<1> QED
  BY <1>1, <1>2, EmptySeq DEF Owes, ShapeInv, RxShape

\* A step that leaves the buffer and what each task owes leaves the bytes on their
\* way.
LEMMA FlowKept ==
  ASSUME line' = line, \A r \in Rx : Owes(r)' = Owes(r)
  PROVE  \A p : Flow(p) => Flow(p)'
BY DEF Flow

\* Bytes that arrive join those on their way.
LEMMA FlowGrows ==
  ASSUME TypeOK, ShapeInv, NEW say \in Seq(Bytes), line' = line \o say, rx' = rx
  PROVE  \A p : Flow(p) => Flow(p \o say)'
<1> SUFFICES ASSUME NEW p, Flow(p) PROVE Flow(p \o say)'
  OBVIOUS
<1>1. PICK r \in Rx : p = Owes(r) \o line /\ \A q \in Rx \ {r} : Owes(q) = <<>>
  BY DEF Flow
<1>2. \A q \in Rx : Owes(q)' = Owes(q)
  BY DEF Owes
<1>3. p \o say = Owes(r) \o (line \o say)
  BY <1>1, ByteTypes, ConcatAssociative
<1> QED
  BY <1>1, <1>2, <1>3 DEF Flow

\* When nothing is on its way nobody owes anything; what is on its way is in
\* the buffer or owed by a task.
LEMMA FlowPlaces ==
  ASSUME TypeOK, ShapeInv
  PROVE  /\ Flow(<<>>) => line = <<>> /\ \A r \in Rx : Owes(r) = <<>>
         /\ \A p : Flow(p) /\ p # <<>> => line # <<>> \/ \E r \in Rx : Owes(r) # <<>>
<1>1. ASSUME NEW r \in Rx, <<>> = Owes(r) \o line
      PROVE  line = <<>> /\ Owes(r) = <<>>
  <2>1. Len(Owes(r)) + Len(line) = 0
    BY <1>1, ByteTypes, ConcatProperties, EmptySeq
  <2>2. Len(Owes(r)) \in Nat /\ Len(line) \in Nat
    BY ByteTypes
  <2> QED
    BY <2>1, <2>2, ByteTypes, EmptySeq
<1>2. Flow(<<>>) => line = <<>> /\ \A r \in Rx : Owes(r) = <<>>
  <2> SUFFICES ASSUME Flow(<<>>) PROVE line = <<>> /\ \A r \in Rx : Owes(r) = <<>>
    OBVIOUS
  <2>1. PICK r \in Rx : <<>> = Owes(r) \o line /\ \A q \in Rx \ {r} : Owes(q) = <<>>
    BY DEF Flow
  <2> QED
    BY <1>1, <2>1
<1>3. ASSUME NEW p, Flow(p), p # <<>>, line = <<>>
      PROVE  \E r \in Rx : Owes(r) # <<>>
  <2>1. PICK r \in Rx : p = Owes(r) \o line
    BY <1>3 DEF Flow
  <2>2. Owes(r) = <<>> => p = <<>>
    BY <1>3, <2>1, ConcatEmptySeq, EmptySeq
  <2> QED
    BY <1>3, <2>1, <2>2
<1> QED
  BY <1>2, <1>3

\* A read takes the buffer's bytes to the one task that has any.
LEMMA FlowReceive ==
  ASSUME TypeOK, ShapeInv, Alone, NEW r \in Rx, RxReceive(r),
         NEW p, Flow(p), main.step < 5 \/ (\E x : p = <<x>>)
  PROVE  Flow(p)'
<1>1. PICK q \in Rx : p = Owes(q) \o line /\ \A s \in Rx \ {q} : Owes(s) = <<>>
  BY DEF Flow
<1>2. rx[r].at = "read" /\ Owes(r) = rx[r].got /\ line # <<>> /\ r \in Busy
  BY DEF RxReceive, Owes, Busy
<1>3. rx'[r].at = "read" /\ rx'[r].got = Owes(r) \o line
  BY <1>2 DEF RxReceive, TypeOK
<1>4. Owes(r)' = Owes(r) \o line
  BY <1>3 DEF Owes
<1>5. \A s \in Rx \ {r} : Owes(s)' = Owes(s)
  BY DEF RxReceive, Owes, TypeOK
<1>6. Owes(r) \o line = p
  <2>1. CASE q = r
    BY <1>1, <2>1
  <2>2. CASE q # r
    <3>1. Owes(r) = <<>>
      BY <1>1, <2>2
    <3>2. Owes(q) = <<>>
      <4>1. CASE main.step < 5
        <5>1. q \notin Busy
          BY <4>1, <1>2, <2>2 DEF Alone
        <5> QED
          BY <5>1 DEF Busy, Owes
      <4>2. CASE \E x : p = <<x>>
        BY <4>2, <1>1, <1>2, ByteTypes, SingleSplit
      <4> QED
        BY <4>1, <4>2
    <3> QED
      BY <1>1, <3>1, <3>2
  <2> QED
    BY <2>1, <2>2
<1>7. \A s \in Rx \ {r} : Owes(s)' = <<>>
  BY <1>1, <1>2, <1>5, <1>6, ByteTypes, SingleSplit
<1> QED
  <2>1. p = Owes(r)' \o line'
    <3>1. Owes(r)' \in Seq(Bytes) /\ line' = <<>>
      BY <1>4, ByteTypes, ConcatProperties DEF RxReceive
    <3>2. Owes(r)' \o <<>> = Owes(r)'
      BY <3>1, ConcatEmptySeq
    <3> QED
      BY <1>4, <1>6, <3>1, <3>2
  <2> QED
    BY <1>7, <2>1 DEF Flow

\* The handling of byte b takes it from those on their way.
Consumes(b) ==
  /\ ~Flow(<<>>)
  /\ \A x : Flow(<<x>>) => x = b /\ Flow(<<>>)'
  /\ \A x, y : Flow(<<x, y>>) => x = b /\ Flow(<<y>>)'

\* A task with bytes takes the first of them.
LEMMA FlowTaken ==
  ASSUME TypeOK, ShapeInv, NEW r \in Rx, Owes(r) # <<>>, line' = line,
         Owes(r)' = Tail(Owes(r)), \A q \in Rx \ {r} : Owes(q)' = Owes(q)
  PROVE  Consumes(Head(Owes(r)))
<1>1. ASSUME NEW p, Flow(p)
      PROVE  /\ p \in Seq(Bytes) /\ p # <<>> /\ Head(p) = Head(Owes(r)) /\ Flow(Tail(p))'
  <2>1. PICK q \in Rx : p = Owes(q) \o line /\ \A s \in Rx \ {q} : Owes(s) = <<>>
    BY <1>1 DEF Flow
  <2>2. q = r
    BY <2>1
  <2> DEFINE o == Owes(r)
  <2>3. o \in Seq(Bytes) /\ line \in Seq(Bytes) /\ o # <<>>
    BY ByteTypes
  <2>4. p = o \o line /\ p \in Seq(Bytes) /\ Len(p) = Len(o) + Len(line)
        /\ \A i \in 1..Len(o) + Len(line) : p[i] = IF i <= Len(o) THEN o[i] ELSE line[i - Len(o)]
    BY <2>1, <2>2, <2>3, ConcatProperties
  <2>5. Len(o) \in Nat \ {0} /\ Len(line) \in Nat
    BY <2>3, EmptySeq
  <2>6. p # <<>> /\ Head(p) = Head(o)
    BY <2>3, <2>4, <2>5, EmptySeq
  <2>7. Tail(p) = Tail(o) \o line
    <3> DEFINE s == Tail(p)
               t == Tail(o) \o line
    <3>1. s \in Seq(Bytes) /\ Len(s) = Len(p) - 1 /\ \A i \in 1..Len(s) : s[i] = p[i + 1]
      BY <2>4, <2>6, HeadTailProperties
    <3>2. Tail(o) \in Seq(Bytes) /\ Len(Tail(o)) = Len(o) - 1
          /\ \A i \in 1..Len(Tail(o)) : Tail(o)[i] = o[i + 1]
      BY <2>3, HeadTailProperties
    <3>3. t \in Seq(Bytes) /\ Len(t) = Len(o) - 1 + Len(line)
          /\ \A i \in 1..Len(t) :
               t[i] = IF i <= Len(o) - 1 THEN Tail(o)[i] ELSE line[i - (Len(o) - 1)]
      BY <2>3, <3>2, ConcatProperties
    <3> HIDE DEF s, t, o
    <3>4. ASSUME NEW i \in 1..Len(s) PROVE s[i] = t[i]
      BY <2>4, <2>5, <3>1, <3>2, <3>3
    <3>5. Len(s) = Len(t)
      BY <2>4, <2>5, <3>1, <3>3
    <3>6. s = t
      BY <3>1, <3>3, <3>4, <3>5, SeqEqual
    <3> QED
      BY <3>6 DEF s, t
  <2>8. \A t : t = Tail(o) \o line => Flow(t)'
    BY <2>1, <2>2 DEF Flow
  <2> QED
    BY <2>4, <2>6, <2>7, <2>8
<1>2. ~Flow(<<>>)
  BY <1>1
<1>3. ASSUME NEW x, Flow(<<x>>) PROVE x = Head(Owes(r)) /\ Flow(<<>>)'
  <2>1. Head(<<x>>) = Head(Owes(r)) /\ Flow(Tail(<<x>>))'
    BY <1>1, <1>3
  <2> QED
    BY <2>1, ShortSequences
<1>4. ASSUME NEW x, NEW y, Flow(<<x, y>>) PROVE x = Head(Owes(r)) /\ Flow(<<y>>)'
  <2>1. Head(<<x, y>>) = Head(Owes(r)) /\ Flow(Tail(<<x, y>>))'
    BY <1>1, <1>4
  <2> QED
    BY <2>1, ShortSequences
<1> QED
  BY <1>2, <1>3, <1>4 DEF Consumes

\* The first byte of a read, and the second of a read of two.
LEMMA FlowPosted ==
  ASSUME TypeOK, ShapeInv, NEW r \in Rx
  PROVE  /\ RxFirst(r) => Consumes(rx[r].got[1])
         /\ RxSecond(r) /\ Len(rx[r].got) > 1 /\ Len(rx[r].got) <= 2 => Consumes(rx[r].got[2])
<1>1. ASSUME RxFirst(r) PROVE Consumes(rx[r].got[1])
  <2>1. Owes(r) = rx[r].got /\ rx[r].got # <<>> /\ line' = line
    BY <1>1 DEF RxFirst, Owes, ShapeInv, RxShape
  <2>2. rx'[r].at = "between" /\ rx'[r].got = rx[r].got
        /\ \A q \in Rx \ {r} : rx'[q] = rx[q]
    BY <1>1 DEF RxFirst, TypeOK
  <2>3. Owes(r)' = Tail(Owes(r)) /\ \A q \in Rx \ {r} : Owes(q)' = Owes(q)
    BY <2>1, <2>2 DEF Owes
  <2>4. Head(rx[r].got) = rx[r].got[1]
    BY <2>1, ByteTypes
  <2> QED
    BY <2>1, <2>3, <2>4, FlowTaken
<1>2. ASSUME RxSecond(r), Len(rx[r].got) > 1, Len(rx[r].got) <= 2
      PROVE  Consumes(rx[r].got[2])
  <2>1. rx[r].at = "between" /\ line' = line /\ rx[r].got \in Seq(Bytes) /\ rx[r].got # <<>>
    BY <1>2, ByteTypes DEF RxSecond, ShapeInv, RxShape
  <2>2. Owes(r) = Tail(rx[r].got)
    BY <2>1 DEF Owes
  <2>4. Owes(r) # <<>> /\ Head(Owes(r)) = rx[r].got[2] /\ Tail(Owes(r)) = <<>>
    BY <1>2, <2>1, <2>2, TwoBytes
  <2>5. rx'[r].at = "after" /\ \A q \in Rx \ {r} : rx'[q] = rx[q]
    BY <1>2 DEF RxSecond, TypeOK
  <2>6. Owes(r)' = Tail(Owes(r)) /\ \A q \in Rx \ {r} : Owes(q)' = Owes(q)
    BY <2>4, <2>5 DEF Owes
  <2> QED
    BY <2>1, <2>4, <2>6, FlowTaken
<1> QED
  BY <1>1, <1>2

-----------------------------------------------------------------------------
(* Types *)

\* The fields' types by name, so that a record's type shows only its fields.
MainPlaces == {"pause", "lead", "send", "wait", "take", "linger", "done", "panic"}
MainTimes  == 0..AnswerTimeout
Steps      == 1..Len(Script) + 1
WaitNos    == 1..3
SeenSets   == SUBSET Answers
Results    == {0, -1}
Mains == [at : MainPlaces, timer : MainTimes, step : Steps, wait : WaitNos,
          seen : SeenSets, result : Results]

RxPlaces == {"off", "loop", "mux", "read", "first", "between", "after"}
RxTimes  == 0..ReadTimeout
Gots     == Seq(Answers \union {"other"})
Rxs == [at : RxPlaces, timer : RxTimes, got : Gots]

TxPlaces == {"off", "loop"}
TxTimes  == 0..TxPeriod
Txs == [at : TxPlaces, timer : TxTimes]

Modes  == {"baud", "half", "idle", "unprotect", "global", "address", "block"}
Heards == Frames \union {"none"}
Counts == 0..NBlocks
Nacks  == 0..MaxNacks
Devs == [mode : Modes, heard : Heards, age : Nat,
         erased : BOOLEAN, blocks : Counts, nacks : Nacks]

\* The types of the parts of the state, one by one.
LEMMA Types ==
  ASSUME TypeOK
  PROVE  /\ main.at \in {"pause", "lead", "send", "wait", "take", "linger", "done", "panic"}
         /\ main.timer \in 0..50 /\ main.step \in 1..NBlocks + 5 /\ main.wait \in 1..3
         /\ main.seen \subseteq Answers /\ main.result \in {0, -1}
         /\ \A r \in Rx : /\ rx[r].at \in {"off", "loop", "mux", "read", "first", "between", "after"}
                          /\ rx[r].timer \in 0..10 /\ rx[r].got \in Seq(Bytes)
         /\ \A t \in Tx : tx[t].at \in {"off", "loop"} /\ tx[t].timer \in 0..15
         /\ line \in Seq(Bytes)
         /\ dev.mode \in {"baud", "half", "idle", "unprotect", "global", "address", "block"}
         /\ dev.heard \in Frames \union {"none"} /\ dev.age \in Nat
         /\ dev.erased \in BOOLEAN /\ dev.blocks \in 0..NBlocks /\ dev.nacks \in 0..MaxNacks
<1>1. Len(Script) + 1 = NBlocks + 5
  BY ScriptSteps, LinkAssumption
<1>2. main \in [at : {"pause", "lead", "send", "wait", "take", "linger", "done", "panic"},
                timer : 0..50, step : 1..NBlocks + 5,
                wait : 1..3, seen : SUBSET Answers, result : {0, -1}]
  BY <1>1 DEF TypeOK, AnswerTimeout
<1> QED
  BY <1>2 DEF TypeOK, ReadTimeout, TxPeriod, Bytes

\* The same for the numbers alone, as facts about Nat.
LEMMA Numbers ==
  ASSUME TypeOK
  PROVE  /\ main.timer \in Nat /\ main.timer <= 50
         /\ main.step \in Nat /\ main.step >= 1 /\ main.wait \in Nat /\ main.wait >= 1
         /\ \A r \in Rx : rx[r].timer \in Nat /\ rx[r].timer <= 10
         /\ \A t \in Tx : tx[t].timer \in Nat
         /\ dev.age \in Nat /\ dev.blocks \in Nat /\ dev.heard \in Heards
<1>1. main.timer \in 0..50 /\ main.step \in 1..NBlocks + 5 /\ main.wait \in 1..3
  BY Types
<1>2. (\A r \in Rx : rx[r].timer \in 0..10) /\ (\A t \in Tx : tx[t].timer \in 0..15)
  BY Types
<1>3. dev.age \in Nat /\ dev.blocks \in 0..NBlocks /\ dev.heard \in Heards /\ NBlocks \in Nat
  BY Types, LinkAssumption DEF Heards
<1> QED
  BY <1>1, <1>2, <1>3

\* What the bootloader says and where it goes from there.
LEMMA ResponseType ==
  ASSUME NEW mode \in {"baud", "half", "idle", "unprotect", "global", "address", "block"},
         NEW frame \in Frames
  PROVE  \A reply \in Responses(mode, frame) :
           /\ reply.say \in {<<>>, <<"ACK">>, <<"NACK">>, <<"NACK", "NACK">>}
           /\ reply.mode \in {"baud", "half", "idle", "unprotect", "global", "address", "block"}
<1>1. Accepted(mode, frame) =>
        Leads[frame] \in {"baud", "half", "idle", "unprotect", "global", "address", "block"}
  BY DEF Accepted, Accepts, Leads
<1>2. mode \in {"idle", "half"} => \A reply \in Garbled(mode, frame) :
        /\ reply.say \in {<<>>, <<"ACK">>, <<"NACK">>, <<"NACK", "NACK">>}
        /\ reply.mode \in {"idle", "half"}
  BY DEF Garbled
<1> QED
  BY <1>1, <1>2 DEF Responses

\* TypeOK by the named types.
LEMMA TypeParts ==
  TypeOK <=> /\ main \in Mains
             /\ rx \in [Rx -> Rxs]
             /\ tx \in [Tx -> Txs]
             /\ stop_tasks \in BOOLEAN
             /\ bits \subseteq Answers
             /\ sema \in {"none", "empty", "full"}
             /\ mux \in Rx \union {"free"}
             /\ line \in Gots
             /\ dev \in Devs
BY DEF TypeOK, Mains, MainPlaces, MainTimes, Steps, WaitNos, SeenSets, Results,
       Rxs, RxPlaces, RxTimes, Gots, Txs, TxPlaces, TxTimes,
       Devs, Modes, Heards, Counts, Nacks

\* The same for the next state.
LEMMA TypePartsNext ==
  TypeOK' <=> /\ main' \in Mains
              /\ rx' \in [Rx -> Rxs]
              /\ tx' \in [Tx -> Txs]
              /\ stop_tasks' \in BOOLEAN
              /\ bits' \subseteq Answers
              /\ sema' \in {"none", "empty", "full"}
              /\ mux' \in Rx \union {"free"}
              /\ line' \in Gots
              /\ dev' \in Devs
BY DEF TypeOK, Mains, MainPlaces, MainTimes, Steps, WaitNos, SeenSets, Results,
       Rxs, RxPlaces, RxTimes, Gots, Txs, TxPlaces, TxTimes,
       Devs, Modes, Heards, Counts, Nacks

\* The members of app_main's types that its steps need.
LEMMA FieldTypes ==
  /\ MainPlaces = {"pause", "lead", "send", "wait", "take", "linger", "done", "panic"}
  /\ \A n \in 0..50 : n \in MainTimes
  /\ 50 \in MainTimes /\ 0 \in MainTimes
  /\ \A n \in 1..NBlocks + 5 : n \in Steps
  /\ 1 \in WaitNos /\ 2 \in WaitNos /\ 3 \in WaitNos
  /\ {} \in SeenSets
  /\ 0 \in Results /\ -1 \in Results
<1>1. Len(Script) + 1 = NBlocks + 5
  BY ScriptSteps, LinkAssumption
<1> QED
  BY <1>1 DEF MainPlaces, MainTimes, Steps, WaitNos, SeenSets, Results, AnswerTimeout

\* app_main's record after each of its steps.
LEMMA MainsMain ==
  ASSUME TypeOK, Place, AppMain
  PROVE  main' \in Mains
<1>1. main \in Mains /\ bits \in SeenSets
  BY TypeParts DEF SeenSets
<1>2. /\ main.step \in 1..NBlocks + 5 /\ main.wait \in 1..3 /\ NBlocks \in Nat
      /\ Len(Script) = NBlocks + 4
  BY Types, ScriptSteps, LinkAssumption
<1>3. main.step <= Len(Script) => Proc \in {"init_line", "readout_unprotect", "erase", "write_flash"}
  BY <1>2, Procs
<1>4. CASE Enter
  <2>1. CASE main.step > Len(Script)
    BY <1>1, <1>4, <2>1, FieldTypes DEF Enter, Mains
  <2>2. CASE ~(main.step > Len(Script))
    <3>1. Lead[Proc] \in MainTimes
      <4>1. main.step <= Len(Script)
        BY <1>2, <2>2
      <4>2. Lead[Proc] \in {0, 5}
        BY <1>3, <4>1, Tables
      <4> QED
        BY <4>2, FieldTypes
    <3>2. main' = [main EXCEPT !.at = "lead", !.timer = Lead[Proc], !.wait = 1, !.result = 0]
      BY <1>4, <2>2 DEF Enter
    <3> QED
      BY <1>1, <3>1, <3>2, FieldTypes DEF Mains
  <2> QED
    BY <2>1, <2>2
<1>5. CASE Ready
  BY <1>1, <1>5, FieldTypes DEF Ready, Mains
<1>6. CASE Send
  <2>1. main' = [main EXCEPT !.at = "wait", !.timer = 50]
    BY <1>6 DEF Send, AnswerTimeout
  <2> QED
    BY <1>1, <2>1, FieldTypes DEF Mains
<1>7. CASE WaitBits
  <2>1. main' = [main EXCEPT !.at = "take", !.timer = 0, !.seen = bits]
    BY <1>7 DEF WaitBits
  <2> QED
    BY <1>1, <2>1, FieldTypes DEF Mains
<1>8. CASE Take
  <2>1. Proc \in {"init_line", "readout_unprotect", "erase", "write_flash"}
    BY <1>2, <1>3, <1>8 DEF Take, Place
  <2>2. Waits[Proc] \in 1..3 /\ Linger[Proc] \in MainTimes
    BY <2>1, Tables, FieldTypes
  <2> DEFINE result == IF main.seen = {"NACK"} THEN -1 ELSE main.result
  <2>3. result \in Results
    BY <1>1, FieldTypes DEF Mains
  <2>4. CASE main.wait < Waits[Proc]
    <3>1. main' = [main EXCEPT !.at = "send", !.wait = main.wait + 1, !.result = result, !.seen = {}]
      BY <1>8, <2>4 DEF Take
    <3>2. main.wait + 1 \in WaitNos
      <4>1. main.wait + 1 \in {2, 3}
        BY <1>2, <2>2, <2>4
      <4> QED
        BY <4>1, FieldTypes
    <3> HIDE DEF result
    <3> QED
      BY <1>1, <2>3, <3>1, <3>2, FieldTypes DEF Mains
  <2>5. CASE ~(main.wait < Waits[Proc])
    <3>1. main' = [main EXCEPT !.at = "linger", !.timer = Linger[Proc], !.result = result, !.seen = {}]
      BY <1>8, <2>5 DEF Take
    <3> HIDE DEF result
    <3> QED
      BY <1>1, <2>2, <2>3, <3>1, FieldTypes DEF Mains
  <2> QED
    BY <2>4, <2>5
<1>9. CASE Return
  <2>1. main.step <= Len(Script)
    BY <1>9 DEF Return, Place
  <2>2. Gap(Proc, main.result) \in MainTimes
    <3>1. Gap(Proc, main.result) \in {0, 1, 3}
      BY <1>3, <2>1, Tables DEF Gap
    <3> QED
      BY <3>1, FieldTypes
  <2> DEFINE step == IF main.result = 0 THEN main.step + 1 ELSE main.step
  <2>3. step \in Steps
    <3>1. step \in 1..NBlocks + 5
      BY <1>2, <2>1
    <3> QED
      BY <3>1, FieldTypes
  <2>4. main' = [main EXCEPT !.at = "pause", !.timer = Gap(Proc, main.result), !.wait = 1,
                             !.step = step]
    BY <1>9 DEF Return
  <2> HIDE DEF step
  <2> QED
    BY <1>1, <2>2, <2>3, <2>4, FieldTypes DEF Mains
<1> QED
  BY <1>4, <1>5, <1>6, <1>7, <1>8, <1>9 DEF AppMain

\* A step of app_main keeps every type.
LEMMA TypeMain ==
  ASSUME TypeOK, Place, AppMain
  PROVE  TypeOK'
<1>1. main' \in Mains
  BY MainsMain
<1>2. CASE Enter
  BY <1>1, <1>2, TypeParts, TypePartsNext DEF Enter
<1>3. CASE Ready
  BY <1>1, <1>3, TypeParts, TypePartsNext DEF Ready
<1>4. CASE Send
  <2>1. dev' \in Devs
    <3>1. main.step <= Len(Script) /\ main.wait <= Waits[Proc] /\ main.wait \in 1..3
      BY <1>4, Types DEF Send, Place
    <3>2. Proc \in {"init_line", "readout_unprotect", "erase", "write_flash"}
      BY <3>1, Procs
    <3>3. Frame[Proc][main.wait] \in Heards
      BY <3>1, <3>2, Tables DEF Frames, Heards
    <3> QED
      BY <1>4, <3>3, TypeParts DEF Send, Hear, Devs
  <2>2. rx' \in [Rx -> Rxs]
    <3>1. \E r \in Rx : rx' = rx \/ rx' = [rx EXCEPT ![r].at = "loop"]
      BY <1>4, LinkAssumption DEF Send
    <3>2. \A q \in Rxs : [q EXCEPT !.at = "loop"] \in Rxs
      BY DEF Rxs, RxPlaces
    <3> QED
      BY <3>1, <3>2, TypeParts
  <2>3. tx' \in [Tx -> Txs]
    <3>1. tx' = tx \/ \E t \in Tx : tx' = [tx EXCEPT ![t].at = "loop"]
      BY <1>4 DEF Send
    <3>2. \A q \in Txs : [q EXCEPT !.at = "loop"] \in Txs
      BY DEF Txs, TxPlaces
    <3> QED
      BY <3>1, <3>2, TypeParts
  <2> QED
    BY <1>1, <1>4, <2>1, <2>2, <2>3, TypeParts, TypePartsNext DEF Send
<1>5. CASE WaitBits
  BY <1>1, <1>5, TypeParts, TypePartsNext DEF WaitBits
<1>6. CASE Take
  BY <1>1, <1>6, TypeParts, TypePartsNext DEF Take
<1>7. CASE Return
  BY <1>1, <1>7, TypeParts, TypePartsNext DEF Return
<1> QED
  BY <1>2, <1>3, <1>4, <1>5, <1>6, <1>7 DEF AppMain

\* A step of an rx task keeps every type.
LEMMA TypeRx ==
  ASSUME TypeOK, NEW r \in Rx, RxTask(r)
  PROVE  TypeOK'
<1>1. rx[r] \in Rxs /\ rx \in [Rx -> Rxs] /\ rx[r].got \in Gots
  BY TypeParts DEF Rxs
<1>2. /\ <<>> \in Gots /\ ReadTimeout \in RxTimes /\ 0 \in RxTimes /\ HandleDelay \in RxTimes
      /\ \A a \in {"off", "loop", "mux", "read", "first", "between", "after"} : a \in RxPlaces
  BY DEF Gots, RxTimes, ReadTimeout, HandleDelay, RxPlaces
<1>3. \A s, t \in Gots : s \o t \in Gots
  BY DEF Gots
<1>4. \A q \in Rxs : rx' = [rx EXCEPT ![r] = q] => rx' \in [Rx -> Rxs]
  BY <1>1
<1>5. rx' \in [Rx -> Rxs]
  <2>1. CASE RxLoop(r)
    <3>1. IdleRx \in Rxs /\ [at |-> "mux", timer |-> ReadTimeout, got |-> <<>>] \in Rxs
      BY <1>2 DEF IdleRx, Rxs
    <3> QED
      BY <1>1, <2>1, <3>1 DEF RxLoop
  <2>2. CASE RxLock(r)
    BY <1>1, <1>2, <2>2 DEF RxLock, Rxs
  <2>3. CASE RxReceive(r)
    <3>1. rx[r].got \o line \in Gots
      BY <1>1, <1>3, TypeParts
    <3> QED
      BY <1>1, <1>2, <2>3, <3>1 DEF RxReceive, Rxs
  <2>4. CASE RxReturn(r)
    BY <1>1, <1>2, <2>4 DEF RxReturn, Rxs
  <2>5. CASE RxFirst(r)
    BY <1>1, <1>2, <2>5 DEF RxFirst, Rxs
  <2>6. CASE RxSecond(r)
    <3>1. /\ [at |-> "after", timer |-> HandleDelay, got |-> <<>>] \in Rxs
          /\ [at |-> "loop", timer |-> 0, got |-> <<>>] \in Rxs
      BY <1>2 DEF Rxs
    <3> QED
      BY <1>1, <2>6, <3>1 DEF RxSecond
  <2>7. CASE RxAfter(r)
    BY <1>1, <1>2, <2>7 DEF RxAfter, Rxs
  <2> QED
    BY <2>1, <2>2, <2>3, <2>4, <2>5, <2>6, <2>7 DEF RxTask
<1>6. main' \in Mains /\ bits' \subseteq Answers /\ sema' \in {"none", "empty", "full"}
  <2>1. ASSUME NEW b, Post(b)
        PROVE  main' \in Mains /\ bits' \subseteq Answers /\ sema' \in {"none", "empty", "full"}
    BY <2>1, TypeParts, FieldTypes DEF Post, Mains
  <2> QED
    BY <2>1, TypeParts DEF RxTask, RxLoop, RxLock, RxReceive, RxReturn, RxFirst, RxSecond, RxAfter
<1>7. mux' \in Rx \union {"free"} /\ line' \in Gots
  BY <1>2, TypeParts DEF RxTask, RxLoop, RxLock, RxReceive, RxReturn, RxFirst, RxSecond, RxAfter
<1>8. UNCHANGED <<tx, stop_tasks, dev>>
  BY DEF RxTask, RxLoop, RxLock, RxReceive, RxReturn, RxFirst, RxSecond, RxAfter
<1> QED
  BY <1>5, <1>6, <1>7, <1>8, TypeParts, TypePartsNext

\* A step of tx_task keeps every type.
LEMMA TypeTx ==
  ASSUME TypeOK, NEW t \in Tx, TxLoop(t)
  PROVE  TypeOK'
<1>1. tx' \in [Tx -> Txs]
  <2>1. \A q \in Txs : [q EXCEPT !.at = "off"] \in Txs /\ [q EXCEPT !.timer = TxPeriod] \in Txs
    BY DEF Txs, TxPlaces, TxTimes, TxPeriod
  <2> QED
    BY <2>1, TypeParts DEF TxLoop
<1>2. dev' \in Devs
  <2>1. "INIT" \in Heards
    BY DEF Heards, Frames
  <2>2. dev' = dev \/ dev' = [dev EXCEPT !.heard = "INIT", !.age = 0]
    BY DEF TxLoop, Hear
  <2>3. dev \in Devs
    BY TypeParts
  <2>4. [dev EXCEPT !.heard = "INIT", !.age = 0] \in Devs
    BY <2>1, <2>3 DEF Devs
  <2> QED
    BY <2>2, <2>3, <2>4
<1> QED
  BY <1>1, <1>2, TypeParts, TypePartsNext DEF TxLoop

\* An answer of the bootloader keeps every type, if there is a block left when
\* it accepts one.
LEMMA TypeDevice ==
  ASSUME TypeOK, Device, dev.mode = "block" /\ dev.heard = "block" => dev.blocks < NBlocks
  PROVE  TypeOK'
<1>1. dev \in Devs /\ line \in Gots
  BY TypeParts
<1>2. \A s \in {<<>>, <<"ACK">>, <<"NACK">>, <<"NACK", "NACK">>} : line \o s \in Gots
  <2>1. /\ <<>> \in Gots /\ <<"ACK">> \in Gots
        /\ <<"NACK">> \in Gots /\ <<"NACK", "NACK">> \in Gots
    BY DEF Gots, Answers
  <2>2. \A s, t \in Gots : s \o t \in Gots
    BY DEF Gots
  <2> QED
    BY <1>1, <2>1, <2>2
<1>3. "none" \in Heards /\ "unprotected" \in Heards /\ "idle" \in Modes /\ 0 \in Counts
  BY LinkAssumption DEF Heards, Frames, Modes, Counts
<1>4. CASE DeviceAnswers
  <2>1. dev.mode \in Modes /\ dev.heard \in Frames
    BY <1>1, <1>4 DEF DeviceAnswers, Devs, Heards
  <2>0. PICK reply \in Responses(dev.mode, dev.heard) :
          /\ line' = line \o reply.say
          /\ dev' = [dev EXCEPT
               !.mode = reply.mode,
               !.heard = IF reply.mode = "unprotect" THEN "unprotected" ELSE "none",
               !.age = 0,
               !.erased = @ \/ (dev.mode = "global" /\ Accepted(dev.mode, dev.heard)),
               !.blocks = CASE dev.mode = "global" /\ Accepted(dev.mode, dev.heard) -> 0
                            [] dev.mode = "block" /\ Accepted(dev.mode, dev.heard)  -> @ + 1
                            [] OTHER                                                -> @]
    BY <1>4 DEF DeviceAnswers
  <2> DEFINE say == reply.say
             mode == reply.mode
             erased == dev.erased \/ (dev.mode = "global" /\ Accepted(dev.mode, dev.heard))
             blocks == CASE dev.mode = "global" /\ Accepted(dev.mode, dev.heard) -> 0
                         [] dev.mode = "block" /\ Accepted(dev.mode, dev.heard)  -> dev.blocks + 1
                         [] OTHER                                                -> dev.blocks
             heard == IF mode = "unprotect" THEN "unprotected" ELSE "none"
  <2>2. say \in {<<>>, <<"ACK">>, <<"NACK">>, <<"NACK", "NACK">>} /\ mode \in Modes
    BY <2>1, ResponseType DEF Modes
  <2>3. blocks \in Counts
    <3>1. dev.blocks \in 0..NBlocks
      BY Types
    <3>2. dev.mode = "block" /\ Accepted(dev.mode, dev.heard) => dev.blocks + 1 \in 0..NBlocks
      BY <3>1, LinkAssumption DEF Accepted, Accepts
    <3> QED
      BY <1>3, <3>1, <3>2 DEF Counts
  <2>4. erased \in BOOLEAN
    BY <1>1 DEF Devs
  <2>5. /\ line' = line \o say
        /\ dev' = [dev EXCEPT !.mode = mode, !.heard = heard, !.age = 0, !.erased = erased,
                              !.blocks = blocks]
        /\ UNCHANGED <<main, rx, tx, stop_tasks, bits, sema, mux>>
    BY <1>4, <2>0 DEF DeviceAnswers
  <2>6. heard \in Heards
    BY <1>3
  <2> HIDE DEF say, mode, erased, blocks, heard
  <2>7. dev' \in Devs
    BY <1>1, <2>2, <2>3, <2>4, <2>5, <2>6 DEF Devs
  <2>8. line' \in Gots
    BY <1>2, <2>2, <2>5
  <2> QED
    BY <2>5, <2>7, <2>8, TypeParts, TypePartsNext
<1>5. CASE DeviceRefuses
  <2>1. line' \in Gots
    BY <1>1, <1>5 DEF DeviceRefuses, Gots, Answers
  <2>2. dev' \in Devs
    <3>1. dev.nacks + 1 \in Nacks
      BY <1>1, <1>5, LinkAssumption DEF DeviceRefuses, Devs, Nacks
    <3> QED
      BY <1>1, <1>3, <1>5, <3>1 DEF DeviceRefuses, Devs
  <2> QED
    BY <1>5, <2>1, <2>2, TypeParts, TypePartsNext DEF DeviceRefuses
<1> QED
  BY <1>4, <1>5 DEF Device

\* The clock keeps every type.
LEMMA TypeTick ==
  ASSUME TypeOK, Tick
  PROVE  TypeOK'
<1>1. /\ \A n \in MainTimes : Down(n) \in MainTimes
      /\ \A n \in RxTimes : Down(n) \in RxTimes
      /\ \A n \in TxTimes : Down(n) \in TxTimes
  BY DEF Down, MainTimes, RxTimes, TxTimes, AnswerTimeout, ReadTimeout, TxPeriod
<1>2. main' \in Mains
  BY <1>1, TypeParts DEF Tick, Mains
<1>3. rx' \in [Rx -> Rxs]
  BY <1>1, TypeParts DEF Tick, Rxs
<1>4. tx' \in [Tx -> Txs]
  BY <1>1, TypeParts DEF Tick, Txs
<1>5. dev' \in Devs
  BY TypeParts DEF Tick, Devs
<1> QED
  BY <1>2, <1>3, <1>4, <1>5, TypeParts, TypePartsNext DEF Tick

-----------------------------------------------------------------------------
(* The shape of the tasks' records *)

\* The slot that Send takes for a new task.
NewRx == CHOOSE r \in Rx : rx[r].at = "off"
NewTx == CHOOSE t \in Tx : tx[t].at = "off"

\* Send puts its tasks into slots that are off.
LEMMA SendTasks ==
  ASSUME TypeOK, Send
  PROVE  /\ IF main.wait \in Spawns[Proc]
            THEN /\ NewRx \in Rx /\ rx[NewRx].at = "off"
                 /\ rx' = [rx EXCEPT ![NewRx] = [rx[NewRx] EXCEPT !.at = "loop"]]
            ELSE rx' = rx
         /\ IF Proc = "init_line"
            THEN /\ NewTx \in Tx /\ tx[NewTx].at = "off"
                 /\ tx' = [tx EXCEPT ![NewTx] = [tx[NewTx] EXCEPT !.at = "loop"]]
            ELSE tx' = tx
BY DEF Send, NewRx, NewTx

\* A task has bytes only while it reads or handles them, and only the task that
\* reads holds the mutex.
LEMMA RxShapeStep ==
  ASSUME TypeOK, RxShape, Next
  PROVE  RxShape'
<1>1. rx \in [Rx -> Rxs] /\ \A r \in Rx : rx[r].timer \in RxTimes /\ RxTimes \subseteq Nat
  BY TypeParts DEF Rxs, RxTimes
<1>2. CASE UNCHANGED <<rx, mux>>
  BY <1>2 DEF RxShape
<1>3. CASE Send
  <2>1. mux' = mux
    BY <1>3 DEF Send
  <2>2. CASE main.wait \in Spawns[Proc]
    BY <1>1, <1>3, <2>1, <2>2, SendTasks DEF RxShape, Rxs
  <2>3. CASE ~(main.wait \in Spawns[Proc])
    BY <1>2, <1>3, <2>1, <2>3, SendTasks
  <2> QED
    BY <2>2, <2>3
<1>4. ASSUME NEW r \in Rx, RxTask(r) PROVE RxShape'
  <2>1. CASE RxLoop(r)
    BY <1>1, <2>1 DEF RxLoop, RxShape, IdleRx, Rxs
  <2>2. CASE RxLock(r)
    BY <1>1, <2>2, LinkAssumption DEF RxLock, RxShape, Rxs
  <2>3. CASE RxReceive(r)
    BY <1>1, <2>3 DEF RxReceive, RxShape, Rxs
  <2>4. CASE RxReturn(r)
    BY <1>1, <2>4, LinkAssumption DEF RxReturn, RxShape, Rxs
  <2>5. CASE RxFirst(r)
    BY <1>1, <2>5 DEF RxFirst, RxShape, Rxs, HandleDelay
  <2>6. CASE RxSecond(r)
    BY <1>1, <2>6 DEF RxSecond, RxShape, Rxs, HandleDelay
  <2>7. CASE RxAfter(r)
    BY <1>1, <2>7 DEF RxAfter, RxShape, Rxs
  <2> QED
    BY <1>4, <2>1, <2>2, <2>3, <2>4, <2>5, <2>6, <2>7 DEF RxTask
<1>5. CASE Tick
  <2>1. /\ \A n \in Nat : Down(n) \in Nat /\ Down(n) <= n
        /\ \A r \in Rx : rx[r].timer \in Nat
    BY <1>1 DEF Down
  <2>2. \A r \in Rx : /\ rx'[r].at = rx[r].at /\ rx'[r].got = rx[r].got
                      /\ rx'[r].timer = Down(rx[r].timer)
    BY <1>1, <1>5 DEF Tick, Rxs
  <2>3. mux' = mux
    BY <1>5 DEF Tick
  <2> QED
    BY <2>1, <2>2, <2>3 DEF RxShape, HandleDelay
<1>6. CASE Enter \/ Ready \/ WaitBits \/ Take \/ Return
  BY <1>2, <1>6 DEF Enter, Ready, WaitBits, Take, Return
<1>7. CASE Device
  BY <1>2, <1>7 DEF Device, DeviceAnswers, DeviceRefuses
<1>8. CASE \E t \in Tx : TxLoop(t)
  BY <1>2, <1>8 DEF TxLoop
<1> QED
  BY <1>3, <1>4, <1>5, <1>6, <1>7, <1>8 DEF Next, AppMain

\* A tx_task that is gone has no timer.
LEMMA TxShapeStep ==
  ASSUME TypeOK, TxShape, Next
  PROVE  TxShape'
<1>1. tx \in [Tx -> Txs] /\ \A t \in Tx : tx[t].timer \in TxTimes /\ TxTimes \subseteq Nat
  BY TypeParts DEF Txs, TxTimes
<1>2. CASE UNCHANGED tx
  BY <1>2 DEF TxShape
<1>3. CASE Send
  BY <1>1, <1>2, <1>3, SendTasks DEF TxShape, Txs
<1>4. ASSUME NEW t \in Tx, TxLoop(t) PROVE TxShape'
  BY <1>1, <1>4 DEF TxLoop, TxShape, Txs
<1>5. CASE Tick
  <2>1. Down(0) = 0
    BY DEF Down
  <2> QED
    BY <1>1, <1>5, <2>1 DEF Tick, TxShape, Txs
<1>6. CASE Enter \/ Ready \/ WaitBits \/ Take \/ Return
  BY <1>2, <1>6 DEF Enter, Ready, WaitBits, Take, Return
<1>7. CASE Device
  BY <1>2, <1>7 DEF Device, DeviceAnswers, DeviceRefuses
<1>8. CASE \E r \in Rx : RxTask(r)
  BY <1>2, <1>8 DEF RxTask, RxLoop, RxLock, RxReceive, RxReturn, RxFirst, RxSecond, RxAfter
<1> QED
  BY <1>3, <1>4, <1>5, <1>6, <1>7, <1>8 DEF Next, AppMain

\* The bootloader never takes longer than its Latency.
LEMMA DevShapeStep ==
  ASSUME TypeOK, DevShape, Next, TypeOK'
  PROVE  DevShape'
<1>1. /\ dev \in Devs /\ dev' \in Devs /\ dev'.heard \in Heards
      /\ \A f \in Heards : f # "none" => Latency[f] \in Nat
  BY TypeParts, TypePartsNext, LinkAssumption DEF Devs, Heards
<1>2. ASSUME dev' = dev \/ dev'.age = 0 PROVE DevShape'
  BY <1>1, <1>2 DEF DevShape
<1>3. ASSUME NEW f, Hear(f) PROVE dev' = dev \/ dev'.age = 0
  BY <1>1, <1>3 DEF Hear, Devs
<1>4. CASE Tick
  BY <1>1, <1>4 DEF Tick, DevShape, Devs
<1>5. CASE Device
  <2>1. dev'.age = 0
    BY <1>1, <1>5 DEF Device, DeviceAnswers, DeviceRefuses, Devs
  <2> QED
    BY <1>2, <2>1
<1>6. CASE Send
  BY <1>2, <1>3, <1>6 DEF Send
<1>7. CASE \E t \in Tx : TxLoop(t)
  BY <1>2, <1>3, <1>7 DEF TxLoop
<1>8. CASE Enter \/ Ready \/ WaitBits \/ Take \/ Return
  BY <1>2, <1>8 DEF Enter, Ready, WaitBits, Take, Return
<1>9. CASE \E r \in Rx : RxTask(r)
  BY <1>2, <1>9 DEF RxTask, RxLoop, RxLock, RxReceive, RxReturn, RxFirst, RxSecond, RxAfter
<1> QED
  BY <1>4, <1>5, <1>6, <1>7, <1>8, <1>9 DEF Next, AppMain

-----------------------------------------------------------------------------
(* Time *)

\* Bytes on their way are handled with time to spare.
LEMMA FlowInTime ==
  ASSUME Inv, main.at = "wait", bits = {}, NEW p, Flow(p), p # <<>>
  PROVE  main.timer >= Reserve \/ (main.step = 1 /\ main.timer >= 36)
<1>1. /\ main.timer \in Nat /\ Reserve \in {37, 11, 1}
      /\ \A r \in Rx : rx[r].timer \in Nat
  BY Numbers DEF Inv, Reserve
<1>2. CASE line # <<>>
  BY <1>1, <1>2 DEF Inv, TaskInv, AnswerTime, ReadTimeout
<1>3. CASE \E r \in Rx : Owes(r) # <<>>
  <2>1. PICK r \in Rx : Owes(r) # <<>>
    BY <1>3
  <2>2. r \in Busy
    BY <2>1 DEF Owes, Busy
  <2>3. CASE rx[r].at = "read" /\ rx[r].got # <<>>
    BY <1>1, <2>2, <2>3 DEF Inv, TaskInv, AnswerTime
  <2>4. CASE rx[r].at = "first"
    BY <1>1, <2>2, <2>4 DEF Inv, TaskInv, AnswerTime
  <2>5. CASE rx[r].at = "between"
    <3>1. main.timer >= rx[r].timer + (IF main.step = 1 THEN 36 ELSE 49)
      BY <2>2, <2>5 DEF Inv, TaskInv, AnswerTime
    <3> QED
      BY <1>1, <3>1
  <2> QED
    BY <2>1, <2>3, <2>4, <2>5 DEF Owes
<1> QED
  BY <1>2, <1>3, FlowPlaces DEF Inv

\* A wait is never given up before its answer.
LEMMA AnswerInTime ==
  ASSUME Inv, Punctual, main.at = "wait", bits = {}
  PROVE  /\ main.timer >= 1
         /\ Proc = "init_line" => NotYetSent \/ main.timer >= 36
<1>1. main.timer \in Nat /\ dev.age \in Nat /\ dev.heard \in Heards
  BY Numbers DEF Inv
<1>2. Coming
  BY DEF Inv, MainInv, AtWait
<1>3. /\ \A f \in Frames : Latency[f] \in Nat /\ Latency[f] <= 39
      /\ "INIT" \in Frames /\ Latency["INIT"] <= 3
  BY LinkAssumption DEF Punctual, Frames
<1>4. dev.heard # "none" => dev.age <= 39 /\ (dev.heard = "INIT" => dev.age <= 3)
  BY <1>1, <1>3 DEF Inv, ShapeInv, DevShape, Heards
<1>5. ASSUME NEW p, Flow(p), p # <<>>
      PROVE  main.timer >= 1 /\ (Proc = "init_line" => main.timer >= 36)
  BY <1>1, <1>5, FlowInTime DEF Reserve
<1>6. CASE NotYetSent
  BY <1>6 DEF NotYetSent, AnswerTimeout
<1>7. CASE Sent
  BY <1>1, <1>4, <1>7 DEF Sent, Asked, AnswerTimeout
<1>8. CASE OnItsWay
  BY <1>5, <1>8, ShortSequences DEF OnItsWay
<1>9. CASE FirstOnItsWay
  BY <1>5, <1>9, ShortSequences DEF FirstOnItsWay
<1>10. CASE SecondOnItsWay
  <2>1. main.step = 2 /\ Proc # "init_line"
    BY <1>10, Procs, ScriptSteps, LinkAssumption DEF SecondOnItsWay, Inv
  <2>2. CASE dev.heard # "none"
    BY <1>1, <1>4, <1>10, <2>1, <2>2 DEF SecondOnItsWay, AnswerTimeout
  <2>3. CASE dev.heard = "none"
    BY <1>5, <1>10, <2>1, <2>3, ShortSequences DEF SecondOnItsWay, SecondComing
  <2> QED
    BY <2>2, <2>3
<1> QED
  BY <1>2, <1>6, <1>7, <1>8, <1>9, <1>10 DEF Coming

-----------------------------------------------------------------------------
(* Steps that leave the exchange alone *)

\* What is on its way stays on its way, as far as MainInv asks.
FlowStays ==
  /\ Flow(<<>>) => Flow(<<>>)'
  /\ \A x : Flow(<<x>>) => Flow(<<x>>)'
  /\ main.step < 5 => \A x, y : Flow(<<x, y>>) => Flow(<<x, y>>)'

\* How far the bootloader is depends on its mode, its flash and the step.
LEMMA PartKept ==
  ASSUME main'.step = main.step, dev'.mode = dev.mode, dev'.erased = dev.erased,
         dev'.blocks = dev.blocks
  PROVE  /\ \A k : Progress(k)' <=> Progress(k)
         /\ \A w, x : AtPart(w, x)' <=> AtPart(w, x)
         /\ Proc' = Proc
<1>1. \A k : Progress(k)' <=> Progress(k)
  BY DEF Progress
<1>2. Proc' = Proc
  BY DEF Proc
<1>3. \A w, x : AtPart(w, x)' <=> AtPart(w, x)
  BY <1>2 DEF AtPart, Progress
<1> QED
  BY <1>1, <1>2, <1>3

\* A step of a task that leaves the bytes on their way leaves the exchange.
LEMMA ExchangeKept ==
  ASSUME main' = main, tx' = tx, dev' = dev, FlowStays
  PROVE  /\ FlowStale => FlowStale'
         /\ SecondComing => SecondComing'
         /\ NotYetSent => NotYetSent'
         /\ OnItsWay => OnItsWay'
         /\ Coming => Coming'
         /\ \A x : Answered(x) => Answered(x)'
<1>1. Proc' = Proc /\ \A k : Progress(k)' <=> Progress(k)
  BY PartKept
<1>2. FlowStale => FlowStale'
  BY DEF FlowStale, FlowStays
<1>3. SecondComing => SecondComing'
  BY <1>1 DEF SecondComing, FlowStays
<1>4. \A x : LeadsOn(x)' <=> LeadsOn(x)
  BY <1>1 DEF LeadsOn, AtPart, Progress
<1>5. AtPart(1, 0)' <=> AtPart(1, 0)
  BY PartKept
<1>6. AtPart(main.wait, main.result)' <=> AtPart(main.wait, main.result)
  BY <1>1 DEF AtPart, Progress
<1>7. NotYetSent => NotYetSent'
  BY <1>1, <1>2, <1>5 DEF NotYetSent
<1>8. Sent => Sent'
  BY <1>1, <1>2, <1>6 DEF Sent, Asked
<1>9. OnItsWay => OnItsWay'
  BY <1>4 DEF OnItsWay, FlowStays
<1>10. FirstOnItsWay => FirstOnItsWay'
  BY <1>1 DEF FirstOnItsWay, FlowStays
<1>11. SecondOnItsWay => SecondOnItsWay'
  BY <1>3 DEF SecondOnItsWay
<1>12. \A x : Answered(x) => Answered(x)'
  BY <1>3, <1>4 DEF Answered, FlowStays
<1> QED
  BY <1>2, <1>3, <1>7, <1>8, <1>9, <1>10, <1>11, <1>12 DEF Coming

\* What MainInv says of the exchange still holds.
ExchangeStays ==
  /\ Flow(<<>>) => Flow(<<>>)'
  /\ FlowStale => FlowStale'
  /\ SecondComing => SecondComing'
  /\ Coming => Coming'
  /\ \A x : Answered(x) => Answered(x)'

\* MainInv holds on when only the tasks change.
LEMMA MainKept ==
  ASSUME MainInv, UNCHANGED <<main, stop_tasks, bits, sema, dev>>, ExchangeStays
  PROVE  MainInv'
<1>1. /\ Flow(<<>>) => Flow(<<>>)'
      /\ FlowStale => FlowStale'
      /\ SecondComing => SecondComing'
      /\ Coming => Coming'
      /\ \A x : Answered(x) => Answered(x)'
  BY DEF ExchangeStays
<1>2. /\ \A k : Progress(k)' <=> Progress(k)
      /\ \A w, x : AtPart(w, x)' <=> AtPart(w, x)
      /\ Proc' = Proc
  BY PartKept
<1>3. Place'
  BY <1>2 DEF MainInv, Place
<1>4. AtRest'
  BY <1>1, <1>2 DEF MainInv, AtRest, Progress
<1>5. AtLead'
  BY <1>1, <1>2 DEF MainInv, AtLead
<1>6. AtSend'
  BY <1>1, <1>2 DEF MainInv, AtSend, AtPart, Progress
<1>7. AtWait'
  BY <1>1 DEF MainInv, AtWait
<1>8. AtTake'
  BY <1>1 DEF MainInv, AtTake
<1>9. AtLinger'
  BY <1>1, <1>2 DEF MainInv, AtLinger, AtPart, Progress
<1> QED
  BY <1>3, <1>4, <1>5, <1>6, <1>7, <1>8, <1>9 DEF MainInv

\* Bytes stay on their way when neither the tasks nor the buffer change.
LEMMA FlowSame ==
  ASSUME UNCHANGED <<rx, line>>
  PROVE  \A p : Flow(p) => Flow(p)'
BY FlowKept DEF Owes

\* TxInv holds on when neither app_main nor tx_task moves.
LEMMA TxKept ==
  ASSUME TxInv, UNCHANGED <<main, tx>>, NotYetSent => NotYetSent'
  PROVE  TxInv'
BY DEF TxInv, Proc

\* Which part of a command app_main sends next, and what it sends.
LEMMA Sending ==
  ASSUME Inv, main.at \in {"send", "wait", "take", "linger"}
  PROVE  /\ main.step \in Nat /\ main.step >= 1 /\ main.wait \in 1..3
         /\ \/ main.step \in {1, 3} /\ Proc = "init_line" /\ main.wait = 1
            \/ main.step = 2 /\ Proc = "readout_unprotect" /\ main.wait \in {1, 2}
            \/ main.step = 4 /\ Proc = "erase" /\ main.wait \in {1, 2}
            \/ main.step >= 5 /\ Proc = "write_flash"
<1>1. /\ main.step <= Len(Script) /\ main.wait <= Waits[Proc] /\ main.wait \in 1..3
      /\ main.step \in Nat /\ main.step >= 1
  BY Types, Numbers DEF Inv, MainInv, Place
<1>2. /\ main.step \in 1..NBlocks + 4
      /\ main.step = 1 => Proc = "init_line"
      /\ main.step = 2 => Proc = "readout_unprotect"
      /\ main.step = 3 => Proc = "init_line"
      /\ main.step = 4 => Proc = "erase"
      /\ main.step > 4 => Proc = "write_flash"
  BY <1>1, Procs DEF Inv
<1> QED
  BY <1>1, <1>2, Tables
=============================================================================
