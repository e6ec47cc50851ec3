--------------------------- MODULE WsClient_proofs ---------------------------
(***************************************************************************)
(* Theorems about WsClient, for any tasks, senders, calls, frames and       *)
(* bounds.                                                                 *)
(***************************************************************************)
EXTENDS WsClient, TLAPS

-----------------------------------------------------------------------------
(* Connections *)

LEMMA UnconnectedType ==
  /\ Unconnected \in Connections
  /\ Unconnected.open = FALSE /\ Unconnected.partial = None /\ Unconnected.pinged = FALSE
BY DEF Unconnected, Connections

LEMMA ConnectedType ==
  Connected \in Connections /\ Connected.open = TRUE /\ Connected.partial = None
BY UnconnectedType DEF Connected, Connections

\* What a connection keeps when something is read, asked, written or breaks.
Same(c, d) == d.open = c.open /\ d.partial = c.partial /\ d.pinged = c.pinged

LEMMA ReadType ==
  ASSUME NEW c \in Connections, c.inbox # <<>>
  PROVE  [c EXCEPT !.inbox = Tail(@)] \in Connections /\ Same(c, [c EXCEPT !.inbox = Tail(@)])
<1>1. Tail(c.inbox) \in Seq(Frames)
  BY DEF Connections
<1> QED
  BY <1>1 DEF Connections, Same

LEMMA PingType ==
  ASSUME NEW c \in Connections, NEW b \in BOOLEAN
  PROVE  LET d == [c EXCEPT !.pinged = @ \/ b]
         IN /\ d \in Connections /\ d.open = c.open /\ d.partial = c.partial
            /\ d.pinged = (c.pinged \/ b)
BY DEF Connections

LEMMA WriteType ==
  ASSUME NEW c \in Connections, NEW p \in Threads \cup {None}
  PROVE  LET d == [c EXCEPT !.partial = p]
         IN d \in Connections /\ d.open = c.open /\ d.partial = p /\ d.pinged = c.pinged
BY DEF Connections

LEMMA ArriveType ==
  ASSUME NEW c \in Connections, NEW f \in Frames, NEW b \in BOOLEAN
  PROVE  LET d == [c EXCEPT !.inbox = Append(@, f), !.over = b]
         IN d \in Connections /\ Same(c, d)
<1>1. Append(c.inbox, f) \in Seq(Frames)
  BY DEF Connections
<1> QED
  BY <1>1 DEF Connections, Same

LEMMA BreakType ==
  ASSUME NEW c \in Connections
  PROVE  LET d == [c EXCEPT !.broken = TRUE]
         IN d \in Connections /\ Same(c, d)
BY DEF Connections, Same

LEMMA OneChanged ==
  ASSUME NEW S, NEW f \in [S -> Nat], NEW x \in S
  PROVE  /\ [f EXCEPT ![x] = 1] \in [S -> Nat]
         /\ [f EXCEPT ![x] = 1][x] # 0
         /\ \A y \in S \ {x} : [f EXCEPT ![x] = 1][y] = f[y]
OBVIOUS

LEMMA OneLess ==
  ASSUME NEW n \in Nat \ {0}
  PROVE  n - 1 \in Nat /\ (n # 1 => n - 1 # 0)
OBVIOUS

LEMMA OneMore ==
  ASSUME NEW m \in Nat, NEW n \in 0..m, n < m
  PROVE  n + 1 \in 0..m
OBVIOUS

-----------------------------------------------------------------------------
(* Type correctness *)

TypeInv == TypeOK /\ LeftInv

LEMMA TypeInit == Init => TypeInv
<1> SUFFICES ASSUME Init PROVE TypeInv
  OBVIOUS
<1>1. MaxStarts \in Nat
  BY WsAssumption DEF WsAssumption
<1>2. starts \in 0..MaxStarts
  BY <1>1 DEF Init
<1> QED
  BY <1>2, UnconnectedType
     DEF Init, TypeInv, TypeOK, LeftInv, States, Active, Timers, Places, Session!Events

LEMMA TypeTask ==
  ASSUME TypeInv, NEW t \in Tasks, Step(t)
  PROVE  TypeInv'
<1> USE DEF TypeInv, TypeOK, LeftInv, Places, Goes, client, callers, told, history
<1>1. CASE Begin(t)
  BY <1>1 DEF Begin, States, Active, Session!Events
<1>2. CASE Loop(t)
  BY <1>2 DEF Loop
<1>3. CASE Connect(t)
  BY UnconnectedType, ConnectedType, <1>3
     DEF Connect, Connects, Body, Abort, Disconnected, GivesUp, States, Active, Timers, Session!Events
<1>4. CASE KeepAlive(t)
  <2>1. conn' \in Connections
    BY UnconnectedType, PingType, <1>4 DEF KeepAlive, PingPong
  <2> QED
    BY <2>1, <1>4
       DEF KeepAlive, PingPong, Body, Disconnected, GivesUp, States, Active, Timers, Session!Events
<1>5. CASE Retry(t)
  BY <1>5 DEF Retry, Body, States, Active
<1>6. CASE Echo(t)
  BY <1>6 DEF Echo, Body
<1>7. CASE Pass(t)
  BY <1>7 DEF Pass, Body
<1>8. CASE Wait(t)
  BY <1>8 DEF Wait
<1>9. CASE Sleep(t)
  BY <1>9 DEF Sleep
<1>10. CASE Poll(t)
  BY <1>10 DEF Poll
<1>11. CASE Recv(t)
  <2>1. conn' \in Connections
    BY <1>11, ReadType DEF Recv, TypeInv, TypeOK
  <2> QED
    BY <2>1, <1>11 DEF Recv
<1>12. CASE Closing(t)
  BY <1>12 DEF Closing, States, Active
<1>13. CASE Drop(t)
  BY UnconnectedType, <1>13
     DEF Drop, Abort, Disconnected, GivesUp, States, Active, Timers, Session!Events
<1>14. CASE Shut(t)
  BY UnconnectedType, <1>14 DEF Shut, States, Active, Timers, Session!Events
<1>15. CASE Finish(t)
  BY UnconnectedType, <1>15 DEF Finish, Finishes, Session!Events
<1>16. CASE Leave(t)
  BY <1>16 DEF Leave, States
<1> QED
  BY <1>1, <1>2, <1>3, <1>4, <1>5, <1>6, <1>7, <1>8, <1>9, <1>10, <1>11, <1>12, <1>13, <1>14,
     <1>15, <1>16 DEF Step

LEMMA TypeSender ==
  ASSUME TypeInv, NEW s \in Threads, Send(s) \/ SendStep(s)
  PROVE  TypeInv'
<1> USE DEF TypeInv, TypeOK, LeftInv, Sends, client, callers, told
<1>1. CASE Send(s)
  <2>1. Frags \in Nat \ {0}
    BY WsAssumption DEF WsAssumption
  <2> QED
    BY <2>1, <1>1 DEF Send
<1>2. CASE Lock(s)
  BY <1>2 DEF Lock
<1>3. CASE LockTimeout(s)
  BY <1>3 DEF LockTimeout
<1>4. CASE Written(s)
  <2>1. conn' \in Connections
    BY WriteType, <1>4 DEF Written, Writes
  <2>2. left[s] \in Nat \ {0}
    BY <1>4 DEF Written, Writes
  <2>3. left[s] - 1 \in Nat /\ (left[s] # 1 => left[s] - 1 # 0)
    BY <2>2, OneLess
  <2>4. left' \in [Threads -> Nat] /\ LeftInv'
    BY <2>3, <1>4 DEF Written, Writes
  <2> QED
    BY <2>1, <2>4, <1>4 DEF Written, Writes
<1>5. CASE WriteFails(s)
  BY <1>5 DEF WriteFails
<1>6. CASE CloseSocket(s)
  BY UnconnectedType, <1>6 DEF CloseSocket
<1>7. CASE TellLoss(s)
  BY <1>7 DEF TellLoss, Disconnected, GivesUp, States, Active, Timers, Session!Events
<1> QED
  BY <1>1, <1>2, <1>3, <1>4, <1>5, <1>6, <1>7 DEF SendStep

LEMMA TypeApp ==
  ASSUME TypeInv, AppStep \/ Call
  PROVE  TypeInv'
<1> USE DEF TypeInv, TypeOK, LeftInv, States, Active, shared, Calling, AskToStop,
            client, callers, told
<1>1. CASE Started
  BY <1>1 DEF Started
<1>2. CASE Stopped
  BY <1>2 DEF Stopped
<1>3. CASE CloseSent
  BY <1>3 DEF CloseSent
<1>4. CASE Closed
  BY <1>4 DEF Closed
<1>5. CASE CloseTimeout
  BY <1>5 DEF CloseTimeout
<1>6. ASSUME NEW t \in Tasks, Start(t)
      PROVE  TypeInv'
  <2>1. MaxStarts \in Nat
    BY WsAssumption DEF WsAssumption
  <2>2. starts' \in 0..MaxStarts
    BY <2>1, OneMore, <1>6 DEF Start, StartAgain
  <2> QED
    BY <2>2, UnconnectedType, <1>6 DEF Start, StartAgain, Goes, Places
<1>7. CASE Stop
  BY <1>7 DEF Stop
<1>8. CASE Destroy
  BY <1>8 DEF Destroy
<1>9. CASE DestroyOnExit
  BY <1>9 DEF DestroyOnExit
<1>10. ASSUME NEW c \in {"close", "close forever"}, Close(c)
       PROVE  TypeInv'
  <2>1. App \in Threads
    BY DEF Threads
  <2>2. snd' \in [Threads -> {"idle", "lock", "write", "abort", "aborting"}]
    BY <2>1, <1>10 DEF Close
  <2>3. /\ left' = [left EXCEPT ![App] = 1] /\ left \in [Threads -> Nat]
        /\ \A s \in Threads \ {App} : snd'[s] = snd[s]
    BY <2>1, <1>10 DEF Close
  <2>4. /\ left' \in [Threads -> Nat] /\ left'[App] # 0
        /\ \A s \in Threads \ {App} : left'[s] = left[s]
    BY <2>1, <2>3, OneChanged
  <2>5. LeftInv'
    BY <2>3, <2>4
  <2> QED
    BY <2>2, <2>4, <2>5, <1>10 DEF Close
<1> QED
  BY <1>1, <1>2, <1>3, <1>4, <1>5, <1>6, <1>7, <1>8, <1>9, <1>10 DEF AppStep, Call

LEMMA TypeOther ==
  ASSUME TypeInv, \/ \E x \in Timers : Expire(x)
                  \/ \E f \in Frames : Transmit(f)
                  \/ Break
                  \/ UNCHANGED vars
  PROVE  TypeInv'
<1> USE DEF TypeInv, TypeOK, LeftInv, client, callers, told
<1>1. ASSUME NEW x \in Timers, Expire(x)
      PROVE  TypeInv'
  BY <1>1 DEF Expire
<1>2. ASSUME NEW f \in Frames, Transmit(f)
      PROVE  TypeInv'
  <2>1. conn' \in Connections
    BY <1>2, ArriveType DEF Transmit
  <2> QED
    BY <2>1, <1>2 DEF Transmit
<1>3. CASE Break
  <2>1. conn' \in Connections
    BY <1>3, BreakType DEF Break
  <2> QED
    BY <2>1, <1>3 DEF Break
<1>4. CASE UNCHANGED vars
  BY <1>4 DEF vars
<1> QED
  BY <1>1, <1>2, <1>3, <1>4

LEMMA TypeStep ==
  ASSUME TypeInv, [Next]_vars
  PROVE  TypeInv'
BY TypeTask, TypeSender, TypeApp, TypeOther DEF Next

\* The variables keep their types, and a sender its count, whatever the
\* threads, the server and the network do.
THEOREM TypeCorrect == Spec => []TypeOK
<1>1. TypeInv /\ [Next]_vars => TypeInv'
  BY TypeStep
<1>2. TypeInv => TypeOK
  BY DEF TypeInv
<1> QED
  BY TypeInit, <1>1, <1>2, PTL DEF Spec
-----------------------------------------------------------------------------
(* What is awaited was asked for *)

LEMMA AskedStep ==
  ASSUME TypeInv, OnlyAskedIsAwaited, [Next]_vars
  PROVE  OnlyAskedIsAwaited'
<1> USE DEF OnlyAskedIsAwaited, client, callers, told, history
<1>t. conn \in Connections /\ wait_for_pong_resp \in BOOLEAN
  BY DEF TypeInv, TypeOK
<1>1. ASSUME NEW t \in Tasks, Step(t)
      PROVE  OnlyAskedIsAwaited'
  <2>1. CASE Connect(t)
    BY <1>t, <2>1, UnconnectedType, ConnectedType
       DEF Connect, Connects, Abort, Disconnected, GivesUp
  <2>2. CASE KeepAlive(t)
    BY <1>t, <2>2, UnconnectedType, PingType DEF KeepAlive, PingPong, Disconnected
  <2>3. CASE Recv(t)
    BY <1>t, <2>3, ReadType DEF Recv, Same
  <2>4. CASE Drop(t) \/ Shut(t) \/ Finish(t)
    BY <2>4, UnconnectedType DEF Drop, Abort, Shut, Finish, Finishes
  <2>5. CASE Begin(t) \/ Loop(t) \/ Retry(t) \/ Echo(t) \/ Pass(t)
    BY <2>5 DEF Begin, Loop, Retry, Echo, Pass
  <2>6. CASE Wait(t) \/ Sleep(t) \/ Poll(t) \/ Closing(t) \/ Leave(t)
    BY <2>6 DEF Wait, Sleep, Poll, Closing, Leave
  <2> QED
    BY <1>1, <2>1, <2>2, <2>3, <2>4, <2>5, <2>6 DEF Step
<1>2. ASSUME NEW s \in Threads, Send(s) \/ SendStep(s)
      PROVE  OnlyAskedIsAwaited'
  <2>1. CASE Written(s)
    BY <1>t, <2>1, WriteType DEF Written, Writes
  <2>2. CASE Send(s) \/ Lock(s) \/ LockTimeout(s) \/ WriteFails(s)
    BY <2>2 DEF Send, Lock, LockTimeout, WriteFails
  <2>3. CASE CloseSocket(s) \/ TellLoss(s)
    BY <2>3, UnconnectedType DEF CloseSocket, TellLoss
  <2> QED
    BY <1>2, <2>1, <2>2, <2>3 DEF SendStep
<1>3. CASE AppStep
  BY <1>3 DEF AppStep, Started, Stopped, CloseSent, Closed, CloseTimeout, shared
<1>4. ASSUME NEW t \in Tasks, Start(t)
      PROVE  OnlyAskedIsAwaited'
  BY <1>4, UnconnectedType DEF Start, StartAgain
<1>5. CASE Stop \/ Destroy \/ DestroyOnExit
  BY <1>5 DEF Stop, Destroy, DestroyOnExit, shared
<1>6. ASSUME NEW c \in {"close", "close forever"}, Close(c)
      PROVE  OnlyAskedIsAwaited'
  BY <1>6 DEF Close
<1>7. ASSUME NEW x \in Timers, Expire(x)
      PROVE  OnlyAskedIsAwaited'
  BY <1>7 DEF Expire
<1>8. ASSUME NEW f \in Frames, Transmit(f)
      PROVE  OnlyAskedIsAwaited'
  BY <1>t, <1>8, ArriveType DEF Transmit, Same
<1>9. CASE Break
  BY <1>t, <1>9, BreakType DEF Break, Same
<1>10. CASE UNCHANGED vars
  BY <1>10 DEF vars
<1> QED
  BY <1>1, <1>2, <1>3, <1>4, <1>5, <1>6, <1>7, <1>8, <1>9, <1>10 DEF Next, Call

\* A connection is only given up for want of a PONG that a PING on that very
\* connection asked for (the switch of esp_websocket_client_task).
THEOREM OnlyAsked == Spec => []OnlyAskedIsAwaited
<1>1. Init => OnlyAskedIsAwaited
  BY DEF Init, OnlyAskedIsAwaited
<1>2. TypeInv /\ [Next]_vars => TypeInv'
  BY TypeStep
<1> QED
  BY TypeInit, <1>1, <1>2, AskedStep, PTL DEF Spec

-----------------------------------------------------------------------------
(* Who works on the client *)

\* A caller that runs when the state is not active finds no task, ...
LEMMA NoTask ==
  ASSUME TaskInv, Prompt, CallerRuns, state \notin Active
  PROVE  \A t \in Tasks : pc[t] = None
BY DEF TaskInv, CallerRuns, Passing, Works

\* ... and when STOPPED_BIT is set.
LEMMA NoTaskStopped ==
  ASSUME TaskInv, Prompt, CallerRuns, "STOPPED" \in bits
  PROVE  \A t \in Tasks : pc[t] = None
BY DEF TaskInv, CallerRuns, Passing, Works

LEMMA NoSocket ==
  ASSUME TaskInv, \A t \in Tasks : pc[t] = None
  PROVE  ~conn.open
BY DEF TaskInv, Works

LEMMA LockTask ==
  ASSUME TypeInv, LockInv, NEW t \in Tasks, Step(t)
  PROVE  LockInv'
<1> USE DEF LockInv, WholeMessages, client, callers, told, history
<1>t. /\ conn \in Connections /\ Free \notin Threads
  BY WsAssumption DEF WsAssumption, TypeInv, TypeOK
<1>1. ASSUME lock = Free, conn' = Unconnected, UNCHANGED <<lock, snd, app>>
      PROVE  LockInv'
  BY <1>t, <1>1, UnconnectedType
<1>2. ASSUME conn'.open = conn.open, conn'.partial = conn.partial, UNCHANGED <<lock, snd, app>>
      PROVE  LockInv'
  BY <1>2
<1>3. CASE Connect(t)
  BY <1>t, <1>1, <1>2, <1>3, ConnectedType
     DEF Connect, Connects, Body, Abort, Disconnected, GivesUp
<1>4. CASE KeepAlive(t)
  BY <1>t, <1>1, <1>2, <1>4, PingType DEF KeepAlive, PingPong, Body, Disconnected
<1>5. CASE Recv(t)
  BY <1>t, <1>2, <1>5, ReadType DEF Recv, Same
<1>6. CASE Drop(t) \/ Shut(t)
  BY <1>1, <1>2, <1>6 DEF Drop, Abort, Shut
<1>7. CASE Finish(t)
  BY <1>t, <1>7, UnconnectedType DEF Finish, Finishes
<1>8. CASE Begin(t) \/ Loop(t) \/ Retry(t) \/ Echo(t) \/ Pass(t)
  BY <1>2, <1>8 DEF Begin, Loop, Retry, Echo, Pass
<1>9. CASE Wait(t) \/ Sleep(t) \/ Poll(t) \/ Closing(t)
  BY <1>2, <1>9 DEF Wait, Sleep, Poll, Closing
<1>10. CASE Leave(t)
  BY <1>10 DEF Leave
<1> QED
  BY <1>3, <1>4, <1>5, <1>6, <1>7, <1>8, <1>9, <1>10 DEF Step

LEMMA LockSender ==
  ASSUME TypeInv, LockInv, TaskInv, Prompt, NEW s \in Threads, Send(s) \/ SendStep(s)
  PROVE  LockInv'
<1> USE DEF LockInv, WholeMessages, Sends, client, callers, told
<1>t. /\ conn \in Connections /\ conn.partial \in Threads \cup {None} /\ Free \notin Threads
      /\ snd \in [Threads -> {"idle", "lock", "write", "abort", "aborting"}]
      /\ None \notin Threads /\ App \notin Senders
  BY WsAssumption DEF WsAssumption, TypeInv, TypeOK, Connections
<1>1. CASE Send(s)
  BY <1>t, <1>1 DEF Send
<1>2. CASE Lock(s)
  BY <1>t, <1>2 DEF Lock
<1>3. CASE LockTimeout(s)
  BY <1>t, <1>3 DEF LockTimeout
<1>4. CASE Written(s)
  <2>1. /\ conn' = [conn EXCEPT !.partial = IF left[s] = 1 THEN None ELSE s]
        /\ (IF left[s] = 1 THEN None ELSE s) \in Threads \cup {None}
    BY <1>4 DEF Written, Writes
  <2>2. conn'.open = conn.open /\ conn'.partial = IF left[s] = 1 THEN None ELSE s
    BY <1>t, <2>1, WriteType
  <2> QED
    BY <1>t, <1>4, <2>2 DEF Written, Writes
<1>5. CASE WriteFails(s)
  BY <1>t, <1>5 DEF WriteFails
<1>6. CASE CloseSocket(s)
  <2>1. CASE state \in Active
    BY <1>t, <1>6, <2>1, UnconnectedType DEF CloseSocket
  <2>2. CASE state \notin Active
    <3>1. ~conn.open
      BY <1>6, <2>2, NoTask, NoSocket DEF CloseSocket
    <3> QED
      BY <1>t, <1>6, <2>2, <3>1 DEF CloseSocket
  <2> QED
    BY <2>1, <2>2
<1>7. CASE TellLoss(s)
  BY <1>t, <1>7 DEF TellLoss
<1> QED
  BY <1>1, <1>2, <1>3, <1>4, <1>5, <1>6, <1>7 DEF SendStep

LEMMA LockApp ==
  ASSUME TypeInv, LockInv, AppStep \/ Call
  PROVE  LockInv'
<1> USE DEF LockInv, WholeMessages, client, callers, told, shared, Calling
<1>t. App \in Threads /\ snd \in [Threads -> {"idle", "lock", "write", "abort", "aborting"}]
  BY DEF TypeInv, TypeOK, Threads
<1>1. CASE Started \/ Stopped \/ Closed
  BY <1>1 DEF Started, Stopped, Closed
<1>2. CASE CloseSent
  BY <1>2 DEF CloseSent
<1>3. CASE CloseTimeout
  BY <1>3 DEF CloseTimeout, AskToStop
<1>4. ASSUME NEW t \in Tasks, Start(t)
      PROVE  LockInv'
  BY <1>4, UnconnectedType DEF Start, StartAgain
<1>5. CASE Stop \/ Destroy \/ DestroyOnExit
  BY <1>5 DEF Stop, Destroy, DestroyOnExit, AskToStop
<1>6. ASSUME NEW c \in {"close", "close forever"}, Close(c)
      PROVE  LockInv'
  BY <1>t, <1>6 DEF Close
<1> QED
  BY <1>1, <1>2, <1>3, <1>4, <1>5, <1>6 DEF AppStep, Call

\* What neither the time nor the server nor the network changes.
LEMMA Others ==
  ASSUME TypeInv, \/ \E x \in Timers : Expire(x)
                  \/ \E f \in Frames : Transmit(f)
                  \/ Break
                  \/ UNCHANGED vars
  PROVE  /\ UNCHANGED <<state, run, bits, lock, pc, callers, told>>
         /\ conn'.open = conn.open /\ conn'.partial = conn.partial
<1> USE DEF client, callers, told
<1>t. conn \in Connections
  BY DEF TypeInv, TypeOK
<1>1. ASSUME NEW f \in Frames, Transmit(f)
      PROVE  conn'.open = conn.open /\ conn'.partial = conn.partial
  BY <1>t, <1>1, ArriveType DEF Transmit, Same
<1>2. ASSUME Break
      PROVE  conn'.open = conn.open /\ conn'.partial = conn.partial
  BY <1>t, <1>2, BreakType DEF Break, Same
<1> QED
  BY <1>1, <1>2 DEF Expire, Transmit, Break, vars

LEMMA TaskTask ==
  ASSUME TypeInv, TaskInv, AutoReconnect, NEW t \in Tasks, Step(t)
  PROVE  TaskInv'
<1> USE DEF TaskInv, OneTask, Works, Goes, client, callers, told, history
<1>t. /\ pc \in [Tasks -> Places]
      /\ conn \in Connections /\ Unconnected.open = FALSE
  BY UnconnectedType DEF TypeInv, TypeOK
<1>1. ASSUME NEW to, to \notin {None, "begin", "tail"}, pc' = [pc EXCEPT ![t] = to],
             pc[t] # None, to # "finish" => state' \in Active, "STOPPED" \notin bits'
      PROVE  TaskInv'
  BY <1>t, <1>1
<1>2. CASE Begin(t)
  BY <1>1, <1>2 DEF Begin, Active, None
<1>3. CASE Loop(t)
  BY <1>1, <1>3 DEF Loop, None
<1>4. CASE Connect(t)
  BY <1>1, <1>4 DEF Connect, Connects, Body, Abort, Disconnected, GivesUp, Active, None
<1>5. CASE KeepAlive(t)
  BY <1>1, <1>5 DEF KeepAlive, PingPong, Body, Disconnected, GivesUp, Active, None
<1>6. CASE Retry(t)
  BY <1>1, <1>6 DEF Retry, Body, Active, None
<1>7. CASE Echo(t)
  BY <1>1, <1>7 DEF Echo, Body, Active, None
<1>8. CASE Pass(t)
  BY <1>1, <1>8 DEF Pass, Body, None
<1>9. CASE Wait(t)
  BY <1>1, <1>9 DEF Wait, None
<1>10. CASE Sleep(t)
  BY <1>1, <1>10 DEF Sleep, None
<1>11. CASE Poll(t)
  BY <1>1, <1>11 DEF Poll, None
<1>12. CASE Recv(t)
  BY <1>1, <1>12 DEF Recv, None
<1>13. CASE Closing(t)
  BY <1>1, <1>13 DEF Closing, Active, None
<1>14. CASE Drop(t)
  BY <1>1, <1>14 DEF Drop, Abort, Disconnected, GivesUp, Active, None
<1>15. CASE Shut(t)
  BY <1>1, <1>15 DEF Shut, Active, None
<1>16. CASE Finish(t)
  BY <1>t, <1>16 DEF Finish, Finishes, None
<1>17. CASE Leave(t)
  BY <1>t, <1>17 DEF Leave, None
<1> QED
  BY <1>2, <1>3, <1>4, <1>5, <1>6, <1>7, <1>8, <1>9, <1>10, <1>11, <1>12, <1>13, <1>14,
     <1>15, <1>16, <1>17 DEF Step

LEMMA TaskSender ==
  ASSUME TypeInv, TaskInv, LockInv, AutoReconnect, NEW s \in Threads, Send(s) \/ SendStep(s)
  PROVE  TaskInv'
<1> USE DEF TaskInv, OneTask, Works, Sends, client, callers, told
<1>t. conn \in Connections /\ conn.partial \in Threads \cup {None}
  BY DEF TypeInv, TypeOK, Connections
<1>1. CASE Send(s) \/ Lock(s) \/ LockTimeout(s) \/ WriteFails(s)
  BY <1>1 DEF Send, Lock, LockTimeout, WriteFails
<1>2. CASE Written(s)
  <2>1. /\ conn' = [conn EXCEPT !.partial = IF left[s] = 1 THEN None ELSE s]
        /\ (IF left[s] = 1 THEN None ELSE s) \in Threads \cup {None}
    BY <1>2 DEF Written, Writes
  <2>2. conn'.open = conn.open
    BY <1>t, <2>1, WriteType
  <2> QED
    BY <1>2, <2>2 DEF Written, Writes
<1>3. CASE CloseSocket(s)
  BY <1>3, UnconnectedType DEF CloseSocket
<1>4. CASE TellLoss(s)
  BY <1>4 DEF TellLoss, Disconnected, GivesUp, Active
<1> QED
  BY <1>1, <1>2, <1>3, <1>4 DEF SendStep

LEMMA TaskApp ==
  ASSUME TypeInv, TaskInv, Prompt, AppStep \/ Call
  PROVE  TaskInv'
<1> USE DEF TaskInv, OneTask, Works, client, callers, told, shared, Calling
<1>1. CASE Started \/ Closed
  BY <1>1 DEF Started, Closed
<1>2. CASE Stopped
  BY <1>2 DEF Stopped
<1>3. CASE CloseSent
  BY <1>3 DEF CloseSent
<1>4. CASE CloseTimeout
  BY <1>4 DEF CloseTimeout, AskToStop
<1>5. ASSUME NEW t \in Tasks, Start(t)
      PROVE  TaskInv'
  <2>1. \A u \in Tasks : pc[u] = None
    BY <1>5, NoTask DEF Start, StartAgain
  <2>2. pc \in [Tasks -> Places]
    BY DEF TypeInv, TypeOK
  <2> QED
    BY <1>5, <2>1, <2>2, UnconnectedType DEF Start, StartAgain, Goes
<1>6. CASE Stop \/ Destroy \/ DestroyOnExit
  BY <1>6 DEF Stop, Destroy, DestroyOnExit, AskToStop
<1>7. ASSUME NEW c \in {"close", "close forever"}, Close(c)
      PROVE  TaskInv'
  BY <1>7 DEF Close
<1> QED
  BY <1>1, <1>2, <1>3, <1>4, <1>5, <1>6, <1>7 DEF AppStep, Call

LEMMA WorkStep ==
  ASSUME Prompt, AutoReconnect, TypeInv, LockInv, TaskInv, [Next]_vars
  PROVE  LockInv' /\ TaskInv'
<1>1. ASSUME NEW t \in Tasks, Step(t)
      PROVE  LockInv' /\ TaskInv'
  BY <1>1, LockTask, TaskTask
<1>2. ASSUME NEW s \in Threads, Send(s) \/ SendStep(s)
      PROVE  LockInv' /\ TaskInv'
  BY <1>2, LockSender, TaskSender
<1>3. CASE AppStep \/ Call
  BY <1>3, LockApp, TaskApp
<1>4. CASE \/ \E x \in Timers : Expire(x)
           \/ \E f \in Frames : Transmit(f)
           \/ Break
           \/ UNCHANGED vars
  BY <1>4, Others
     DEF LockInv, WholeMessages, TaskInv, OneTask, Works, callers
<1> QED
  BY <1>1, <1>2, <1>3, <1>4 DEF Next

LEMMA WorkInit == Init => LockInv /\ TaskInv
<1> SUFFICES ASSUME Init PROVE LockInv /\ TaskInv
  OBVIOUS
<1>1. Free \notin Threads /\ App \in Threads
  BY WsAssumption DEF WsAssumption, Threads
<1> QED
  BY <1>1, UnconnectedType
     DEF Init, LockInv, WholeMessages, TaskInv, OneTask, Works

LEMMA Work ==
  ASSUME Prompt, AutoReconnect
  PROVE  Spec => [](LockInv /\ TaskInv)
<1>1. TypeInv /\ LockInv /\ TaskInv /\ [Next]_vars => TypeInv' /\ LockInv' /\ TaskInv'
  BY TypeStep, WorkStep
<1> QED
  BY TypeInit, WorkInit, <1>1, PTL DEF Spec

\* No two tasks work on one client: start refuses while a task exists, if its
\* callers do not run while a task begins or ends.
THEOREM OneTaskAtATime ==
  ASSUME Prompt, AutoReconnect
  PROVE  Spec => []OneTask
<1>1. TaskInv => OneTask
  BY DEF TaskInv
<1> QED
  BY Work, <1>1, PTL

\* No sender writes into a message that another one has begun, and the task does
\* not connect anew under it (send_with_exact_opcode, abort_connection).
THEOREM MessagesAreWhole ==
  ASSUME Prompt, AutoReconnect
  PROVE  Spec => []WholeMessages
<1>1. LockInv => WholeMessages
  BY DEF LockInv
<1> QED
  BY Work, <1>1, PTL

\* STOPPED_BIT is only seen set with the socket closed.
THEOREM StopClosesSocket ==
  ASSUME Prompt, AutoReconnect
  PROVE  Spec => []StoppedMeansClosed
<1>1. TaskInv => StoppedMeansClosed
  BY DEF TaskInv, StoppedMeansClosed
<1> QED
  BY Work, <1>1, PTL

-----------------------------------------------------------------------------
(* The events are those of WsSession *)

\* One step of the client is a step of the session, or none.
SessionStep == EventInv' /\ [Session!Next]_(Session!vars)

LEMMA SessionTask ==
  ASSUME TypeInv, TaskInv, EventInv, AutoReconnect, NEW t \in Tasks, Step(t)
  PROVE  SessionStep
<1> USE DEF SessionStep, EventInv, TaskInv, OneTask, Works, Goes, Session!Down, Session!vars,
            client, callers, told, history
<1>t. /\ pc \in [Tasks -> Places]
      /\ conn \in Connections /\ conn.open \in BOOLEAN /\ late \in BOOLEAN
      /\ Unconnected.open = FALSE /\ Connected.open = TRUE
  BY UnconnectedType, ConnectedType DEF TypeInv, TypeOK, Connections
<1>1. ASSUME NEW to, to \notin {None, "begin", "tail"}, pc' = [pc EXCEPT ![t] = to],
             pc[t] \notin {None, "begin", "tail", "finish"},
             conn'.open = conn.open, UNCHANGED told,
             state' \in {"INIT", "WAIT_TIMEOUT"} => state \in {"INIT", "WAIT_TIMEOUT"}
      PROVE  SessionStep
  BY <1>t, <1>1
<1>2. ASSUME NEW to, to \notin {None, "begin", "tail"}, pc' = [pc EXCEPT ![t] = to],
             pc[t] \notin {None, "begin", "tail"},
             conn'.open = FALSE, ev' \in {"DISCONNECTED", "CLOSED"}, late' = late
      PROVE  SessionStep
  <2>1. EventInv'
    BY <1>t, <1>2
  <2>2. Session!Lose \/ Session!Report
    BY <1>t, <1>2 DEF Session!Lose, Session!Report
  <2> QED
    BY <2>1, <2>2 DEF Session!Next
<1>3. CASE Begin(t)
  <2>1. \A u \in Tasks : ~Works(u)
    BY <1>3 DEF Begin, None
  <2>2. conn.open = FALSE /\ (ev = "FINISH" \/ late)
    BY <1>t, <2>1
  <2>3. /\ conn' = conn /\ late' = late /\ ev' = "BEGIN"
        /\ pc' = [pc EXCEPT ![t] = "loop"]
    BY <1>3 DEF Begin
  <2>4. EventInv'
    BY <1>t, <2>2, <2>3 DEF None
  <2>5. Session!Begin
    BY <2>2, <2>3 DEF Session!Begin
  <2> QED
    BY <2>4, <2>5 DEF Session!Next
<1>4. CASE Connect(t)
  <2>1. CASE Disconnected(due) /\ conn' = Unconnected
    BY <1>t, <1>2, <1>4, <2>1 DEF Connect, Connects, Body, Disconnected, None
  <2>2. CASE conn' = Connected /\ ev' = "CONNECTED" /\ state' = "CONNECTED"
    <3>1. EventInv'
      BY <1>t, <1>4, <2>2 DEF Connect, Connects, Body, None
    <3>2. Session!Connect
      BY <1>t, <1>4, <2>2 DEF Connect, Connects, Body, None, Session!Connect
    <3> QED
      BY <3>1, <3>2 DEF Session!Next
  <2> QED
    BY <1>4, <2>1, <2>2 DEF Connect, Connects, Abort, Active
<1>5. CASE KeepAlive(t)
  <2>1. CASE Disconnected(due \ {"ping"}) /\ conn' = Unconnected
    BY <1>t, <1>2, <1>5, <2>1 DEF KeepAlive, PingPong, Body, Disconnected, None
  <2>2. CASE conn'.open = conn.open /\ UNCHANGED <<state, ev>>
    BY <1>t, <1>1, <1>5, <2>2 DEF KeepAlive, PingPong, Body, None
  <2> QED
    BY <1>t, <1>5, <2>1, <2>2, PingType DEF KeepAlive, PingPong
<1>6. CASE Retry(t) \/ Echo(t) \/ Pass(t)
  BY <1>1, <1>6 DEF Retry, Echo, Pass, Body, None
<1>7. CASE Wait(t) \/ Sleep(t) \/ Poll(t) \/ Closing(t) \/ Loop(t)
  BY <1>1, <1>7 DEF Wait, Sleep, Poll, Closing, Loop, None
<1>8. CASE Recv(t)
  <2>1. conn'.open = conn.open
    BY <1>t, <1>8, ReadType DEF Recv, Same
  <2> QED
    BY <1>1, <1>8, <2>1 DEF Recv, None
<1>9. CASE Drop(t)
  BY <1>t, <1>2, <1>9 DEF Drop, Abort, Disconnected, None
<1>10. CASE Shut(t)
  <2>1. CASE conn.open /\ ~CloseReconnect
    <3>1. ev = "CONNECTED" /\ conn' = conn /\ ev' = "CLOSED" /\ late' = late
      BY <1>10, <2>1 DEF Shut, None
    <3>2. Session!Closed
      BY <1>t, <2>1, <3>1 DEF Session!Closed
    <3>3. EventInv'
      BY <1>t, <1>10, <2>1, <3>1 DEF Shut, None
    <3> QED
      BY <3>2, <3>3 DEF Session!Next
  <2>2. CASE ~conn.open \/ CloseReconnect
    <3>1. conn'.open = FALSE /\ ev' = "CLOSED" /\ late' = late
      BY <1>t, <1>10, <2>2 DEF Shut
    <3> QED
      BY <1>2, <1>10, <3>1 DEF Shut, None
  <2> QED
    BY <2>1, <2>2
<1>11. CASE Finish(t)
  <2>1. EventInv'
    BY <1>t, <1>11 DEF Finish, Finishes, None
  <2>2. Session!Finish
    BY <1>t, <1>11 DEF Finish, Finishes, None, Session!Finish
  <2> QED
    BY <2>1, <2>2 DEF Session!Next
<1>12. CASE Leave(t)
  BY <1>t, <1>12 DEF Leave, None
<1> QED
  BY <1>3, <1>4, <1>5, <1>6, <1>7, <1>8, <1>9, <1>10, <1>11, <1>12 DEF Step

LEMMA SessionSender ==
  ASSUME TypeInv, LockInv, EventInv, AutoReconnect, NEW s \in Threads, Send(s) \/ SendStep(s)
  PROVE  SessionStep
<1> USE DEF SessionStep, EventInv, Works, Sends, Session!Down, Session!vars, client, callers, told
<1>t. /\ conn \in Connections /\ conn.open \in BOOLEAN /\ late \in BOOLEAN
      /\ Unconnected.open = FALSE
  BY UnconnectedType DEF TypeInv, TypeOK, Connections
<1>1. CASE Send(s) \/ Lock(s) \/ LockTimeout(s) \/ WriteFails(s)
  BY <1>1 DEF Send, Lock, LockTimeout, WriteFails
<1>2. CASE Written(s)
  <2>1. /\ conn' = [conn EXCEPT !.partial = IF left[s] = 1 THEN None ELSE s]
        /\ (IF left[s] = 1 THEN None ELSE s) \in Threads \cup {None}
    BY <1>2 DEF Written, Writes
  <2>2. conn'.open = conn.open
    BY <1>t, <2>1, WriteType
  <2> QED
    BY <1>2, <2>2 DEF Written, Writes
<1>3. CASE CloseSocket(s)
  <2>1. CASE conn' = Unconnected
    <3>1. EventInv'
      BY <1>t, <1>3, <2>1 DEF CloseSocket
    <3>2. conn.open => Session!Lose
      BY <1>t, <1>3, <2>1 DEF CloseSocket, Session!Lose
    <3> QED
      BY <1>t, <1>3, <2>1, <3>1, <3>2 DEF CloseSocket, Session!Next
  <2>2. CASE conn' = conn
    BY <1>3, <2>2 DEF CloseSocket
  <2> QED
    BY <1>3, <2>1, <2>2 DEF CloseSocket
<1>4. CASE TellLoss(s)
  <2>1. /\ ~conn.open /\ conn' = conn /\ pc' = pc
        /\ ev' = "DISCONNECTED" /\ late' = (late \/ ev = "FINISH")
    BY <1>4 DEF TellLoss, Disconnected, LockInv
  <2>2. EventInv'
    BY <1>t, <2>1
  <2>3. Session!Stray \/ Session!Report
    BY <1>t, <2>1 DEF Session!Stray, Session!Report
  <2> QED
    BY <2>2, <2>3 DEF Session!Next
<1> QED
  BY <1>1, <1>2, <1>3, <1>4 DEF SendStep

LEMMA SessionApp ==
  ASSUME TypeInv, TaskInv, EventInv, Prompt, AppStep \/ Call
  PROVE  SessionStep
<1> USE DEF SessionStep, EventInv, Works, Session!Down, Session!vars, client, callers, told,
            shared, Calling
<1>1. CASE Started \/ Closed \/ Stopped \/ CloseSent
  BY <1>1 DEF Started, Closed, Stopped, CloseSent
<1>2. CASE CloseTimeout \/ Stop \/ Destroy \/ DestroyOnExit
  BY <1>2 DEF CloseTimeout, Stop, Destroy, DestroyOnExit, AskToStop
<1>3. ASSUME NEW t \in Tasks, Start(t)
      PROVE  SessionStep
  <2>1. \A u \in Tasks : pc[u] = None
    BY <1>3, NoTask DEF Start, StartAgain
  <2>2. /\ pc \in [Tasks -> Places]
        /\ conn.open \in BOOLEAN /\ Unconnected.open = FALSE
    BY UnconnectedType DEF TypeInv, TypeOK, Connections
  <2>3. conn.open = FALSE
    BY <2>1, <2>2, NoSocket
  <2> QED
    BY <1>3, <2>1, <2>2, <2>3 DEF Start, StartAgain, Goes, None
<1>4. ASSUME NEW c \in {"close", "close forever"}, Close(c)
      PROVE  SessionStep
  BY <1>4 DEF Close
<1> QED
  BY <1>1, <1>2, <1>3, <1>4 DEF AppStep, Call

\* What the events tell is a behaviour of WsSession: a program that only listens
\* knows whether it is connected, and when the session has ended.
THEOREM EventsTellSessions ==
  ASSUME Prompt, AutoReconnect
  PROVE  Spec => SessionSpec
<1>1. Init => EventInv /\ Session!Init
  BY UnconnectedType DEF Init, EventInv, Works, Session!Init
<1>2. TypeInv /\ LockInv /\ TaskInv /\ EventInv /\ [Next]_vars => SessionStep
  <2> SUFFICES ASSUME TypeInv, LockInv, TaskInv, EventInv, [Next]_vars
               PROVE  SessionStep
    OBVIOUS
  <2>1. ASSUME NEW t \in Tasks, Step(t)
        PROVE  SessionStep
    BY <2>1, SessionTask
  <2>2. ASSUME NEW s \in Threads, Send(s) \/ SendStep(s)
        PROVE  SessionStep
    BY <2>2, SessionSender
  <2>3. CASE AppStep \/ Call
    BY <2>3, SessionApp
  <2>4. CASE \/ \E x \in Timers : Expire(x)
             \/ \E f \in Frames : Transmit(f)
             \/ Break
             \/ UNCHANGED vars
    BY <2>4, Others DEF SessionStep, EventInv, Works, Session!Down, Session!vars, told
  <2> QED
    BY <2>1, <2>2, <2>3, <2>4 DEF Next
<1>3. TypeInv /\ [Next]_vars => TypeInv'
  BY TypeStep
<1>4. SessionStep => EventInv' /\ [Session!Next]_(Session!vars)
  BY DEF SessionStep
<1>5. Spec => []TypeInv
  BY TypeInit, <1>3, PTL DEF Spec
<1> QED
  BY Work, <1>1, <1>2, <1>4, <1>5, PTL DEF Spec, SessionSpec, Session!Spec

-----------------------------------------------------------------------------
(* Whoever waits is served *)

\* The task's steps: only its first lines set run, only its last STOPPED_BIT.
LEMMA ServedTask ==
  ASSUME ServedInv, pc \in [Tasks -> Places], run \in BOOLEAN, NEW t \in Tasks, Step(t)
  PROVE  ServedInv'
<1> USE DEF ServedInv, Answers, Goes, client, callers, told, history
<1>1. ASSUME NEW to, to \notin {None, "tail"}, pc' = [pc EXCEPT ![t] = to],
             run' => run, app' = app, missed' = missed
      PROVE  ServedInv'
  BY <1>1
<1>2. ASSUME NEW x, GivesUp(x)
      PROVE  run' => run
  BY <1>2 DEF GivesUp
<1>3. CASE Begin(t)
  <2>1. Answers(t)'
    BY <1>3 DEF Begin, None
  <2>2. app' = "stopping" => "run" \in missed'
    BY <1>3 DEF Begin
  <2> QED
    BY <2>1, <2>2
<1>4. CASE Loop(t)
  BY <1>1, <1>4 DEF Loop, None
<1>5. CASE Connect(t)
  BY <1>1, <1>2, <1>5 DEF Connect, Connects, Body, Abort, Disconnected, None
<1>6. CASE KeepAlive(t)
  BY <1>1, <1>2, <1>6 DEF KeepAlive, PingPong, Body, Disconnected, None
<1>7. CASE Retry(t) \/ Echo(t) \/ Pass(t)
  BY <1>1, <1>7 DEF Retry, Echo, Pass, Body, None
<1>8. CASE Wait(t) \/ Sleep(t) \/ Poll(t) \/ Recv(t) \/ Closing(t)
  BY <1>1, <1>8 DEF Wait, Sleep, Poll, Recv, Closing, None
<1>9. CASE Drop(t)
  BY <1>1, <1>2, <1>9 DEF Drop, Abort, Disconnected, None
<1>10. CASE Shut(t)
  BY <1>1, <1>10 DEF Shut, None
<1>11. CASE Finish(t)
  BY <1>11 DEF Finish, Finishes
<1>12. CASE Leave(t)
  <2>1. /\ pc[t] = "tail" /\ pc' = [pc EXCEPT ![t] = None] /\ UNCHANGED <<run, bits, missed>>
        /\ app' # app => app' = "gone"
    BY <1>12 DEF Leave
  <2>2. \A u \in Tasks : Answers(u) => Answers(u)'
    BY <2>1
  <2> QED
    BY <2>1, <2>2
<1> QED
  BY <1>3, <1>4, <1>5, <1>6, <1>7, <1>8, <1>9, <1>10, <1>11, <1>12 DEF Step

\* A sender that gives a connection up may clear run, and touches no bit.
LEMMA ServedSender ==
  ASSUME ServedInv, run \in BOOLEAN, NEW s \in Threads, Send(s) \/ SendStep(s)
  PROVE  ServedInv'
<1> USE DEF Sends, client, callers, told
<1>1. (run' => run) /\ UNCHANGED <<bits, pc, app, missed>>
  <2>1. CASE TellLoss(s)
    BY <2>1 DEF TellLoss, Disconnected, GivesUp
  <2>2. CASE Send(s) \/ Lock(s) \/ LockTimeout(s) \/ Written(s) \/ WriteFails(s) \/ CloseSocket(s)
    BY <2>2 DEF Send, Lock, LockTimeout, Written, Writes, WriteFails, CloseSocket
  <2> QED
    BY <2>1, <2>2 DEF SendStep
<1> QED
  BY <1>1 DEF ServedInv, Answers

\* start makes a task that will answer; stop, destroy and close clear run.
LEMMA ServedApp ==
  ASSUME ServedInv, pc \in [Tasks -> Places], AppStep \/ Call
  PROVE  ServedInv'
<1> USE DEF ServedInv, Answers, client, callers, told, shared, Calling
<1>1. CASE Started
  BY <1>1 DEF Started
<1>2. CASE Stopped \/ Closed
  BY <1>2 DEF Stopped, Closed
<1>3. CASE CloseSent
  BY <1>3 DEF CloseSent
<1>4. CASE CloseTimeout
  BY <1>4 DEF CloseTimeout, AskToStop
<1>5. ASSUME NEW t \in Tasks, Start(t)
      PROVE  ServedInv'
  <2>1. pc' = [pc EXCEPT ![t] = "begin"] /\ app' = "created"
    BY <1>5 DEF Start, StartAgain, Goes
  <2>2. Answers(t)'
    BY <2>1 DEF None
  <2> QED
    BY <2>1, <2>2
<1>6. CASE Stop
  BY <1>6 DEF Stop, AskToStop
<1>7. CASE Destroy
  BY <1>7 DEF Destroy, AskToStop
<1>8. CASE DestroyOnExit
  BY <1>8 DEF DestroyOnExit
<1>9. ASSUME NEW c \in {"close", "close forever"}, Close(c)
      PROVE  ServedInv'
  BY <1>9 DEF Close
<1> QED
  BY <1>1, <1>2, <1>3, <1>4, <1>5, <1>6, <1>7, <1>8, <1>9 DEF AppStep, Call

\* Whoever waits in stop, destroy or close finds STOPPED_BIT set, or a task that
\* has begun and will find run false, unless start let the task set run behind
\* the wait or cleared the bit of a task that had ended (stop_wait_task,
\* esp_websocket_client_start): for every option and every schedule.
THEOREM WaitersAreServed == Spec => []WaiterIsServed
<1>1. Init => ServedInv
  BY DEF Init, ServedInv
<1>2. TypeInv /\ ServedInv /\ [Next]_vars => ServedInv'
  <2> SUFFICES ASSUME TypeInv, ServedInv, [Next]_vars
               PROVE  ServedInv'
    OBVIOUS
  <2>t. pc \in [Tasks -> Places] /\ run \in BOOLEAN
    BY DEF TypeInv, TypeOK
  <2>1. ASSUME NEW t \in Tasks, Step(t)
        PROVE  ServedInv'
    BY <2>t, <2>1, ServedTask
  <2>2. ASSUME NEW s \in Threads, Send(s) \/ SendStep(s)
        PROVE  ServedInv'
    BY <2>t, <2>2, ServedSender
  <2>3. CASE AppStep \/ Call
    BY <2>t, <2>3, ServedApp
  <2>4. CASE \/ \E x \in Timers : Expire(x)
             \/ \E f \in Frames : Transmit(f)
             \/ Break
             \/ UNCHANGED vars
    BY <2>4, Others DEF ServedInv, Answers, callers, told
  <2> QED
    BY <2>1, <2>2, <2>3, <2>4 DEF Next
<1>3. TypeInv /\ [Next]_vars => TypeInv'
  BY TypeStep
<1>4. Spec => []TypeInv
  BY TypeInit, <1>3, PTL DEF Spec
<1>5. ServedInv => WaiterIsServed
  BY DEF ServedInv, WaiterIsServed
<1> QED
  BY <1>1, <1>2, <1>4, <1>5, PTL DEF Spec
=============================================================================
