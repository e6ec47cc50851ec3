----------------------------- MODULE WsClient ------------------------------
(***************************************************************************)
(* esp_websocket_client.c as the firmware builds it: no separate lock for  *)
(* sending, no dynamic buffers, ESP-IDF 5.4 (no redirects).  Its task      *)
(* connects, pings, reads and reconnects; one thread, App, calls start,    *)
(* stop, close and destroy; others send messages.  They share the client's *)
(* fields, its event group and its mutex.                                  *)
(*                                                                         *)
(* A time-out is a flag in "due" that may be raised at any moment at which *)
(* its clock counts.  What the task does under the mutex is one step, a    *)
(* sender's time inside esp_transport_ws_send_raw and inside               *)
(* abort_connection is not.  An event handler that calls back into the     *)
(* client is left out.                                                     *)
(***************************************************************************)
EXTENDS Naturals, Sequences

CONSTANTS Tasks,          \* websocket tasks that may exist
          Senders,        \* threads that call send_text, ws_client_send
          App,            \* the thread that starts, stops, closes, destroys
          Frags,          \* buffers one of their messages takes
          Calls,          \* what App may call
          Frames,         \* what the server may send: "data" is any other frame
          AutoReconnect,  \* config: auto_reconnect
          CloseReconnect, \* config: close_reconnect
          Prompt,         \* a task begins, and ends, before its callers run on
          MaxInbox,       \* bound: frames of the server not yet read
          MaxStarts       \* bound: calls of start in a behaviour

Threads == Senders \cup {App}
Free    == "free"         \* the mutex
None    == "none"

Timers == {"ping", "pong", "reconnect"}

\* websocket_client_state_t; ESP_WS_CLIENT_STATE_CHECK asks for an active one.
Active == {"INIT", "CONNECTED", "WAIT_TIMEOUT", "CLOSING"}
States == Active \cup {"UNKNOW"}

ASSUME WsAssumption ==
  /\ App \notin Senders /\ Free \notin Threads /\ None \notin Threads
  /\ Frags \in Nat \ {0} /\ MaxInbox \in Nat /\ MaxStarts \in Nat
  /\ Calls \subseteq {"start", "stop", "close", "close forever", "destroy", "exit"}
  /\ Frames \subseteq {"data", "pong", "close"}
  /\ AutoReconnect \in BOOLEAN /\ CloseReconnect \in BOOLEAN /\ Prompt \in BOOLEAN

VARIABLES state, run, bits, wait_for_pong_resp,
          due,            \* the time-outs that have run out
          lock,           \* the thread that holds the mutex between its steps
          pc,             \* where each task is
          snd, left,      \* where each sender is, and the buffers it has to send
          app, then,      \* where App is, and what it does when its wait ends
          conn,           \* the transport's connection
          ev,             \* the last event of the session dispatched
          late,           \* history: a sender told a loss after the end
          missed,         \* history: how start undid what ends a wait (see Begin, Started)
          starts

client == <<state, run, bits, wait_for_pong_resp, due>>
callers == <<snd, left, app, then, starts>>
history == <<late, missed>>
told == <<ev, late, missed>>
vars == <<client, lock, pc, conn, told, callers>>

\* Nothing is connected, nothing buffered.  "pinged" tells that a PING was sent
\* on this connection, "partial" whose message is incomplete, "over" that the
\* server has sent its CLOSE.
Unconnected == [open |-> FALSE, broken |-> FALSE, inbox |-> <<>>, over |-> FALSE,
                pinged |-> FALSE, partial |-> None]
Connected == [Unconnected EXCEPT !.open = TRUE]
Connections == [open: BOOLEAN, broken: BOOLEAN, inbox: Seq(Frames), over: BOOLEAN,
                pinged: BOOLEAN, partial: Threads \cup {None}]

Init == /\ state = "UNKNOW" /\ run = FALSE /\ bits = {"STOPPED"}
        /\ wait_for_pong_resp = FALSE /\ due = {}
        /\ lock = Free /\ pc = [t \in Tasks |-> None]
        /\ snd = [s \in Threads |-> "idle"] /\ left = [s \in Threads |-> 0]
        /\ app = "idle" /\ then = "return" /\ conn = Unconnected
        /\ ev = "FINISH" /\ late = FALSE /\ missed = {} /\ starts = 0

Goes(t, from, to) == pc[t] = from /\ pc' = [pc EXCEPT ![t] = to]

\* A task's first lines, and its last ones from where it has left its loop.
Places  == {None, "begin", "loop", "body", "wait", "sleep", "poll", "recv", "closed",
            "drop", "shut", "finish", "tail"}
Passing == {"begin", "finish", "tail"}

\* It has STOPPED_BIT still to set.
Answers(t) == pc[t] \notin {None, "tail"}

\* Else its callers run side by side with it.
CallerRuns == Prompt => \A t \in Tasks : pc[t] \notin Passing

\* What abort_connection does once the transport is closed, ...
GivesUp(ran_out) ==
  /\ run' = (run /\ AutoReconnect)
  /\ state' = IF AutoReconnect THEN "WAIT_TIMEOUT" ELSE "UNKNOW"
  /\ due' = IF AutoReconnect THEN ran_out \ {"reconnect"} ELSE ran_out

\* ... and whom it tells.
Disconnected(ran_out) == GivesUp(ran_out) /\ ev' = "DISCONNECTED"

\* Mutant: the loss is not told.
AbortUntold == IF state \in Active
               THEN GivesUp(due) /\ conn' = Unconnected /\ UNCHANGED ev
               ELSE UNCHANGED <<run, state, due, ev, conn>>

\* abort_connection by the task, under the mutex.
Abort == IF state \in Active
         THEN Disconnected(due) /\ conn' = Unconnected
         ELSE UNCHANGED <<run, state, due, ev, conn>>

Session == INSTANCE WsSession WITH up <- conn.open, lost <- late

-----------------------------------------------------------------------------
(* The task *)

\* run is set whether or not stop has cleared it since start.
Begin(t) == /\ Goes(t, "begin", "loop")
            /\ run' = TRUE /\ state' = "INIT" /\ ev' = "BEGIN"
            /\ bits' = bits \ {"STOPPED", "CLOSE_SENT"}
            /\ missed' = IF app = "stopping" THEN missed \cup {"run"} ELSE missed
            /\ UNCHANGED <<wait_for_pong_resp, due, lock, conn, late, callers>>

\* Mutant: the loop does not look at run.
LoopForever(t) == /\ Goes(t, "loop", "body")
                  /\ UNCHANGED <<client, lock, callers, conn, told>>

Loop(t) == /\ Goes(t, "loop", IF run THEN "body" ELSE "finish")
           /\ UNCHANGED <<client, lock, conn, told, callers>>

Body(t) == lock = Free /\ Goes(t, "body", "wait")

Connects(t, awaits) ==
  /\ Body(t) /\ state = "INIT"
  /\ \/ /\ state' = "CONNECTED" /\ wait_for_pong_resp' = awaits
        /\ conn' = Connected /\ ev' = "CONNECTED"
        /\ UNCHANGED <<run, due>>
     \/ Abort /\ UNCHANGED wait_for_pong_resp
  /\ UNCHANGED <<bits, lock, history, callers>>

\* Mutant: a PONG awaited on the last connection is awaited on this one.
ConnectAwaiting(t) == Connects(t, wait_for_pong_resp)

Connect(t) == Connects(t, FALSE)

\* A PING when it is time, and no answer to an earlier one for too long.  The
\* clock of the answer starts with a PING sent while none is awaited.
PingPong(t, starts_clock) ==
  LET pings == "ping" \in due
      asks  == pings /\ starts_clock
      lost  == wait_for_pong_resp /\ "pong" \in due /\ ~asks
  IN /\ Body(t) /\ state = "CONNECTED" /\ "CLOSE_SENT" \notin bits
     /\ wait_for_pong_resp' = (wait_for_pong_resp \/ asks)
     /\ IF lost
        THEN Disconnected(due \ {"ping"}) /\ conn' = Unconnected
        ELSE /\ due' = due \ ({"ping"} \cup IF asks THEN {"pong"} ELSE {})
             /\ conn' = [conn EXCEPT !.pinged = @ \/ pings]
             /\ UNCHANGED <<run, state, ev>>
     /\ UNCHANGED <<bits, lock, history, callers>>

\* Mutant: every PING starts the clock of its answer anew.
KeepAliveRestarts(t) == PingPong(t, TRUE)

KeepAlive(t) == PingPong(t, ~wait_for_pong_resp)

Retry(t) == /\ Body(t) /\ state = "WAIT_TIMEOUT" /\ "reconnect" \in due
            /\ state' = "INIT" /\ due' = due \ {"reconnect"}
            /\ UNCHANGED <<run, bits, wait_for_pong_resp, lock, conn, told, callers>>

\* The server began to close: its CLOSE is echoed.
Echo(t) == /\ Body(t) /\ state = "CLOSING" /\ "CLOSE_SENT" \notin bits
           /\ bits' = bits \cup {"CLOSE_SENT"}
           /\ UNCHANGED <<state, run, wait_for_pong_resp, due, lock, conn, told, callers>>

\* Every other pass through the switch changes nothing.
Pass(t) == /\ Body(t)
           /\ \/ state \in {"CONNECTED", "CLOSING"} /\ "CLOSE_SENT" \in bits
              \/ state = "WAIT_TIMEOUT" /\ "reconnect" \notin due
              \/ state = "UNKNOW"
           /\ UNCHANGED <<client, lock, conn, told, callers>>

Wait(t) == /\ \/ state = "CONNECTED" /\ Goes(t, "wait", "poll")
              \/ state = "WAIT_TIMEOUT" /\ Goes(t, "wait", "sleep")
              \/ state = "CLOSING" /\ "CLOSE_SENT" \in bits /\ Goes(t, "wait", "shut")
              \/ state = "CLOSING" /\ "CLOSE_SENT" \notin bits /\ Goes(t, "wait", "loop")
              \/ state \in {"INIT", "UNKNOW"} /\ Goes(t, "wait", "loop")
           /\ UNCHANGED <<client, lock, conn, told, callers>>

\* Half the reconnect time passes, or REQUESTED_STOP_BIT is set.
Sleep(t) == /\ Goes(t, "sleep", "loop")
            /\ UNCHANGED <<client, lock, conn, told, callers>>

\* A second passes, something can be read, or the socket fails.
Poll(t) == /\ \/ conn.inbox = <<>> /\ ~conn.broken /\ conn.open /\ Goes(t, "poll", "loop")
              \/ conn.inbox # <<>> /\ Goes(t, "poll", "recv")
              \/ (conn.broken \/ ~conn.open) /\ Goes(t, "poll", "drop")
           /\ UNCHANGED <<client, lock, conn, told, callers>>

\* recv does not hold the mutex, and the socket may have been closed meanwhile.
\* The PONG it writes is a control frame, no part of a message: conn is as before.
Recv(t) ==
  /\ \/ /\ conn.inbox # <<>>
        /\ Goes(t, "recv", IF Head(conn.inbox) = "close" THEN "closed" ELSE "loop")
        /\ wait_for_pong_resp' = (wait_for_pong_resp /\ Head(conn.inbox) # "pong")
        /\ conn' = [conn EXCEPT !.inbox = Tail(@)]
     \/ /\ (conn.broken \/ ~conn.open) /\ Goes(t, "recv", "drop")
        /\ UNCHANGED <<wait_for_pong_resp, conn>>
  /\ UNCHANGED <<state, run, bits, due, lock, told, callers>>

Closing(t) == /\ Goes(t, "closed", "loop") /\ state' = "CLOSING"
              /\ UNCHANGED <<run, bits, wait_for_pong_resp, due, lock, conn, told, callers>>

Drop(t) == /\ lock = Free /\ Goes(t, "drop", "loop") /\ Abort
           /\ UNCHANGED <<bits, wait_for_pong_resp, lock, history, callers>>

\* The server had its second to close the connection.
Shut(t) ==
  /\ ev' = "CLOSED"
  /\ \/ /\ CloseReconnect /\ lock = Free /\ Goes(t, "shut", "loop")
        /\ state' = "WAIT_TIMEOUT" /\ conn' = Unconnected
        /\ due' = due \ {"reconnect"} /\ bits' = bits \ {"STOPPED", "CLOSE_SENT"}
        /\ UNCHANGED run
     \/ /\ ~CloseReconnect /\ Goes(t, "shut", "finish")
        /\ run' = FALSE /\ state' = "UNKNOW"
        /\ UNCHANGED <<bits, due, conn>>
  /\ UNCHANGED <<wait_for_pong_resp, lock, history, callers>>

Finishes(t, socket) ==
  /\ Goes(t, "finish", "tail")
  /\ ev' = "FINISH" /\ conn' = socket /\ bits' = bits \cup {"STOPPED"}
  /\ UNCHANGED <<state, run, wait_for_pong_resp, due, lock, history, callers>>

\* Mutant: the socket stays open.
FinishOpen(t) == Finishes(t, conn)

Finish(t) == Finishes(t, Unconnected)

\* What the task still does with the client after STOPPED_BIT is set.
Leave(t) == /\ Goes(t, "tail", None)
            /\ state' = "UNKNOW"
            /\ app' = IF app = "left" THEN "gone" ELSE app
            /\ UNCHANGED <<run, bits, wait_for_pong_resp, due, lock, conn, told, snd, left, then, starts>>

Step(t) == \/ Begin(t) \/ Loop(t) \/ Connect(t) \/ KeepAlive(t) \/ Retry(t) \/ Echo(t)
           \/ Pass(t) \/ Wait(t) \/ Sleep(t) \/ Poll(t) \/ Recv(t)
           \/ Closing(t) \/ Drop(t) \/ Shut(t) \/ Finish(t) \/ Leave(t)

-----------------------------------------------------------------------------
(* Sending: send_with_exact_opcode, by a sender or by App for a CLOSE *)

Sends(s, from, to) == CallerRuns /\ snd[s] = from /\ snd' = [snd EXCEPT ![s] = to]

\* is_connected is asked before the mutex is taken.
Send(s) == /\ s \in Senders /\ app # "gone" /\ state = "CONNECTED"
           /\ Sends(s, "idle", "lock") /\ left' = [left EXCEPT ![s] = Frags]
           /\ UNCHANGED <<client, lock, pc, conn, told, app, then, starts>>

\* Mutant: the mutex is not taken.
LockFree(s) == /\ lock = Free /\ Sends(s, "lock", "write")
               /\ UNCHANGED <<client, lock, pc, conn, told, left, app, then, starts>>

Lock(s) == /\ lock = Free /\ Sends(s, "lock", "write") /\ lock' = s
           /\ UNCHANGED <<client, pc, conn, told, left, app, then, starts>>

\* App waits for the mutex for ever.
LockTimeout(s) == /\ s \in Senders /\ Sends(s, "lock", "idle")
                  /\ UNCHANGED <<client, lock, pc, conn, told, left, app, then, starts>>

Writes(s, last) ==
  /\ conn.open /\ Sends(s, "write", IF left[s] = last THEN "idle" ELSE "write")
  /\ left' = [left EXCEPT ![s] = @ - 1]
  /\ lock' = IF left[s] = last THEN Free ELSE lock
  /\ conn' = [conn EXCEPT !.partial = IF left[s] = last THEN None ELSE s]
  /\ UNCHANGED <<client, pc, told, app, then, starts>>

\* Mutant: one buffer more than the message has.
WrittenPastEnd(s) == Writes(s, 0)

Written(s) == Writes(s, 1)

WriteFails(s) == /\ Sends(s, "write", "abort")
                 /\ UNCHANGED <<client, lock, pc, conn, told, left, app, then, starts>>

\* abort_connection, by a sender: its look at the state and the close, ...
CloseSocket(s) ==
  /\ Sends(s, "abort", IF state \in Active THEN "aborting" ELSE "idle")
  /\ IF state \in Active THEN conn' = Unconnected /\ UNCHANGED lock
                         ELSE lock' = Free /\ UNCHANGED conn
  /\ UNCHANGED <<client, pc, told, left, app, then, starts>>

\* ... and what it makes of it.
TellLoss(s) == /\ Sends(s, "aborting", "idle") /\ lock' = Free /\ Disconnected(due)
               /\ late' = (late \/ ev = "FINISH")
               /\ UNCHANGED <<bits, wait_for_pong_resp, pc, conn, missed, left, app, then, starts>>

SendStep(s) == Lock(s) \/ LockTimeout(s) \/ Written(s) \/ WriteFails(s)
               \/ CloseSocket(s) \/ TellLoss(s)

-----------------------------------------------------------------------------
(* Start, stop, close and destroy *)

\* What each App action leaves alone.
shared == <<wait_for_pong_resp, due, lock, conn, told>>

Calling(call) == CallerRuns /\ app = "idle" /\ call \in Calls

\* Mutant: start does not ask whether the client has started.
StartAgain(t) == /\ Calling("start") /\ starts < MaxStarts
                 /\ Goes(t, None, "begin") /\ app' = "created" /\ starts' = starts + 1
                 /\ conn' = Unconnected /\ missed' = {}
                 /\ UNCHANGED <<client, lock, ev, late, snd, left, then>>

Start(t) == state \notin Active /\ StartAgain(t)

\* start clears the bits after it has created the task, which may be gone again.
Started == /\ CallerRuns /\ app = "created" /\ app' = "idle"
           /\ bits' = bits \ {"STOPPED", "CLOSE_SENT", "REQUESTED_STOP"}
           /\ missed' = IF \E t \in Tasks : Answers(t) THEN missed ELSE missed \cup {"bit"}
           /\ UNCHANGED <<state, run, wait_for_pong_resp, due, lock, conn, ev, late,
                          pc, snd, left, then, starts>>

\* Mutant: only the bit asks, which shortens a sleep but does not end the loop.
AskByBit(next) == /\ bits' = bits \cup {"REQUESTED_STOP"} /\ UNCHANGED run
                  /\ app' = "stopping" /\ then' = next

\* stop_wait_task up to its wait.
AskToStop(next) == /\ run' = FALSE /\ bits' = bits \cup {"REQUESTED_STOP"}
                   /\ app' = "stopping" /\ then' = next

Stop == /\ Calling("stop") /\ "STOPPED" \notin bits /\ AskToStop("return")
        /\ UNCHANGED <<state, shared, pc, snd, left, starts>>

Destroy == /\ Calling("destroy") /\ \A s \in Senders : snd[s] = "idle"
           /\ IF "STOPPED" \in bits THEN app' = "gone" /\ UNCHANGED <<run, bits, then>>
                                    ELSE AskToStop("free")
           /\ UNCHANGED <<state, shared, pc, snd, left, starts>>

\* The end of the wait, and of close after its time-out.
Stopped == /\ CallerRuns /\ app = "stopping" /\ "STOPPED" \in bits
           /\ state' = "UNKNOW" /\ app' = IF then = "free" THEN "gone" ELSE "idle"
           /\ UNCHANGED <<run, bits, shared, pc, snd, left, then, starts>>

DestroyOnExit == /\ Calling("exit") /\ app' = "left"
                 /\ UNCHANGED <<client, lock, conn, told, pc, snd, left, then, starts>>

\* close sends one CLOSE frame if the client is connected, then sets the bit.
Close(call) ==
  /\ Calling(call) /\ run
  /\ app' = "sending" /\ then' = IF call = "close" THEN "return" ELSE "for ever"
  /\ snd' = [snd EXCEPT ![App] = IF state = "CONNECTED" THEN "lock" ELSE "idle"]
  /\ left' = [left EXCEPT ![App] = 1]
  /\ UNCHANGED <<client, lock, conn, told, pc, starts>>

CloseSent == /\ CallerRuns /\ app = "sending" /\ snd[App] = "idle"
             /\ app' = "closing" /\ bits' = bits \cup {"CLOSE_SENT"}
             /\ UNCHANGED <<state, run, shared, pc, snd, left, then, starts>>

Closed == /\ CallerRuns /\ app = "closing" /\ "STOPPED" \in bits /\ app' = "idle"
          /\ UNCHANGED <<client, lock, conn, told, pc, snd, left, then, starts>>

CloseTimeout == /\ CallerRuns /\ app = "closing" /\ then = "return" /\ "STOPPED" \notin bits
                /\ AskToStop("return")
                /\ UNCHANGED <<state, shared, pc, snd, left, starts>>

AppStep == Started \/ Stopped \/ CloseSent \/ Closed \/ CloseTimeout
Call == \/ \E t \in Tasks : Start(t)
        \/ Stop \/ Destroy \/ DestroyOnExit
        \/ \E c \in {"close", "close forever"} : Close(c)

-----------------------------------------------------------------------------
(* Time and the server *)

\* A clock counts while the task looks at it.
Counts(x) == \/ x = "ping" /\ state = "CONNECTED"
             \/ x = "pong" /\ wait_for_pong_resp
             \/ x = "reconnect" /\ state = "WAIT_TIMEOUT"

Expire(x) == /\ Counts(x) /\ x \notin due /\ due' = due \cup {x}
             /\ UNCHANGED <<state, run, bits, wait_for_pong_resp, lock, pc, conn, told, callers>>

Transmit(f) == /\ f \in Frames /\ conn.open /\ ~conn.broken /\ ~conn.over
               /\ Len(conn.inbox) < MaxInbox
               /\ conn' = [conn EXCEPT !.inbox = Append(@, f), !.over = f = "close"]
               /\ UNCHANGED <<client, lock, pc, told, callers>>

Break == /\ conn.open /\ ~conn.broken /\ conn' = [conn EXCEPT !.broken = TRUE]
         /\ UNCHANGED <<client, lock, pc, told, callers>>

Next == \/ \E t \in Tasks : Step(t)
        \/ \E s \in Threads : Send(s) \/ SendStep(s)
        \/ AppStep \/ Call
        \/ \E x \in Timers : Expire(x)
        \/ \E f \in Frames : Transmit(f)
        \/ Break

Spec == Init /\ [][Next]_vars

\* The scheduler runs every thread that can run, hands the mutex to whoever has
\* waited longest, and time passes.  Nothing is asked of the server, of the
\* network, or of what App and the senders call.
FairSpec == /\ Spec
            /\ \A t \in Tasks : SF_vars(Step(t))
            /\ \A s \in Threads : SF_vars(SendStep(s))
            /\ SF_vars(AppStep)
            /\ \A x \in Timers : WF_vars(Expire(x))

-----------------------------------------------------------------------------
(* Properties *)

TypeOK ==
  /\ state \in States /\ run \in BOOLEAN /\ wait_for_pong_resp \in BOOLEAN
  /\ bits \subseteq {"STOPPED", "CLOSE_SENT", "REQUESTED_STOP"} /\ due \subseteq Timers
  /\ lock \in Threads \cup {Free}
  /\ pc \in [Tasks -> Places]
  /\ snd \in [Threads -> {"idle", "lock", "write", "abort", "aborting"}]
  /\ left \in [Threads -> Nat]
  /\ app \in {"idle", "created", "stopping", "sending", "closing", "left", "gone"}
  /\ then \in {"return", "free", "for ever"}
  /\ conn \in Connections
  /\ ev \in Session!Events /\ late \in BOOLEAN /\ missed \subseteq {"run", "bit"}
  /\ starts \in 0..MaxStarts

Works(t) == pc[t] \notin {None, "begin", "tail"}

\* A message that takes several buffers reaches the server whole or its
\* connection ends: while it is incomplete its sender has the mutex, so no other
\* sender writes into it and the task does not connect anew.  (The PONG that recv
\* sends without the mutex may come between two buffers: WebSocket allows a control
\* frame there, and it is not a write of conn here.)
WholeMessages == conn.partial # None => lock = conn.partial

\* A client that has stopped, by any path, has closed its socket.
StoppedMeansClosed == "STOPPED" \in bits => ~conn.open

\* A connection is only given up for a missing PONG if it was sent a PING:
\* what was awaited on an earlier one does not count.
OnlyAskedIsAwaited == wait_for_pong_resp /\ conn.open => conn.pinged

\* "The client has started": start refuses while a task exists, so that no two
\* tasks work on one client.
OneTask == \A t, u \in Tasks : pc[t] # None /\ pc[u] # None => t = u

\* Whoever waits in stop, destroy or a close that timed out has been answered or
\* has a task that will answer, and finds run false: whatever the options, the
\* order of calls and the schedule, only the two races of start prevent it
\* (esp_websocket_client.c:1059, 1290; stop_wait_task).
WaiterIsServed ==
  app = "stopping" /\ missed = {} => \/ "STOPPED" \in bits
                                     \/ ~run /\ \E t \in Tasks : Answers(t)

\* stop, destroy and a close that has a time-out return, ...
StopReturns == app = "stopping" ~> app # "stopping"

\* ... unless one of these races has hit the wait.
ServedReturns == app = "stopping" ~> app # "stopping" \/ missed # {}

\* A server that no longer answers is given up.
SilenceEnds == state = "CONNECTED" /\ wait_for_pong_resp /\ "CLOSE_SENT" \notin bits
               ~> ~wait_for_pong_resp \/ ~conn.open \/ "CLOSE_SENT" \in bits

\* "Destroy the WebSocket connection and free all resources": nobody works on a
\* client that was freed.  The task is not done with it when it sets the bit that
\* destroy waits for (esp_websocket_client.c:482, 1259-1264; run WsDestroyEarly).
DestroyWaits == app = "gone" => \A t \in Tasks : pc[t] = None

\* The events tell the sessions of WsSession.
SessionSpec == Session!Spec

-----------------------------------------------------------------------------
(* What makes the invariants inductive *)

\* A message under way has buffers left.
LeftInv == \A s \in Threads : snd[s] \in {"lock", "write"} => left[s] # 0

\* Who has the mutex, and that a message is only incomplete on an open socket.
LockInv ==
  /\ WholeMessages
  /\ \A s \in Threads : lock = s <=> snd[s] \in {"write", "abort", "aborting"}
  /\ \A s \in Threads : snd[s] = "aborting" => ~conn.open
  /\ conn.partial # None => conn.open
  /\ app # "sending" => snd[App] = "idle"

\* With Prompt and AutoReconnect: a task at work has an active state, and only
\* one at work has the client's socket open or finds STOPPED_BIT clear
\* (esp_websocket_client_task, start).
TaskInv ==
  /\ OneTask
  /\ \A t \in Tasks : Works(t) /\ pc[t] # "finish" => state \in Active
  /\ "STOPPED" \in bits => \A t \in Tasks : ~Works(t)
  /\ conn.open => \E t \in Tasks : Works(t)

\* STOPPED_BIT is set or a task will set it, and run stays cleared, but for what
\* start undid; for one task or more.
ServedInv ==
  /\ "STOPPED" \notin bits /\ "bit" \notin missed => \E t \in Tasks : Answers(t)
  /\ app = "stopping" /\ run => "run" \in missed

\* What the last event says of the task and of the socket.
EventInv ==
  /\ (\E t \in Tasks : Works(t)) => ev # "FINISH"
  /\ ev # "FINISH" => late \/ \E t \in Tasks : Works(t)
  /\ (\E t \in Tasks : Works(t)) /\ state \in {"INIT", "WAIT_TIMEOUT"} => Session!Down
  /\ conn.open => ev = "CONNECTED" \/ \E t \in Tasks : pc[t] = "finish"
=============================================================================
