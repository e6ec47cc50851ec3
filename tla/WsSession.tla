----------------------------- MODULE WsSession -----------------------------
(***************************************************************************)
(* What the events of esp_websocket_client.h promise a program that only   *)
(* listens: a session is opened by BEGIN and ended by FINISH; between them *)
(* the client connects, CONNECTED is followed by DISCONNECTED or CLOSED    *)
(* before the client tries again, and nothing follows FINISH before the    *)
(* next BEGIN, until a sender that was about to tell of a loss when the    *)
(* session ended does so.                                                  *)
(***************************************************************************)
VARIABLES up,   \* the socket to the server is open
          ev,   \* the last event of the session
          lost  \* a loss was told after the end of a session

vars == <<up, ev, lost>>

Events == {"BEGIN", "CONNECTED", "DISCONNECTED", "CLOSED", "FINISH"}

Down == ~up /\ ev \in {"BEGIN", "DISCONNECTED", "CLOSED"}

Init == ~up /\ ev = "FINISH" /\ lost = FALSE

Begin  == /\ ~up /\ (ev = "FINISH" \/ lost)
          /\ ev' = "BEGIN" /\ up' = FALSE /\ UNCHANGED lost

Connect == Down /\ up' = TRUE /\ ev' = "CONNECTED" /\ UNCHANGED lost

\* An attempt that fails, or a loss that is told (or told again) after the
\* socket was closed.
Report == /\ ~up /\ ev # "FINISH"
          /\ ev' \in {"DISCONNECTED", "CLOSED"} /\ up' = FALSE /\ UNCHANGED lost

\* The socket is closed and the loss told at once, or the loss told later.
Lose == up /\ up' = FALSE /\ ev' \in {ev, "DISCONNECTED", "CLOSED"} /\ UNCHANGED lost

\* The server has closed; the socket goes with the session.
Closed == up /\ ev = "CONNECTED" /\ ev' = "CLOSED" /\ up' = TRUE /\ UNCHANGED lost

Finish == (ev # "FINISH" \/ lost) /\ ev' = "FINISH" /\ up' = FALSE /\ UNCHANGED lost

Stray == ev = "FINISH" /\ ~up /\ ev' = "DISCONNECTED" /\ up' = FALSE /\ lost' = TRUE

Next == Begin \/ Connect \/ Report \/ Lose \/ Closed \/ Finish \/ Stray

Spec == Init /\ [][Next]_vars
=============================================================================
