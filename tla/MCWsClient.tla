---------------------------- MODULE MCWsClient -----------------------------
(* WsClient on small sets of tasks and senders, alike within each set.  *)
EXTENDS WsClient, TLC

CONSTANTS w1, w2,   \* tasks
          s1, s2    \* senders

Symmetry == Permutations(Tasks) \cup Permutations(Senders)
=============================================================================
