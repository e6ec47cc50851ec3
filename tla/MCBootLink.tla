---------------------------- MODULE MCBootLink -----------------------------
(***************************************************************************)
(* Instances of BootLink for TLC: a bootloader that answers within 300 ms  *)
(* and erases its flash within 4 s, and one whose mass erase takes longer  *)
(* than the 5 s the code waits.                                            *)
(***************************************************************************)
EXTENDS BootLinkInv

LatencyOf(frame) == IF frame = "global" THEN 38 ELSE 3

InTime    == [f \in Frames |-> LatencyOf(f)]
SlowErase == [InTime EXCEPT !["global"] = 45]
=============================================================================
