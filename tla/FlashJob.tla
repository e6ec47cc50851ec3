----------------------------- MODULE FlashJob ------------------------------
(***************************************************************************)
(* What flashing the STM32 means, of which OtaGateway shows one side and   *)
(* BootLink the other: a job is opened by an erase, programs the file's    *)
(* blocks each once and in order, and ends when it has programmed them     *)
(* all.  A job given up leaves the flash as it is; nothing takes it up     *)
(* again but another erase, and only then may the file be another one.     *)
(***************************************************************************)
EXTENDS Naturals

VARIABLES open,    \* the flash is erased and its blocks are being programmed
          blocks,  \* the blocks programmed since the last erase
          total,   \* the blocks of the file
          whole    \* the last job came to its end

vars == <<open, blocks, total, whole>>

Init == open = FALSE /\ blocks \in Nat /\ total \in Nat /\ whole \in BOOLEAN

\* Readout unprotect erases a protected part before the job's own erase.
Wipe    == ~open /\ blocks' = 0 /\ whole' = FALSE /\ UNCHANGED <<open, total>>
Erase   == open' = TRUE /\ blocks' = 0 /\ whole' = FALSE /\ UNCHANGED total
Program == open /\ blocks < total /\ blocks' = blocks + 1 /\ UNCHANGED <<open, total, whole>>
Finish  == /\ open /\ blocks = total
           /\ open' = FALSE /\ whole' = TRUE /\ UNCHANGED <<blocks, total>>
GiveUp  == open /\ open' = FALSE /\ UNCHANGED <<blocks, total, whole>>
NewFile == ~open /\ total' \in Nat /\ UNCHANGED <<open, blocks, whole>>

Next == Wipe \/ Erase \/ Program \/ Finish \/ GiveUp \/ NewFile

Spec == Init /\ [][Next]_vars
=============================================================================
