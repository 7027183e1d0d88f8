---------------------------- MODULE TransferFifo ----------------------------
(***************************************************************************)
(* What the source ring of a copy engine promises to HIF: transfers are    *)
(* accepted into a bounded queue, the target copies them in order, and     *)
(* each is handed back once, in order, and not before it has been copied.  *)
(* Only when the device has been stopped are the rest handed back uncopied.*)
(***************************************************************************)
EXTENDS Integers, Sequences

CONSTANT Capacity

VARIABLES
    pending,   \* accepted and not yet handed back
    copied,    \* how many of them, from the head, the target has copied
    finished,  \* handed back
    halted

fifoVars == <<pending, copied, finished, halted>>

FifoInit == pending = <<>> /\ copied = 0 /\ finished = <<>> /\ halted = FALSE

Accept ==
    /\ ~halted /\ Len(pending) < Capacity
    /\ pending' = Append(pending, Len(finished) + Len(pending) + 1)
    /\ UNCHANGED <<copied, finished, halted>>

Copied ==
    /\ ~halted /\ copied < Len(pending)
    /\ copied' = copied + 1
    /\ UNCHANGED <<pending, finished, halted>>

HandBack ==
    /\ pending # <<>>
    /\ halted \/ copied > 0
    /\ pending' = Tail(pending) /\ finished' = Append(finished, Head(pending))
    /\ copied' = IF halted THEN 0 ELSE copied - 1
    /\ UNCHANGED halted

Halt ==
    /\ ~halted
    /\ halted' = TRUE /\ copied' = 0
    /\ UNCHANGED <<pending, finished>>

FifoSpec == FifoInit /\ [][Accept \/ Copied \/ HandBack \/ Halt]_fifoVars
=============================================================================
