-------------------------- MODULE MCHifCompletion --------------------------
(* One send and one receive pipe, reaped by one tasklet or by one context  *)
(* each, with a third context for the firmware.                            *)
EXTENDS HifCompletion

CONSTANTS tx, rx, c1, c2, c3

\* one interrupt handler per copy engine
MCServer == [p \in Pipes |-> IF p = tx THEN c1 ELSE c2]
=============================================================================
