--------------------------- MODULE MCWmiTransport ---------------------------
(* Two ordinary commands against a limit of two, so that the suspend and the *)
(* resume command meet the limit as well; a firmware log event, one event    *)
(* that the tasklet handles and one with no handler.                         *)
EXTENDS WmiTransport, TLC
CONSTANTS a, b, log, other, pause
MCSymmetry == Permutations(Ordinary)
=============================================================================
