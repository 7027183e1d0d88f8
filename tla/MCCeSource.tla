----------------------------- MODULE MCCeSource -----------------------------
(* A ring of four entries, lists of one or two fragments.                  *)
EXTENDS CeSource

CONSTANTS s1, s2, p1
=============================================================================
