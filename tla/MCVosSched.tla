---------------------------- MODULE MCVosSched ----------------------------
(* Two of the five queues of the MC thread, one message wrapper and one    *)
(* packet, one poster per thread and one entry point besides sleep.        *)
EXTENDS VosSched

CONSTANTS w1, w2, k1, app

MCQueues == <<"sysMcMq", "peMcMq">>
=============================================================================
