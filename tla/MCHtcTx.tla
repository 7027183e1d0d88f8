------------------------------ MODULE MCHtcTx ------------------------------
(* Small instances of HtcTx: two or three packets of one or two credits     *)
(* each, sent by two threads.                                              *)
EXTENDS HtcTx

CONSTANTS p1, p2, p3, s1, s2

\* every packet needs two credits (8 < 12 <= 16)
MCLength == [p \in Packets |-> 12]

\* p3 needs one, so that it can overtake p1 for want of credits
MCMixedLength == [p \in Packets |-> IF p = p3 THEN 4 ELSE 12]

\* the services that are connected in turn: WMI control, with and without an AUTO_PM packet; a
\* non-credit endpoint; HTT, whose EpSendFull keeps.  WMI has no EpSendFull: MCWmiDrop is what HTC
\* offers a credit endpoint with one that drops.
Wmi == [creditFlow |-> TRUE, compact |-> FALSE, sendFull |-> {}, autoPm |-> {},
        runtimePut |-> {}]
Data == [Wmi EXCEPT !.creditFlow = FALSE]
Htt == [Data EXCEPT !.compact = TRUE, !.sendFull = {"keep"}]
MCWmi == {Wmi}
MCWmiDrop == {[Wmi EXCEPT !.sendFull = {"drop"}]}
MCData == {Data}
MCHtt == {Htt}
MCWmiDropAndHtt == MCWmiDrop \cup MCHtt
MCWmiAutoPm == {[Wmi EXCEPT !.autoPm = {p3}]}
MCWmiWithAutoPm == MCWmi \cup MCWmiAutoPm
\* p2 has no answer from the target and is tagged RUNTIME_PUT, p3 is a request it answers
MCWmiAndHtt == MCWmiWithAutoPm \cup {[Htt EXCEPT !.runtimePut = {p2}]}

\* s1 sends p1 and p3, s2 sends p2
MCSenderOf == [p \in Packets |-> IF p = p2 THEN s2 ELSE s1]
=============================================================================
