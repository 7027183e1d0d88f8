---------------------------- MODULE MCHtcControl ----------------------------
(* Both ways of bringing HTC up, with two services each and an endpoint    *)
(* table that just fits them.                                              *)
EXTENDS HtcControl

CONSTANTS wmi, htt, be, bk, ctrl
=============================================================================
