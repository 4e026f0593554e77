---------------------------- MODULE MCMsgQueues ----------------------------
(***************************************************************************)
(* MsgQueues for TLC.  Only identifier 0 differs from the others in what   *)
(* the code does with it, so each queue gets 0 or a number of its own.     *)
(***************************************************************************)
EXTENDS MsgQueues

MCIds == [k \in 1..3 |-> {0, k}]

=============================================================================
