----------------------------- MODULE MCTimerList -----------------------------
(* TcTimerList for TLC: the links and batches that meet in one second.      *)
EXTENDS TcTimerList

MCBatch == 1 .. 2
=============================================================================
