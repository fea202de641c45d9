---------------------------- MODULE MCHeapTimer ----------------------------
(* TcHeapTimer for TLC: three timers, of one and of two seconds.           *)
EXTENDS TcHeapTimer

MCTimer == 1 .. 3
MCSec   == <<1, 1, 2>>
MCOnce  == {1}
=============================================================================
