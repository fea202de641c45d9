------------------------------- MODULE MCHeap -------------------------------
(* TcHeap for TLC: five items with every choice of two ranks.              *)
EXTENDS TcHeap

MCItem == 1 .. 5
MCRank == 1 .. 2
=============================================================================
