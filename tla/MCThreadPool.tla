---------------------------- MODULE MCThreadPool ----------------------------
(* TcThreadPool for TLC, one pool of two members.                          *)
EXTENDS TcThreadPool

OnePoolOfTwo   == [g \in Group |-> 2]
=============================================================================
