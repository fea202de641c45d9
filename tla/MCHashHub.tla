----------------------------- MODULE MCHashHub -----------------------------
(* TcHashHub for TLC: a heartbeat every other second.                      *)
EXTENDS TcHashHub

=============================================================================
