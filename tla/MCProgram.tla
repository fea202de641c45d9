----------------------------- MODULE MCProgram -----------------------------
(* TcProgram for TLC: SIGINT and SIGTERM, two init functions in each list. *)
EXTENDS TcProgram

=============================================================================
