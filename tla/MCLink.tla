------------------------------- MODULE MCLink -------------------------------
(* TcLink for TLC: links that get the same socket number.                  *)
EXTENDS TcLink, TLC

Interchangeable == Permutations(Link) \cup Permutations(Packet) \cup Permutations(Sender)
=============================================================================
