----------------------------- MODULE MCThreads -----------------------------
(* A small instance of Threads. *)
EXTENDS Threads

CONSTANTS w1, w2
=============================================================================
