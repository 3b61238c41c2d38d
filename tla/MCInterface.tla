---------------------------- MODULE MCInterface -----------------------------
(***************************************************************************)
(* Interface with two threads and an arena that sends a command on each.   *)
(***************************************************************************)
EXTENDS Interface, TLC

CONSTANTS t0, t1

MCArena == <<t0, t1>>
=============================================================================
