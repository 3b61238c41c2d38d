--------------------------------- MODULE Log ---------------------------------
(***************************************************************************)
(* What the journal promises: a log that records are appended to, and that *)
(* neither a crash nor a restart changes.                                  *)
(***************************************************************************)
EXTENDS Sequences

CONSTANT Entry   \* what may be recorded
VARIABLE log

LInit == log = <<>>
Write == \E e \in Entry : log' = Append(log, e)
LSpec == LInit /\ [][Write]_log
=============================================================================
