----------------------------- MODULE MCRuntime -----------------------------
(***************************************************************************)
(* An arena for Runtime: the global adapter a serves the main thread, the  *)
(* adapter b of thread t2's domain serves that thread, and both may call   *)
(* the global adapter c, which calls nobody, as echo does.  b cannot be    *)
(* reached from the main thread.  zero is in every program, unserved.      *)
(***************************************************************************)
EXTENDS Runtime, TLC

CONSTANTS a, b, c, zero, t1, t2

MCAgent == {zero, runtime, user, a, b, c}
MCThread == {t1, t2}
MCArenaHome ==
  (zero :> Global) @@ (user :> Global) @@ (runtime :> Global) @@
  (a :> Global) @@ (b :> t2) @@ (c :> Global)
MCArenaFlags == [x \in MCAgent |-> IF x = user THEN {"CATCH"} ELSE {}]
MCAgentOrder == <<zero, runtime, user, a, b, c>>
MCContacts == (t1 :> {a, b, runtime, zero}) @@ (t2 :> {b})
MCPeers == [x \in MCAgent |-> IF x \in {a, b} THEN {c} ELSE {}]

\* Two threads that write to the same global adapter, which calls another one.
MCSharedContacts == (t1 :> {a}) @@ (t2 :> {a})

\* These are the contacts that do not keep the threads of an adapter apart.
ASSUME ArenaSeparation == Separate <=> Contacts # MCSharedContacts

\* The main thread is only used to ask for the exit.
MCExitContacts == (t1 :> {runtime}) @@ (t2 :> {b})
=============================================================================
