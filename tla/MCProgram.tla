----------------------------- MODULE MCProgram -----------------------------
(***************************************************************************)
(* An arena for Program: one agent g of the global domain, one agent c of  *)
(* the domain of thread t2, and one identity left for an agent created at  *)
(* run time, with any flags, or cloned.                                    *)
(***************************************************************************)
EXTENDS Program, TLC

CONSTANTS g, c, n, t1, t2

MCAgent == {user, runtime, g, c, n}
MCThread == {t1, t2}
MCArenaHome ==
  (user :> Global) @@ (runtime :> Global) @@ (g :> Global) @@ (c :> t2)
MCArenaFlags ==
  (user :> {"CATCH"}) @@ (runtime :> {}) @@ (g :> {}) @@ (c :> {})
=============================================================================
