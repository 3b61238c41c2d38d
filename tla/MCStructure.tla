---------------------------- MODULE MCStructure ----------------------------
(***************************************************************************)
(* Structure with two chosen names, one of them the name the next domain   *)
(* would be given.  A snapshot can be called only if its domain has members*)
(* called user and runtime, which the chosen names include.                *)
(***************************************************************************)
EXTENDS Navigator, TLC

CONSTANTS zero, runtime, usr, x

MCAutoName(n) == <<"domain", n>>
MCCloneName(y, n) == <<"clone", n>>
MCName == {zero, runtime, usr, x} \cup {<<"domain", n>> : n \in 1 .. MaxDomains} \cup
          {<<"clone", n>> : n \in 1 .. MaxAgents}
MCDomainNames == {<<"domain", 2>>}
=============================================================================
