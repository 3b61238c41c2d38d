------------------------------- MODULE Store -------------------------------
(***************************************************************************)
(* What the journal keeps, and how: the tree of agents, domains and        *)
(* threads that its commits build, or the chain of files that its records  *)
(* are written to and replayed from.  Journal records no more of a commit  *)
(* than its number, and Structure no more of the journal than the CHECK of *)
(* a commit: they share no state, so that a behaviour of the whole is one  *)
(* of the part chosen in the initial state.                                *)
(***************************************************************************)
EXTENDS Navigator, Journal

VARIABLE part

store == <<part, svars, jvars>>

Init == part \in {"structure", "journal"} /\ SInit /\ JInit

OnStructure == part = "structure" /\ SNext /\ UNCHANGED <<part, jvars>>
OnJournal == part = "journal" /\ JNext /\ UNCHANGED <<part, svars>>

Next == OnStructure \/ OnJournal

Spec == Init /\ [][Next]_store

-----------------------------------------------------------------------------

\* The state of either part has its type.
StoreTypeOK == STypeOK /\ JTypeOK
=============================================================================
