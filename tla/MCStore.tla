------------------------------ MODULE MCStore ------------------------------
(***************************************************************************)
(* A small instance of Store: MCStructure's names, and one program at a    *)
(* time.                                                                   *)
(***************************************************************************)
EXTENDS MCStructure, Store
=============================================================================
