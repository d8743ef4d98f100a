------------------------------ MODULE MCPaging ------------------------------
(***************************************************************************)
(* Rows are interchangeable.                                               *)
(***************************************************************************)
EXTENDS Paging, TLC

Symmetry == Permutations(Event)
=============================================================================
