---------------------------- MODULE MCChildChain ----------------------------
(***************************************************************************)
(* Six entries, three of them directories: lists of up to five entries, and  *)
(* lists in lists.                                                           *)
(***************************************************************************)
EXTENDS ChildChain
=============================================================================
