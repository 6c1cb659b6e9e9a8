---------------------------- MODULE MCPagedLists ----------------------------
(* A small instance of PagedLists for TLC: three rows, which take up to three *)
(* pages, the last ones read after the first ones have moved.                 *)
EXTENDS PagedLists
=============================================================================
