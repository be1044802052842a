---------------------------- MODULE MCBoxStorage ----------------------------
(* BoxStorage over the blocks of MCChain. *)
EXTENDS BoxStorage, MCChain
=============================================================================
