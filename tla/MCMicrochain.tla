---------------------------- MODULE MCMicrochain ----------------------------
(* Microchain over the blocks of MCChain. *)
EXTENDS Microchain, MCChain
=============================================================================
