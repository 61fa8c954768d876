------------------------------ MODULE MCPuller ------------------------------
(* The puller on a small instance: a file of two blocks and one of one block. *)
EXTENDS Puller, TLC

CONSTANTS f1, f2, b1, b2

MCBlocksOf == f1 :> {b1, b2} @@ f2 :> {b1}
=============================================================================
