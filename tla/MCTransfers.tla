------------------------------- MODULE MCTransfers ------------------------------
(******************************************************************************)
(* Transfers for TLC, with the invariant of its proofs.  The two clients and  *)
(* the two threads do different things: nothing is interchangeable.           *)
(******************************************************************************)
EXTENDS TransfersProofs

================================================================================
