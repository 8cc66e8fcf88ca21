------------------------------ MODULE MCRingBuffer ------------------------------
(******************************************************************************)
(* RingBuffer and the invariant of its proofs, for TLC.                       *)
(******************************************************************************)
EXTENDS RingBufferProofs

================================================================================
