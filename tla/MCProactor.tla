------------------------------- MODULE MCProactor -------------------------------
(******************************************************************************)
(* Proactor for TLC: clients are interchangeable.  The invariants of the      *)
(* proofs come with it.                                                       *)
(******************************************************************************)
EXTENDS ProactorCallProofs, TLC

ClientSymmetry == Permutations(Client)

================================================================================
