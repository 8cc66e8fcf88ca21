-------------------------------- MODULE MCStrings -------------------------------
(******************************************************************************)
(* Strings for TLC.  The literal has a NUL in the middle, as a string_view    *)
(* may; the Strings, and the blocks, are interchangeable.                     *)
(******************************************************************************)
EXTENDS StringsProofs, TLC

MCLiteral == << 1, 0, 1 >>

StringsSymmetry == Permutations(String) \cup Permutations(Block)

================================================================================
