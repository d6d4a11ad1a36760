------------------------------- MODULE MCAssembler -------------------------------
(***************************************************************************)
(* Programs of a few lines over a few interchangeable names.               *)
(***************************************************************************)
EXTENDS Assembler, TLC

Interchangeable == Permutations(Symbols)
=============================================================================
