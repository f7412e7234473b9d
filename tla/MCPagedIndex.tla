---------------------------- MODULE MCPagedIndex ----------------------------
(***************************************************************************)
(* PagedIndex for TLC.  Vectors are only stored and compared, so that one  *)
(* stands for the other.                                                   *)
(***************************************************************************)
EXTENDS PagedIndex, TLC

VecSymmetry == Permutations(Vecs)
=============================================================================
