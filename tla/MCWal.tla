------------------------------- MODULE MCWal --------------------------------
(***************************************************************************)
(* Instances of Wal for TLC: one id, vectors of one float, metadata of at  *)
(* most one byte.  Units are chosen to look like ops, dims and lengths     *)
(* when they are misread.                                                  *)
(***************************************************************************)
EXTENDS Wal

MCVecs == {<<1>>, <<3>>}
MCMetas == {<< >>, <<2>>}
=============================================================================
