------------------------------- MODULE MCHnsw -------------------------------
(***************************************************************************)
(* Instances of Hnsw for TLC.  Vectors are points on a line; the nearer    *)
(* two points, the more similar.                                           *)
(***************************************************************************)
EXTENDS Hnsw, TLC

MCSim(a, b) == IF a <= b THEN a - b ELSE b - a

\* Ids differ only in being deletable, threads only in being writers.
Symmetry ==
    Permutations(Writers) \cup Permutations(Threads \ Writers)
        \cup Permutations(Deletable) \cup Permutations(Ids \ Deletable)
=============================================================================
