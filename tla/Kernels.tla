------------------------------ MODULE Kernels ------------------------------
(***************************************************************************)
(* The distance kernels (kernels/*.cpp) and their dispatch (distance.cpp): *)
(* which terms of the sum end up in the result.                            *)
(*                                                                         *)
(* Each kernel adds one term per dimension, in blocks of as many lanes as  *)
(* its registers have and a scalar loop for the rest, and reduces the      *)
(* lanes to one number in between.  A partial sum is a function that says  *)
(* how often each term is in it; the values, and rounding, are left out.   *)
(* The three sums of the cosine kernels go through the same steps as the   *)
(* one of the L2 kernels.                                                  *)
(***************************************************************************)
EXTENDS Integers

CONSTANT MaxDim   \* bound: dimensions of a vector

ASSUME DimAssumption == MaxDim \in Nat

VARIABLES kernel, dim, i, acc, sum, pc

kernelVars == <<kernel, dim, i, acc, sum, pc>>

Kernels == {"avx2", "neon", "naive"}
Terms   == 0 .. MaxDim + 8   \* with the ones a read past the end would add
Lanes   == 0 .. 7            \* NEON uses four

Nothing == [j \in Terms |-> 0]
Plus(f, g) == [j \in Terms |-> f[j] + g[j]]
With(f, j) == [f EXCEPT ![j] = @ + 1]
-----------------------------------------------------------------------------
\* The kernel that cosine_similarity and l2_distance call in a build with the
\* given instruction sets; on other machines the NEON names stand for AVX2.
Dispatch(sets) ==
    IF "neon" \in sets THEN "neon" ELSE IF "avx2" \in sets THEN "avx2" ELSE "naive"

Width == IF kernel = "avx2" THEN 8 ELSE 4

\* Mutant: _mm_moveldup_ps, the even lanes instead of the odd ones.
MoveLdup(v) == <<v[1], v[1], v[3], v[3]>>
\* _mm_movehdup_ps and _mm_movehl_ps.
MoveHdup(v)  == <<v[2], v[2], v[4], v[4]>>
MoveHl(a, b) == <<b[3], b[4], a[3], a[4]>>

AddPs(a, b) == <<Plus(a[1], b[1]), Plus(a[2], b[2]), Plus(a[3], b[3]), Plus(a[4], b[4])>>

\* hsum256: the sum of eight lanes.
hsum256(v) ==
    LET lo   == AddPs(<<v[0], v[1], v[2], v[3]>>, <<v[4], v[5], v[6], v[7]>>)
        shuf == MoveHdup(lo)
        sums == AddPs(lo, shuf)
    IN  Plus(sums[1], MoveHl(shuf, sums)[1])

\* vaddvq_f32: the sum of four lanes.
vaddvq(v) == Plus(Plus(v[0], v[1]), Plus(v[2], v[3]))

KernelInit ==
    /\ \E sets \in SUBSET {"neon", "avx2"} : kernel = Dispatch(sets)
    /\ dim \in 0 .. MaxDim
    /\ i = 0
    /\ acc = [l \in Lanes |-> Nothing]
    /\ sum = Nothing
    /\ pc = IF kernel = "naive" THEN "tail" ELSE "blocks"

\* Mutant: one element too few is left for a block.
FitsLate == i + Width <= dim + 1
\* Another block fits into the vectors.
Fits == i + Width <= dim

(* One round of the vector loop: every lane adds its term. *)
Block ==
    /\ pc = "blocks"
    /\ Fits
    /\ acc' = [l \in Lanes |-> IF l < Width THEN With(acc[l], i + l) ELSE acc[l]]
    /\ i' = i + Width
    /\ UNCHANGED <<kernel, dim, sum, pc>>

(* The vector loop ends and the lanes are added up. *)
Reduce ==
    /\ pc = "blocks"
    /\ ~Fits
    /\ sum' = IF kernel = "avx2" THEN hsum256(acc) ELSE vaddvq(acc)
    /\ pc' = "tail"
    /\ UNCHANGED <<kernel, dim, i, acc>>

(* One round of the scalar loop. *)
Tail ==
    /\ pc = "tail"
    /\ i < dim
    /\ sum' = With(sum, i)
    /\ i' = i + 1
    /\ UNCHANGED <<kernel, dim, acc, pc>>

(* The kernel returns. *)
Return ==
    /\ pc = "tail"
    /\ i >= dim
    /\ pc' = "done"
    /\ UNCHANGED <<kernel, dim, i, acc, sum>>

KernelNext == Block \/ Reduce \/ Tail \/ Return

KernelSpec == KernelInit /\ [][KernelNext]_kernelVars
-----------------------------------------------------------------------------
KernelType ==
    /\ kernel \in Kernels
    /\ dim \in 0 .. MaxDim
    /\ i \in 0 .. MaxDim
    /\ acc \in [Lanes -> [Terms -> Nat]]
    /\ sum \in [Terms -> Nat]
    /\ pc \in {"blocks", "tail", "done"}

\* The sum a kernel returns has every term exactly once and no other, whatever
\* the dimension: the shuffles of hsum256 drop and double no lane, and block
\* loop and scalar loop meet without a gap or an overlap.
TermsOnce == pc = "done" => \A j \in Terms : sum[j] = IF j < dim THEN 1 ELSE 0

\* No kernel reads an element past the end of the vectors.
ReadsInBounds ==
    \A j \in Terms : j >= dim => sum[j] = 0 /\ \A l \in Lanes : acc[l][j] = 0
=============================================================================
