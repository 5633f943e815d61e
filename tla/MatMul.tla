------------------------------- MODULE MatMul --------------------------------
(***************************************************************************)
(* The matmul family of semi2k at the level of ring matrices (arithmetic.cc *)
(* MatMulAP, and MatMulAA over MulOpen with mmul = true and a Dot triple). *)
(* As in Semi2kMul, one action is one kernel invocation by all parties in  *)
(* lock step, and the correlated randomness is drawn by \E.  Matrices are   *)
(* square, Dim x Dim, so that both operand orders of every product type     *)
(* check and the order the code multiplies in is what decides the result:  *)
(* a matrix product does not commute.                                      *)
(*                                                                         *)
(* The state is the two operands' shares and the outcome of the last       *)
(* kernel: its right-hand operand as the specification reads it and the    *)
(* matrix the output shares reconstruct to.                                *)
(***************************************************************************)
EXTENDS Ring

CONSTANTS
    D,          \* the matrices' number of rows and of columns
    Publics,    \* public right-hand operands tried (MatMulAP)
    InputSplit, \* matrices ranks 0..N-2 may hold as a share of an input
    RandSplit,  \* matrices ranks 0..N-2 get as a share of a Dot triple
    None

ASSUME D \in Nat \ {0}

Dim   == 1 .. D
Index == Dim \X Dim
Mat   == [Index -> RingElt]

\* ring_add and ring_sub on matrices: elementwise.
MatAdd(u, v) == [ij \in Index |-> RingAdd(u[ij], v[ij])]
MatSub(u, v) == [ij \in Index |-> RingSub(u[ij], v[ij])]

\* ring_mmul: row i of u against column j of v, modulo 2^K.
MatProd(u, v) ==
    [ij \in Index |-> Wrap(SumFunction([k \in Dim |-> u[ij[1], k] * v[k, ij[2]]]))]

\* allReduce(ADD) of matrix shares (over any set of ranks): elementwise sums.
MatReconstruct(s) ==
    [ij \in Index |-> Wrap(SumFunction([p \in DOMAIN s |-> s[p][ij]]))]

\* Sharings of matrix v whose first N-1 shares come from S; the last share
\* completes the sum.
SplitMatsOf(v, S) ==
    {[p \in Party |-> IF p < N - 1 THEN f[p] ELSE MatSub(v, MatReconstruct(f))] :
        f \in [0 .. N - 2 -> S]}

Inputs == UNION {SplitMatsOf(v, InputSplit) : v \in Mat}

VARIABLES
    x, y,   \* [Party -> Mat]: the operands' shares
    out     \* None, or [kernel, rhs, val] of the last matmul

vars == <<x, y, out>>

(***************************************************************************)
(* Dot(field, m, n, k), as the Beaver source promises it (spec 3): shares  *)
(* of a, of b, and of c = a . b.                                           *)
(***************************************************************************)
DotTriples ==
    UNION {[a : SplitMatsOf(av, RandSplit), b : SplitMatsOf(bv, RandSplit),
            c : SplitMatsOf(MatProd(av, bv), RandSplit)] : <<av, bv>> \in Mat \X Mat}

(***************************************************************************)
(* Local steps.                                                            *)
(***************************************************************************)
\* allReduce(ADD, ring_sub(s, m)): the opening of s - m.
MatOpen(s, m) == MatReconstruct([p \in Party |-> MatSub(s[p], m[p])])

\* Variant of MatMulAAShare that multiplies Bi by (X - A) from the left.
MatMulAAShareSwapped(p, t, x_a, y_b) ==
    LET z == MatAdd(MatAdd(MatProd(t.b[p], x_a), MatProd(t.a[p], y_b)), t.c[p])
    IN IF p = 0 THEN MatAdd(z, MatProd(x_a, y_b)) ELSE z

\* MatMulAA: Zi = (X-A) . Bi + Ai . (Y-B) + Ci, and rank 0 adds
\* (X-A) . (Y-B).
MatMulAAShare(p, t, x_a, y_b) ==
    LET z == MatAdd(MatAdd(MatProd(x_a, t.b[p]), MatProd(t.a[p], y_b)), t.c[p])
    IN IF p = 0 THEN MatAdd(z, MatProd(x_a, y_b)) ELSE z

(***************************************************************************)
(* Kernel invocations.                                                     *)
(***************************************************************************)
\* MatMulAA(x, ys), ys being y or x itself (x.t dot x without the
\* transpose): MulOpen opens x - a and ys - b, then each rank combines.
MatMulAA ==
    /\ out = None
    /\ \E ys \in {x, y}, t \in DotTriples :
         LET x_a == MatOpen(x, t.a)
             y_b == MatOpen(ys, t.b)
         IN out' = [kernel |-> "MatMulAA", rhs |-> MatReconstruct(ys),
                    val |-> MatReconstruct([p \in Party |->
                                               MatMulAAShare(p, t, x_a, y_b)])]
    /\ UNCHANGED <<x, y>>

\* MatMulAP(x, v): ring_mmul of each share by the public matrix.
MatMulAP ==
    /\ out = None
    /\ \E v \in Publics :
         out' = [kernel |-> "MatMulAP", rhs |-> v,
                 val |-> MatReconstruct([p \in Party |-> MatProd(x[p], v)])]
    /\ UNCHANGED <<x, y>>

\* The caller goes on to another product of the same operands.
Again ==
    /\ out # None
    /\ out' = None
    /\ UNCHANGED <<x, y>>

Init ==
    /\ x \in Inputs
    /\ y \in Inputs
    /\ out = None

Next == MatMulAA \/ MatMulAP \/ Again

Spec == Init /\ [][Next]_vars

(***************************************************************************)
(* Properties.                                                             *)
(***************************************************************************)
\* Spec 8, dot-product correctness: whatever Dot triple the source hands
\* out and however the operands are split, the output shares of MatMulAA
\* reconstruct to X . Y (X . X when both operands are x), and those of
\* MatMulAP to X . V, with the left operand on the left.
MatMulCorrect ==
    out # None => out.val = MatProd(MatReconstruct(x), out.rhs)

=============================================================================
