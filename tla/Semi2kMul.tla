------------------------------ MODULE Semi2kMul ------------------------------
(***************************************************************************)
(* The Beaver-triple multiplication family of semi2k at the level of ring  *)
(* values (libspu/mpc/semi2k/arithmetic.cc: MulOpen, MulAA, SquareA,       *)
(* MulA1B, P2A).  The parties run the same kernel in lock step, as the     *)
(* SPMD contract of the runtime demands, so one action is one kernel       *)
(* invocation by all parties: every all-reduce inside it is the sum of the *)
(* parties' contributions.  The correlated randomness (PRSS pairs, Beaver  *)
(* triples and square pairs) is drawn by \E from every value the source   *)
(* may hand out.                                                           *)
(*                                                                         *)
(* The session keeps an accumulator x, an arithmetic share that each       *)
(* kernel replaces by its result, an operand y that stays fixed, and the   *)
(* plaintext X that x stands for according to the specification.  MulAA  *)
(* reads y as an arithmetic share; MulA1B reads the same shares as a       *)
(* boolean share of one bit whose upper bits are garbage, as the comment   *)
(* in MulA1B warns.  Both readings range over every share vector, so one   *)
(* variable serves both.  The Beaver cache is off                          *)
(* here: the cache protocol is the subject of BeaverCache.tla.             *)
(***************************************************************************)
EXTENDS Ring

VARIABLES
    x,      \* [Party -> RingElt]: the accumulator's shares
    y,      \* [Party -> RingElt]: a fixed operand
    X       \* the plaintext x reconstructs to, by the specification

vars == <<x, y, X>>

Shares == [Party -> RingElt]

(***************************************************************************)
(* Correlated randomness, as the Beaver source promises it (spec 3, 6).     *)
(***************************************************************************)
\* Mul(field, numel): per-party (a_i, b_i, c_i) with sum(a)*sum(b) = sum(c).
MulTriples ==
    {t \in [a : Shares, b : Shares, c : Shares] :
        Reconstruct(t.c) = RingMul(Reconstruct(t.a), Reconstruct(t.b))}

\* Square(field, numel): per-party (a_i, b_i) with sum(a)^2 = sum(b).
SquarePairs ==
    {t \in [a : Shares, b : Shares] :
        Reconstruct(t.b) = RingMul(Reconstruct(t.a), Reconstruct(t.a))}

\* genPrssPair(Both): party p's r0 is shared with p-1, its r1 with p+1.
PrssPair(r, p) == <<r[p], r[(p + 1) % N]>>

(***************************************************************************)
(* Local steps of the kernels.                                             *)
(***************************************************************************)
\* allReduce(ADD, ring_sub(x, a)): the opening of x - a.
Open(s, m) == Reconstruct([p \in Party |-> RingSub(s[p], m[p])])

\* MulOpen without the cache: the triple, and the openings of x-a and y-b.
\* Batched (vmap) or not, the all-reduce sums the same contributions.
MulOpen(xs, ys, t) == [a |-> t.a, b |-> t.b, c |-> t.c,
                       x_a |-> Open(xs, t.a), y_b |-> Open(ys, t.b)]

\* MulAA: Zi = Ci + (X-A)*Bi + (Y-B)*Ai, and rank 0 adds (X-A)*(Y-B).
MulAAShare(p, o) ==
    LET z == RingAdd(RingAdd(RingMul(o.b[p], o.x_a), RingMul(o.a[p], o.y_b)),
                     o.c[p])
    IN IF p = 0 THEN RingAdd(z, RingMul(o.x_a, o.y_b)) ELSE z

\* SquareA: Zi = Bi + 2*(X-A)*Ai, and rank 0 adds (X-A)*(X-A).
SquareAShare(p, t, x_a) ==
    LET z == RingAdd(RingMul(RingMul(t.a[p], x_a), 2), t.b[p])
    IN IF p = 0 THEN RingAdd(z, RingMul(x_a, x_a)) ELSE z

\* Variant of MulA1BYY that forgets to mask y to its lowest bit.
MulA1BYYUnmasked(ys) == [p \in Party |-> ys[p]]

\* MulA1B, before MulOpen: yy = y & 1 and xx = (1 - 2*yy) * x.
MulA1BYY(ys) == [p \in Party |-> RingBit0(ys[p])]
MulA1BXX(xs, ys) ==
    [p \in Party |-> RingMul(RingSub(1, RingLShift(RingBit0(ys[p]), 1)), xs[p])]

\* MulA1B, after MulOpen on (xx, yy): the MulAA combination, minus XXi*YYi,
\* plus Xi*YYi.
MulA1BShare(p, xs, ys, o) ==
    LET yy == MulA1BYY(ys)
        xx == MulA1BXX(xs, ys)
        z  == RingSub(RingAdd(RingAdd(RingMul(o.b[p], o.x_a),
                                      RingMul(o.a[p], o.y_b)), o.c[p]),
                      RingMul(xx[p], yy[p]))
        z0 == IF p = 0 THEN RingAdd(z, RingMul(o.x_a, o.y_b)) ELSE z
    IN RingAdd(z0, RingMul(xs[p], yy[p]))

\* P2A: r0 - r1 from the PRSS pair, and rank 0 adds the public value.
P2AShare(p, r, v) ==
    LET z == RingSub(PrssPair(r, p)[1], PrssPair(r, p)[2])
    IN IF p = 0 THEN RingAdd(z, v) ELSE z

\* The bit a boolean share stands for: the XOR of the shares' bit 0.
BoolBit(s) == SumFunction([p \in Party |-> RingBit0(s[p])]) % 2

(***************************************************************************)
(* Kernel invocations.                                                     *)
(***************************************************************************)
\* P2A on a public value v: a fresh sharing of v becomes the accumulator.
P2A ==
    \E v \in RingElt, r \in Shares :
        /\ x' = [p \in Party |-> P2AShare(p, r, v)]
        /\ X' = v
        /\ UNCHANGED y

\* MulAA(x, y).
MulAA ==
    \E t \in MulTriples :
        LET o == MulOpen(x, y, t)
        IN /\ x' = [p \in Party |-> MulAAShare(p, o)]
           /\ X' = RingMul(X, Reconstruct(y))
           /\ UNCHANGED y

\* SquareA(x): one opening of x - a.
SquareA ==
    \E t \in SquarePairs :
        LET x_a == Open(x, t.a)
        IN /\ x' = [p \in Party |-> SquareAShare(p, t, x_a)]
           /\ X' = RingMul(X, X)
           /\ UNCHANGED y

\* MulA1B(x, y), y read as a boolean share: x times the bit y stands for.
MulA1B ==
    \E t \in MulTriples :
        LET o == MulOpen(MulA1BXX(x, y), MulA1BYY(y), t)
        IN /\ x' = [p \in Party |-> MulA1BShare(p, x, y, o)]
           /\ X' = RingMul(X, BoolBit(y))
           /\ UNCHANGED y

Init ==
    /\ x \in Shares
    /\ y \in Shares
    /\ X = Reconstruct(x)

Next == P2A \/ MulAA \/ SquareA \/ MulA1B

Spec == Init /\ [][Next]_vars

(***************************************************************************)
(* Properties.                                                             *)
(***************************************************************************)
\* Whatever triples the Beaver source hands out and however the inputs are
\* split, after any sequence of P2A, MulAA, SquareA and MulA1B the shares of
\* the result sum to the product the specification promises (x*y, x*x,
\* x*(y0 XOR y1) with y's upper bits ignored).
SharingCorrect == Reconstruct(x) = X

=============================================================================
