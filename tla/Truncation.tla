----------------------------- MODULE Truncation ------------------------------
(***************************************************************************)
(* The truncation kernels of semi2k (arithmetic.cc: TruncA, TruncAPr,      *)
(* getTruncField, computeMW, TruncAPr2) at the level of ring values.  As   *)
(* in Semi2kMul, one action is one kernel invocation by all parties in     *)
(* lock step; the correlated randomness is drawn by \E.                    *)
(*                                                                         *)
(* The state is the input sharing x and the outcome of the last kernel:    *)
(* which kernel ran with how many bits, and the value its output shares    *)
(* reconstruct to.  A ghost flag records whether the pieces TruncA shifts  *)
(* separately sum without signed overflow, the condition under which       *)
(* local shifting is off by at most one.                                   *)
(***************************************************************************)
EXTENDS Ring, FiniteSets

CONSTANTS
    Bits,           \* truncation amounts tried
    FieldWidths,    \* ring widths getTruncField may choose (FM32/64/128)
    InputSplit,     \* shares ranks 0..N-2 may hold of an input
    RandSplit,      \* shares ranks 0..N-2 get of correlated randomness
    None

ASSUME Bits \subseteq 1 .. K - 1
ASSUME FieldWidths \subseteq Nat \ {0} /\ K \in FieldWidths

\* TruncAPr2::kBitsLeftOut: MW's thresholds are L/4 and L/2 (spec 4.5).
BitsLeftOut == 2

VARIABLES
    x,      \* [Party -> RingElt]: the input's shares
    out     \* None, or [kernel, bits, val, exact] of the last truncation

vars == <<x, out>>

Shares == [Party -> RingElt]

\* Sharings of v whose first N-1 shares come from a given set; the last
\* share takes whatever value completes the sum.
SplitSharesOf(v, S) ==
    {[p \in Party |-> IF p < N - 1 THEN f[p]
                      ELSE Wrap(v - SumFunction(f))] : f \in [0 .. N - 2 -> S]}

Inputs == {s \in Shares : \A p \in Party \ {N - 1} : s[p] \in InputSplit}

\* Signed values of some pieces sum to the signed value of their ring sum.
NoSignedOverflow(pieces) ==
    SumFunction([i \in DOMAIN pieces |-> Signed(pieces[i])])
        = Signed(Wrap(SumFunction(pieces)))

(***************************************************************************)
(* Correlated randomness, as the Beaver source promises it (spec 4.5, 6).  *)
(***************************************************************************)
\* Trunc(field, numel, bits): shares of r and of r arithmetically shifted.
TruncPairs(bits) ==
    UNION {[r : SplitSharesOf(rv, RandSplit),
            rt : SplitSharesOf(RingARShift(rv, bits), RandSplit)] : rv \in RingElt}

\* TruncPr(field, numel, bits): shares of r, of bits [bits, K-2] of r, and
\* of r's top bit.
TruncPrTriples(bits) ==
    UNION {[r : SplitSharesOf(rv, RandSplit),
            rc : SplitSharesOf((rv % 2^(K - 1)) \div 2^bits, RandSplit),
            rb : SplitSharesOf(Msb(rv), RandSplit)] : rv \in RingElt}

\* MulPriv(field, numel): (a0, c0) to rank 0 and (a1, c1) to rank 1 with
\* a0 * a1 = c0 + c1 in the ring of width w.
MulPrivPairs(w) ==
    {[a0 |-> q[1], a1 |-> q[2], c0 |-> q[3], c1 |-> (q[1] * q[2] - q[3]) % 2^w] :
        q \in (0 .. 2^w - 1) \X (0 .. 2^w - 1) \X (0 .. 2^w - 1)}

(***************************************************************************)
(* Local steps.                                                            *)
(***************************************************************************)
\* Variant of TruncALocalShare with a logical shift (ring_rshift).
TruncALocalShareLogical(p, bits) == RingRShift(x[p], bits)

\* TruncA, world size 2: each share arithmetically shifted on its own.
TruncALocalShare(p, bits) == RingARShift(x[p], bits)

\* TruncA, world size > 2: open x - r; rank 0 adds its shift to rt.
TruncAPairShare(p, bits, t, x_r) ==
    IF p = 0 THEN RingAdd(t.rt[p], RingARShift(x_r, bits)) ELSE t.rt[p]

\* TruncAPr, before the opening: rank 0 adds 2^(k-2), everyone adds r.
TruncAPrMasked(p, t) ==
    RingAdd(IF p = 0 THEN RingAdd(x[p], 2^(K - 2)) ELSE x[p], t.r[p])

\* Variant of TruncAPrShare without the re-encoding y -= 2^(k-2-m).
TruncAPrShareNoReencode(p, bits, t, c) ==
    LET ck_1  == RingRShift(c, K - 1)
        b     == IF p = 0 THEN Wrap(t.rb[p] + ck_1 - 2 * ck_1 * t.rb[p])
                          ELSE Wrap(t.rb[p] - 2 * ck_1 * t.rb[p])
        c_hat == RingRShift(RingLShift(c, 1), 1 + bits)
    IN IF p = 0 THEN RingAdd(RingSub(c_hat, t.rc[p]), RingLShift(b, K - 1 - bits))
                ELSE RingAdd(RingNeg(t.rc[p]), RingLShift(b, K - 1 - bits))

\* TruncAPr, after opening c: the carry bit b and the output share.
TruncAPrShare(p, bits, t, c) ==
    LET ck_1  == RingRShift(c, K - 1)
        b     == IF p = 0 THEN Wrap(t.rb[p] + ck_1 - 2 * ck_1 * t.rb[p])
                          ELSE Wrap(t.rb[p] - 2 * ck_1 * t.rb[p])
        c_hat == RingRShift(RingLShift(c, 1), 1 + bits)
        y     == IF p = 0 THEN RingAdd(RingSub(c_hat, t.rc[p]),
                                       RingLShift(b, K - 1 - bits))
                          ELSE RingAdd(RingNeg(t.rc[p]),
                                       RingLShift(b, K - 1 - bits))
    IN IF p = 0 THEN RingSub(y, 2^(K - 2 - bits)) ELSE y

\* getTruncField(bits): the smallest field that holds bits bits.
TruncField(bits) ==
    CHOOSE w \in FieldWidths :
        bits <= w /\ \A v \in FieldWidths : bits <= v => w <= v

\* MulVVS in the ring of width w, rank 0 holding u and rank 1 holding v:
\* each sends a_i + input; rank 0 gets u*(v + a1) + c0, rank 1
\* gets -a1*(u + a0) + c1.
MulVVSShares(u, v, q, w) ==
    [p \in {0, 1} |-> IF p = 0 THEN (u * (v + q.a1) + q.c0) % 2^w
                               ELSE (-(q.a1) * (u + q.a0) + q.c1) % 2^w]

\* computeMW: each rank's 1-bit classification of its share, their
\* product by MulVVS in the narrow ring, and rank 0's correction.
MWStar(p) ==
    LET L_4 == 2^(K - BitsLeftOut)
        L_2 == 2 * L_4
    IN IF p = 0 THEN (IF RingSub(x[0], L_4) >= L_2 THEN 1 ELSE 0)
                ELSE (IF x[1] >= L_2 THEN 1 ELSE 0)

\* Variant of ComputeMW without rank 0's correction 1 - (x0 < L/4).
ComputeMWNoCorrection(bits, q) ==
    MulVVSShares(MWStar(0), MWStar(1), q, TruncField(bits))

ComputeMW(bits, q) ==
    LET w   == TruncField(bits)
        L_4 == 2^(K - BitsLeftOut)
        mw  == MulVVSShares(MWStar(0), MWStar(1), q, w)
    IN [mw EXCEPT ![0] = (@ + 1 - (IF x[0] < L_4 THEN 1 ELSE 0)) % 2^w]

\* TruncAPr2's output share: (x >> bits) - MW * 2^(k-bits) + rank.
TruncAPr2Share(p, bits, mw) ==
    RingAdd(RingSub(RingRShift(x[p], bits),
                    RingMul(Wrap(mw[p]), 2^(K - bits))), p)

(***************************************************************************)
(* Kernel invocations.                                                     *)
(***************************************************************************)
Outcome(k, bits, z, exact) ==
    [kernel |-> k, bits |-> bits, val |-> Reconstruct(z), exact |-> exact]

TruncA(bits) ==
    /\ out = None
    /\ IF N = 2
       THEN out' = Outcome("TruncA", bits,
                           [p \in Party |-> TruncALocalShare(p, bits)],
                           NoSignedOverflow(x))
       ELSE \E t \in TruncPairs(bits) :
              LET x_r == Reconstruct([p \in Party |-> RingSub(x[p], t.r[p])])
              IN out' = Outcome("TruncA", bits,
                                [p \in Party |-> TruncAPairShare(p, bits, t, x_r)],
                                NoSignedOverflow(<<x_r, Reconstruct(t.r)>>))
    /\ UNCHANGED x

TruncAPr(bits) ==
    /\ out = None
    /\ \E t \in TruncPrTriples(bits) :
         LET c == Reconstruct([p \in Party |-> TruncAPrMasked(p, t)])
         IN out' = Outcome("TruncAPr", bits,
                           [p \in Party |-> TruncAPrShare(p, bits, t, c)], TRUE)
    /\ UNCHANGED x

\* TruncAPr2 enforces rank 0 or 1: it is a two-party kernel.
TruncAPr2(bits) ==
    /\ out = None
    /\ N = 2
    /\ \E q \in MulPrivPairs(TruncField(bits)) :
         LET mw == ComputeMW(bits, q)
         IN out' = Outcome("TruncAPr2", bits,
                           [p \in Party |-> TruncAPr2Share(p, bits, mw)], TRUE)
    /\ UNCHANGED x

\* The caller shares a new input for the next truncation.
NewInput ==
    /\ out # None
    /\ x' \in Inputs
    /\ out' = None

Init ==
    /\ x \in Inputs
    /\ out = None

Next ==
    \/ \E bits \in Bits : TruncA(bits) \/ TruncAPr(bits) \/ TruncAPr2(bits)
    \/ NewInput

Spec == Init /\ [][Next]_vars

(***************************************************************************)
(* Properties.  The reference is the arithmetic shift of the input.        *)
(***************************************************************************)
Expected == RingARShift(Reconstruct(x), out.bits)
Within1  == RingDist(out.val, Expected) <= 1

\* TruncA (SecureML local truncation for two parties, the ABY3 pair for
\* more) is within one of x >> bits whenever the pieces shifted separately
\* (the two shares, or x - r and r) sum without signed overflow.
TruncANearExact ==
    out # None /\ out.kernel = "TruncA" /\ out.exact => Within1

\* TruncAPr is within one of x >> bits for every x in [-2^(k-2), 2^(k-2)),
\* whatever the triple.  Spec 8 states the bound for bits < k - 2; it is
\* checked here up to bits = k - 2, the largest shift the re-encoding
\* y -= 2^(k-2-bits) admits.
TruncAPrBound ==
    out # None /\ out.kernel = "TruncAPr" /\ out.bits <= K - 2
    /\ Signed(Reconstruct(x)) \in -(2^(K - 2)) .. 2^(K - 2) - 1
    => Within1

\* TruncAPr2 is within one of x >> bits when |x| < L/4 (the constraint of
\* the geometric algorithm computeMW implements).
TruncAPr2Bound ==
    out # None /\ out.kernel = "TruncAPr2"
    /\ Signed(Reconstruct(x)) \in -(2^(K - 2)) + 1 .. 2^(K - 2) - 1
    => Within1

\* TruncAPr2 adds the rank so that trunc(0, bits) = 0 (comment in
\* TruncAPr2::proc).
TruncAPr2Zero ==
    out # None /\ out.kernel = "TruncAPr2" /\ Reconstruct(x) = 0 => out.val = 0

=============================================================================
