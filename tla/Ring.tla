-------------------------------- MODULE Ring ---------------------------------
(***************************************************************************)
(* The ring Z/2^K that every semi2k share lives in, and the ring-array     *)
(* primitives the kernels call (ring_add, ring_sub, ring_mul, ring_neg,     *)
(* ring_lshift, ring_rshift, ring_arshift, ring_bitmask).  The primitives   *)
(* are external to src/ (libspu/mpc/utils/ring_ops); they are modelled     *)
(* from the interface the specification gives them: deterministic,          *)
(* elementwise and correct modulo 2^K.  A ring element is its unsigned      *)
(* representative 0..2^K-1, as ring2k_t is an unsigned integer type.       *)
(*                                                                         *)
(* Parties are the ranks 0..N-1 of the communicator; a share vector is a   *)
(* function from rank to ring element, and the value it stands for is the  *)
(* sum of the shares modulo 2^K.                                           *)
(***************************************************************************)
EXTENDS Integers, Functions

CONSTANTS
    K,      \* ring width in bits (the field: 32, 64 or 128 in the code)
    N       \* world size: the number of parties

ASSUME K \in Nat \ {0} /\ N \in Nat \ {0}

Modulus == 2^K
RingElt == 0 .. Modulus - 1
Party   == 0 .. N - 1

\* Reduction modulo 2^K: TLA+'s % with a positive divisor is non-negative.
Wrap(v) == v % Modulus

RingAdd(a, b) == Wrap(a + b)
RingSub(a, b) == Wrap(a - b)
RingMul(a, b) == Wrap(a * b)
RingNeg(a)    == Wrap(-a)

\* The two's complement reading of a ring element, in [-2^(K-1), 2^(K-1)).
Signed(a) == IF a >= 2^(K-1) THEN a - Modulus ELSE a

\* ring_lshift: bits shifted out of the top are lost.
RingLShift(a, m) == Wrap(a * 2^m)
\* `>>' on the unsigned ring2k_t: zeros enter from the top.
RingRShift(a, m) == a \div 2^m
\* ring_arshift: the sign bit is replicated; \div rounds towards -infinity,
\* as an arithmetic shift does.
RingARShift(a, m) == Wrap(Signed(a) \div 2^m)
\* ring_bitmask(x, 0, 1): keep bit 0 only.
RingBit0(a) == a % 2
\* Bit K-1, the sign bit.
Msb(a) == a \div 2^(K-1)

\* The value a share vector stands for: allReduce(ADD) of the shares.
Reconstruct(s) == Wrap(SumFunction(s))

\* All additive sharings of v among the parties.
SharesOf(v) == {s \in [Party -> RingElt] : Reconstruct(s) = v}

\* Distance between two ring elements, going the shorter way round.
RingDist(a, b) ==
    LET d == RingSub(a, b) IN IF d > Modulus \div 2 THEN Modulus - d ELSE d

=============================================================================
