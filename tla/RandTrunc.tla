------------------------------ MODULE RandTrunc -------------------------------
(***************************************************************************)
(* RandA composed with TruncAPr.  RandA's comment and spec 4.1 say its     *)
(* value is kept within [-2^(k-2), 2^(k-2)) to leave headroom for the      *)
(* operations downstream, and TruncAPr is correct for inputs in exactly    *)
(* that range (spec 4.5, 8).  Here the arithmetic share TruncAPr reads is  *)
(* the one RandA writes: Conversions' RandA and Truncation's TruncAPr act  *)
(* on the same variable x, each through its own instance.                  *)
(***************************************************************************)
EXTENDS Ring

CONSTANTS
    Bits,           \* truncation amounts tried
    InputSplit,     \* shares ranks 0..N-2 may hold of a caller's input
    RandSplit,      \* shares ranks 0..N-2 get of TruncPr triples
    None

VARIABLES
    x,          \* [Party -> RingElt]: the arithmetic share
    out,        \* None, or the outcome of the last truncation
    fromRandA,  \* whether x was produced by RandA
    priv, owner, V, pub, P  \* Conversions' private and public values

vars == <<x, out, fromRandA, priv, owner, V, pub, P>>

\* The values neither kernel here touches.
Others == <<priv, owner, V, pub, P>>

\* Truncation over x.  TruncAPr does not use getTruncField, so the only
\* field width is the ring's.
Trunc == INSTANCE Truncation WITH FieldWidths <- {K}

\* Conversions with its arithmetic share being x and its plaintext the
\* reconstruction of x.
Conv == INSTANCE Conversions WITH a <- x, A <- Reconstruct(x),
                                  Publics <- {}, Shifts <- {}

\* RandA::proc produces the share the next kernel reads.
RandA ==
    /\ out = None
    /\ Conv!RandA
    /\ fromRandA' = TRUE
    /\ UNCHANGED out

\* TruncAPr::proc on the current share, whatever produced it.
TruncAPr(bits) ==
    /\ Trunc!TruncAPr(bits)
    /\ UNCHANGED <<fromRandA, Others>>

\* The caller shares a new input of its own for the next kernels.
NewInput ==
    /\ Trunc!NewInput
    /\ fromRandA' = FALSE
    /\ UNCHANGED Others

Init ==
    /\ Trunc!Init
    /\ fromRandA = FALSE
    /\ owner = 0 /\ V = 0 /\ priv = Conv!PrivOf(0, 0)
    /\ pub = None /\ P = None

Next == RandA \/ NewInput \/ \E bits \in Bits : TruncAPr(bits)

Spec == Init /\ [][Next]_vars

(***************************************************************************)
(* Properties.                                                             *)
(***************************************************************************)
\* A random value from RandA, truncated by TruncAPr, is within one of its
\* arithmetic shift: RandA keeps its value in the range TruncAPr assumes
\* (the comment in RandA::proc, spec 4.1), so spec 8's bound applies.
RandTruncBound ==
    out # None /\ fromRandA /\ out.bits <= K - 2 => Trunc!Within1

=============================================================================
