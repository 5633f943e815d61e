---------------------------- MODULE MCSemi2kMul ------------------------------
(***************************************************************************)
(* Model-checking instance of Semi2kMul.  Two parties over Z/4: every      *)
(* sharing and every triple of the ring is enumerated, the ring is wide    *)
(* enough for the garbage bit of a boolean share and for wrap-around in    *)
(* products.  Three parties over Z/4 exercise MulA1B with a third share;  *)
(* there the shares of ranks 0 and 1 in the triples and in the fixed       *)
(* operand come from SplitSet (rank 2's share still takes every value, so  *)
(* every sum occurs), while the accumulator and the PRSS draws range over  *)
(* every share vector.                                                     *)
(***************************************************************************)
EXTENDS Semi2kMul

SplitSet == {0, 1}

SplitShares ==
    {s \in [Party -> RingElt] : \A p \in Party \ {N - 1} : s[p] \in SplitSet}

MCMulTriples ==
    {t \in [a : SplitShares, b : SplitShares, c : SplitShares] :
        Reconstruct(t.c) = RingMul(Reconstruct(t.a), Reconstruct(t.b))}

MCSquarePairs ==
    {t \in [a : SplitShares, b : SplitShares] :
        Reconstruct(t.b) = RingMul(Reconstruct(t.a), Reconstruct(t.a))}

MCInit ==
    /\ x \in Shares
    /\ y \in SplitShares
    /\ X = Reconstruct(x)

=============================================================================
