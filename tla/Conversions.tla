----------------------------- MODULE Conversions -----------------------------
(***************************************************************************)
(* The share conversion and local kernels of semi2k (arithmetic.cc: RandA, *)
(* P2A, A2P, A2V, V2A, NegateA, AddAP, AddAA, MulAP, LShiftA), in lock     *)
(* step as in Semi2kMul.  A session holds one arithmetic share a, one      *)
(* private value priv owned by one rank, and the last opened public value. *)
(* A and V are the plaintexts a and priv stand for by the specification;   *)
(* each kernel updates them as spec 4.1 and 4.2 describe.                  *)
(***************************************************************************)
EXTENDS Ring

CONSTANTS
    Publics,    \* public operands tried (P2A, AddAP, MulAP)
    Shifts,     \* shift amounts tried (LShiftA)
    None

VARIABLES
    a, A,           \* arithmetic shares and their plaintext
    priv, owner, V, \* private value: each rank's array, its owner, plaintext
    pub, P          \* the last value A2P opened, or None, and its plaintext

vars == <<a, A, priv, owner, V, pub, P>>

Shares == [Party -> RingElt]

\* makeConstantArrayRef: the placeholder non-owners hold, logically zero.
Placeholder == 0

\* genPrssPair(Both): party p's r0 is shared with p-1, its r1 with p+1.
PrssPair(r, p) == <<r[p], r[(p + 1) % N]>>

\* r0 - r1 of a PRSS draw, to which one rank adds its input.
PrssShare(r, p) == RingSub(PrssPair(r, p)[1], PrssPair(r, p)[2])

\* The shares of a private value owned by rank o.
PrivOf(o, v) == [p \in Party |-> IF p = o THEN v ELSE Placeholder]

Keep == UNCHANGED <<priv, owner, V, pub, P>>

(***************************************************************************)
(* Kernels.                                                                *)
(***************************************************************************)
\* RandA: each rank's private random array genPriv, shifted right by 2
\* with ring_rshift.
RandA ==
    \E g \in Shares :
        /\ a' = [p \in Party |-> RingRShift(g[p], 2)]
        /\ A' = Reconstruct(a')
        /\ Keep

\* Variant of P2A in which every rank adds the public value.
P2AAllRanks(v) ==
    \E r \in Shares :
        /\ a' = [p \in Party |-> RingAdd(PrssShare(r, p), v)]
        /\ A' = v
        /\ Keep

\* P2A: r0 - r1, and rank 0 adds the public value.
P2A(v) ==
    \E r \in Shares :
        /\ a' = [p \in Party |-> IF p = 0 THEN RingAdd(PrssShare(r, p), v)
                                          ELSE PrssShare(r, p)]
        /\ A' = v
        /\ Keep

\* A2P: the all-reduce of the shares becomes public.
A2P ==
    /\ pub' = Reconstruct(a)
    /\ P' = A
    /\ UNCHANGED <<a, A, priv, owner, V>>

\* A2V(rank): gather every share to rank, which sums them; the others get
\* a placeholder.  The gather returns one share per rank, so the size check
\* at line 85 holds in lock step.
A2V(rank) ==
    /\ priv' = PrivOf(rank, Reconstruct(a))
    /\ owner' = rank
    /\ V' = A
    /\ UNCHANGED <<a, A, pub, P>>

\* V2A: r0 - r1, and the owner adds its private array.
V2A ==
    \E r \in Shares :
        /\ a' = [p \in Party |-> IF p = owner THEN RingAdd(PrssShare(r, p), priv[p])
                                              ELSE PrssShare(r, p)]
        /\ A' = V
        /\ Keep

\* NegateA: ring_neg on every share.
NegateA ==
    /\ a' = [p \in Party |-> RingNeg(a[p])]
    /\ A' = RingNeg(A)
    /\ Keep

\* AddAP: rank 0 adds the public operand; the others pass lhs through.
AddAP(v) ==
    /\ a' = [p \in Party |-> IF p = 0 THEN RingAdd(a[p], v) ELSE a[p]]
    /\ A' = RingAdd(A, v)
    /\ Keep

\* AddAA(a, a): every rank adds its shares.
AddAA ==
    /\ a' = [p \in Party |-> RingAdd(a[p], a[p])]
    /\ A' = RingAdd(A, A)
    /\ Keep

\* MulAP: every rank multiplies its share by the public operand.
MulAP(v) ==
    /\ a' = [p \in Party |-> RingMul(a[p], v)]
    /\ A' = RingMul(A, v)
    /\ Keep

\* LShiftA: ring_lshift on every share.
LShiftA(m) ==
    /\ a' = [p \in Party |-> RingLShift(a[p], m)]
    /\ A' = RingLShift(A, m)
    /\ Keep

Init ==
    /\ a \in Shares
    /\ A = Reconstruct(a)
    /\ owner \in Party
    /\ V \in RingElt
    /\ priv = PrivOf(owner, V)
    /\ pub = None
    /\ P = None

Next ==
    \/ RandA \/ A2P \/ V2A \/ NegateA \/ AddAA
    \/ \E v \in Publics : P2A(v) \/ AddAP(v) \/ MulAP(v)
    \/ \E rank \in Party : A2V(rank)
    \/ \E m \in Shifts : LShiftA(m)

Spec == Init /\ [][Next]_vars

(***************************************************************************)
(* Properties.                                                             *)
(***************************************************************************)
\* Spec 8, sharing and private round trips: after any sequence of
\* conversions and local kernels, the shares reconstruct to the plaintext
\* the specification assigns (rank-0-only and owner-only additions, PRSS
\* telescoping), A2P opens the plaintext, the owner of a private value
\* holds it in full, and every other rank holds the placeholder.
SharesConsistent ==
    /\ Reconstruct(a) = A
    /\ pub = P
    /\ priv = PrivOf(owner, V)

=============================================================================
