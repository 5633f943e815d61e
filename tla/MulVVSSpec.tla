----------------------------- MODULE MulVVSSpec ------------------------------
(***************************************************************************)
(* The two-party private multiplication as spec 4.4 states it, one atomic  *)
(* step per call: rank 0 holds u and rank 1 holds v; with a private-       *)
(* multiply pair (a0 * a1 = c0 + c1) rank 0 ends with u*(v + a1) + c0 and  *)
(* rank 1 with -a1*(u + a0) + c1.  Calls complete in the order they are    *)
(* made.  This is how Truncation's computeMW uses MulVVS; the per-rank     *)
(* protocol of MulVVS.tla is checked to implement it.                      *)
(***************************************************************************)
EXTENDS Ring

CONSTANTS Calls, None

Call == 1 .. Calls

VARIABLES
    u, v,       \* [Call -> RingElt]: the inputs of rank 0 and rank 1
    pair,       \* [Call -> Pairs]
    shares      \* [Call -> None or the output shares of ranks 0 and 1]

vars == <<u, v, pair, shares>>

Pairs ==
    {q \in [a0 : RingElt, a1 : RingElt, c0 : RingElt, c1 : RingElt] :
        RingMul(q.a0, q.a1) = RingAdd(q.c0, q.c1)}

Init ==
    /\ u \in [Call -> RingElt]
    /\ v \in [Call -> RingElt]
    /\ pair \in [Call -> Pairs]
    /\ shares = [i \in Call |-> None]

Mul(i) ==
    /\ shares[i] = None
    /\ i = 1 \/ shares[i - 1] # None
    /\ shares' = [shares EXCEPT ![i] =
         [p \in {0, 1} |->
            IF p = 0 THEN RingAdd(RingMul(u[i], RingAdd(v[i], pair[i].a1)), pair[i].c0)
                     ELSE RingAdd(RingMul(RingNeg(pair[i].a1), RingAdd(u[i], pair[i].a0)),
                                  pair[i].c1)]]
    /\ UNCHANGED <<u, v, pair>>

Next == \E i \in Call : Mul(i)

Spec == Init /\ [][Next]_vars /\ WF_vars(Next)

=============================================================================
