------------------------------- MODULE MulVVS --------------------------------
(***************************************************************************)
(* MulVVS::proc (arithmetic.cc), the two-party private multiplication, as  *)
(* one process per rank.  Unlike the kernels modelled in lock step, MulVVS *)
(* talks point to point: each rank sends to nextRank with sendAsync, which *)
(* does not wait, and blocks in recv on prevRank.  Ranks take their steps  *)
(* in any interleaving, over Calls consecutive invocations; every call     *)
(* uses the same tag, so a link is a FIFO sequence of the values sent.     *)
(*                                                                         *)
(* The ring is the Ring module's Z/2^K: computeMW calls MulVVS in the      *)
(* truncation field, whose width K stands for here.                        *)
(***************************************************************************)
EXTENDS Ring, Sequences

CONSTANTS
    Calls,      \* consecutive MulVVS invocations (computeMW makes one each)
    MaskVals,   \* values a0, a1 and c0 of a MulPriv pair range over
    None

Call == 1 .. Calls

VARIABLES
    XRank,      \* owner of the private operand x (the same in every call)
    YRank,      \* owner of the private operand y
    xin, yin,   \* [Call -> RingElt]: the owners' plaintext inputs per call
    pair,       \* [Call -> MulPrivPairs]: the MulPriv pair of each call
    call,       \* [Party -> Call]: the invocation each rank is in
    pc,         \* [Party -> {"init", "sent", "done", "failed"}]
    link,       \* [Party \X Party -> Seq(RingElt)]: messages in flight
    z           \* [Party -> [Call -> RingElt \cup {None}]]: output shares

vars == <<XRank, YRank, xin, yin, pair, call, pc, link, z>>

NextRank(p) == (p + 1) % N
PrevRank(p) == (p + N - 1) % N

\* MulPriv(field, numel): (a0, c0) for rank 0 and (a1, c1) for rank 1 with
\* a0 * a1 = c0 + c1; the values other ranks get play no part and are 0.
MulPrivPairs ==
    {[a |-> [p \in Party |-> IF p = 0 THEN q[1] ELSE IF p = 1 THEN q[2] ELSE 0],
      c |-> [p \in Party |-> IF p = 0 THEN q[3]
                             ELSE IF p = 1 THEN RingSub(RingMul(q[1], q[2]), q[3])
                             ELSE 0]] : q \in MaskVals \X MaskVals \X MaskVals}

\* The input rank p multiplies in call i: x for its owner, y for its owner.
InOf(p, i) == IF p = XRank THEN xin[i] ELSE yin[i]
In(p) == InOf(p, call[p])

\* Variant of Recv that may hand over any message on the link.
RecvAnyOrder(ch) == {<<ch[i], SubSeq(ch, 1, i - 1) \o SubSeq(ch, i + 1, Len(ch))>> :
                        i \in 1 .. Len(ch)}

\* recv(prevRank): the link delivers the oldest message sent on it (the
\* tag is the same in every call); the message and what remains.
Recv(ch) == IF ch = <<>> THEN {} ELSE {<<Head(ch), Tail(ch)>>}

\* Variant of Start that waits for the peer's message before sending.
StartRecvFirst(p) ==
    /\ pc[p] = "init"
    /\ link[PrevRank(p), p] # <<>>
    /\ IF p \notin {XRank, YRank}
       THEN /\ pc' = [pc EXCEPT ![p] = "failed"]
            /\ UNCHANGED link
       ELSE /\ link' = [link EXCEPT ![<<p, NextRank(p)>>] =
                           Append(@, RingAdd(pair[call[p]].a[p], In(p)))]
            /\ pc' = [pc EXCEPT ![p] = "sent"]
    /\ UNCHANGED <<XRank, YRank, xin, yin, pair, call, z>>

\* Up to sendAsync: a rank that owns neither operand throws (line 404);
\* an owner takes its MulPriv share and sends a + in to nextRank.
Start(p) ==
    /\ pc[p] = "init"
    /\ IF p \notin {XRank, YRank}
       THEN /\ pc' = [pc EXCEPT ![p] = "failed"]
            /\ UNCHANGED link
       ELSE /\ link' = [link EXCEPT ![<<p, NextRank(p)>>] =
                           Append(@, RingAdd(pair[call[p]].a[p], In(p)))]
            /\ pc' = [pc EXCEPT ![p] = "sent"]
    /\ UNCHANGED <<XRank, YRank, xin, yin, pair, call, z>>

\* Variant of Combine in which rank 0 forgets ring_add_(tmp, c).
CombineNoC(p, tmp) ==
    LET q == pair[call[p]]
    IN IF p = 0 THEN RingMul(tmp, In(p))
                ELSE RingAdd(RingMul(tmp, RingNeg(q.a[p])), q.c[p])

\* After recv: rank 0 computes tmp * in + c, rank 1 tmp * (-a) + c.
Combine(p, tmp) ==
    LET q == pair[call[p]]
    IN IF p = 0 THEN RingAdd(RingMul(tmp, In(p)), q.c[p])
                ELSE RingAdd(RingMul(tmp, RingNeg(q.a[p])), q.c[p])

\* recv from prevRank blocks until a message is there; then rank 0 or 1
\* combines and returns, going on to its next call, and any other rank
\* throws (line 434).
Finish(p) ==
    /\ pc[p] = "sent"
    /\ \E r \in Recv(link[PrevRank(p), p]) :
         /\ link' = [link EXCEPT ![<<PrevRank(p), p>>] = r[2]]
         /\ IF p \in {0, 1}
            THEN /\ z' = [z EXCEPT ![p][call[p]] = Combine(p, r[1])]
                 /\ IF call[p] < Calls
                    THEN /\ call' = [call EXCEPT ![p] = @ + 1]
                         /\ pc' = [pc EXCEPT ![p] = "init"]
                    ELSE /\ pc' = [pc EXCEPT ![p] = "done"]
                         /\ UNCHANGED call
            ELSE /\ pc' = [pc EXCEPT ![p] = "failed"]
                 /\ UNCHANGED <<z, call>>
    /\ UNCHANGED <<XRank, YRank, xin, yin, pair>>

\* wrap_mulvvs and MulVVS enforce distinct owners (SPU_ENFORCE_NE).
Init ==
    /\ XRank \in Party
    /\ YRank \in Party \ {XRank}
    /\ xin \in [Call -> RingElt]
    /\ yin \in [Call -> RingElt]
    /\ pair \in [Call -> MulPrivPairs]
    /\ call = [p \in Party |-> 1]
    /\ pc = [p \in Party |-> "init"]
    /\ link = [l \in Party \X Party |-> <<>>]
    /\ z = [p \in Party |-> [i \in Call |-> None]]

Next == \E p \in Party : Start(p) \/ Finish(p)

\* Each party is an independent process that keeps being scheduled, and
\* the Communicator delivers what was sent (spec 5, 6).
Fairness == \A p \in Party : WF_vars(Start(p)) /\ WF_vars(Finish(p))

Spec == Init /\ [][Next]_vars /\ Fairness

\* Both ranks have returned from call i.
Returned(i) == z[0][i] # None /\ z[1][i] # None

\* The lock-step view: per call, rank 0's and rank 1's inputs, their
\* MulPriv values, and the output shares once both ranks have returned.
LockStep == INSTANCE MulVVSSpec WITH
    u <- [i \in Call |-> InOf(0, i)], v <- [i \in Call |-> InOf(1, i)],
    pair <- [i \in Call |-> [a0 |-> pair[i].a[0], a1 |-> pair[i].a[1],
                             c0 |-> pair[i].c[0], c1 |-> pair[i].c[1]]],
    shares <- [i \in Call |-> IF Returned(i) THEN [p \in {0, 1} |-> z[p][i]]
                                             ELSE None]

(***************************************************************************)
(* Properties.                                                             *)
(***************************************************************************)
\* Spec 8, two-party private multiply, over consecutive calls: once ranks
\* 0 and 1 have both returned from a call, their shares sum to that call's
\* x * y, whoever owns which operand, even though one rank may already
\* have sent its next call's message, under the same tag, before the other
\* received this call's.
MulVVSCorrect ==
    \A i \in Call : Returned(i) => RingAdd(z[0][i], z[1][i]) = RingMul(xin[i], yin[i])

\* Every rank eventually returns or throws: no rank waits forever in recv
\* (spec 4.4: a rank other than 0 or 1 fails fatally; spec 7: a fatal
\* condition aborts the computation for all parties).
Terminates == <>(\A p \in Party : pc[p] \in {"done", "failed"})

\* With two parties, consecutive MulVVS calls in any interleaving of the
\* ranks' sends, receives and combinations implement the atomic steps of
\* spec 4.4 that computeMW is modelled with, one per call and in order:
\* each call's shares appear together, are the formula's, and eventually
\* appear.
RefinesLockStep == LockStep!Spec

=============================================================================
