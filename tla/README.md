# TLA+ models of the semi2k arithmetic kernels

This directory holds TLA+ models of `src/src/libspu/mpc/semi2k/arithmetic.cc`,
the arithmetic-share kernels of SPU's semi2k protocol, and the TLC
configurations that check them. `PROJECT.json` lists the components, the runs,
the mutants that show each property can fail, the map from every model
definition to the source lines it translates, the findings, and the hazards.

## 1. Inventory

### The system

N parties hold additive shares of values in the ring Z/2^k (k = 32, 64 or 128).
Each party runs the same sequence of kernels (SPMD). A kernel does some local
ring arithmetic, draws correlated randomness, and joins zero or more blocking
collectives. The parties meet only in those collectives (all-reduce, gather,
send/recv). Inside one party everything is sequential. The hard parts are:

* **Algebra under wrap-around.** Every kernel is a formula over shares. The
  formula has to reconstruct to the right plaintext for every split of the
  inputs and every triple, modulo 2^k. Some terms are added on rank 0 only.
* **Approximate truncation.** Three protocols shift a shared fixed-point value
  right. Each has its own range assumptions and error bound. Outside those
  bounds the error is far larger than one bit.
* **The Beaver replay cache.** This is per-party state that survives across
  kernel calls. It lets a repeated multiplication reuse an opened `x - a`
  instead of opening it again. It is correct only if the cached opening
  matches the mask that the Beaver source replays.
* **Collectives across parties.** The parties must issue the same collectives
  in the same order. The one point-to-point protocol (MulVVS) pairs ranks by
  `nextRank`/`prevRank`.

### Components, their state and operations

| Component | Source (arithmetic.cc) | State | Operations |
|---|---|---|---|
| Share conversions | `RandA` 31-44, `P2A` 46-60, `A2P` 62-67, `A2V` 69-100, `V2A` 102-118, `NegateA` 120-123 | none (new shares) | PRSS draw, rank-0 or owner adds, all-reduce, gather |
| Local kernels | `AddAP` 128-138, `AddAA` 140-146, `MulAP` 151-154, `MatMulAP` 443-446, `LShiftA` 463-466 | none | local ring ops, rank-0-only add in AddAP |
| Multiplication engine | `MulOpen` 167-260, `MulAA` 264-282, `SquareA` 284-324, `MulA1B` 332-369, `MatMulAA` 448-461 | reads and writes the Beaver cache | Beaver triple, open x-a and y-b (batched or not), combine |
| Beaver replay cache | `BeaverCacheKernel` 709-728, plus the cache calls in MulOpen and SquareA | per-party map from (storage, mmul) to (enabled, replay descriptor, opened value) | GetCache, SetCache, EnableCache, DisableCache |
| Two-party private multiply | `MulVVS` 386-438 | none | MulPriv pair, sendAsync to nextRank, recv from prevRank, combine |
| Truncation | `TruncA` 468-502, `TruncAPr` 504-572, `getTruncField` 587-597, `computeMW` 601-661, `TruncAPr2` 666-707 | none | local shift (two parties), trunc pair plus one opening, TruncPr triple plus one opening, MW through MulVVS |
| External: ring ops, Communicator, PRG, Beaver source, cache store | outside `src/` | seeds, counters, the cache table | specified only at their interface (spec section 6) |

### How the components interact

The kernels call the Communicator: `allReduce` in A2P, MulOpen, SquareA, TruncA
and TruncAPr; `gather` in A2V; `sendAsync`/`recv` in MulVVS. They call the PRG
in P2A, V2A and RandA, and the Beaver source in the multiplication and
truncation kernels. MulOpen and SquareA read the Beaver cache, and may write
it, before and after their openings. BeaverCacheKernel is the only caller that
enables or disables entries. TruncAPr2 calls computeMW, which calls MulVVS
through `mul_vv`.

### Properties that make each component correct

* Conversions and local kernels: the output shares reconstruct to the
  specified plaintext (round trips P2A/A2P and A2V/V2A). Non-owners get a
  placeholder.
* RandA composed with TruncAPr: a random value truncated is within one of
  its shift, as RandA's comment promises headroom for the operations
  downstream.
* Multiplication engine: the output reconstructs to x*y, x*x, x·(y0 XOR y1)
  or the matrix product, for every split and every consistent triple.
  Batching the two openings must not change the result.
* Beaver cache: every opening combined with a triple opens that operand
  against the mask the triple uses for it. Enable and disable never leave a
  stale entry. The cache saves communication.
* MulVVS: z0 + z1 = x*y. Every rank either finishes or fails before it
  communicates, and nobody waits forever.
* Truncation: the result is within one unit of the arithmetic shift, under
  each protocol's stated range. The precise condition under which two-party
  local truncation is that good.

The hazards in `PROJECT.json` give the lines where each of these can go wrong.

## 2. Plan

Modules, in order of importance, and what each composes:

1. `Ring` (done): Z/2^K and the ring primitives. Every data-level module
   extends it.
2. `Semi2kMul` (done): the multiplication engine at ring level. MulOpen
   without the cache, MulAA, SquareA, MulA1B, P2A.
3. `BeaverCache` (done): the cache protocol, with symbolic masks and
   openings. It covers MulOpen's and SquareA's use of the cache, the rounds
   they issue, and BeaverCacheKernel.
4. `Truncation` (done): TruncA (two parties; N > 2 modelled, not run), TruncAPr,
   getTruncField, computeMW and TruncAPr2 as kernel actions over Z/32, with
   error-bound invariants over every two-party input split.
5. `MulVVS` (done): one process per rank with point-to-point messages
   (`sendAsync`, `recv`) on FIFO links, over consecutive calls that share
   one tag, for world sizes 2 and 3. Checks correctness and termination.
6. `Conversions` (done): RandA, P2A, A2P, A2V, V2A, NegateA, AddAP, AddAA,
   MulAP, LShiftA. Checks the round trips.
7. `MulVVSSpec` (done): spec 4.4 as one atomic step per call, in call order. `MulVVS` is shown to
   refine it (INSTANCE ... WITH, the abstract spec as a PROPERTY). This
   justifies modelling computeMW's call in lock step.
8. `MatMul` (done): MatMulAA (MulOpen with mmul and a Dot triple) and
   MatMulAP on 2 x 2 matrices, where products do not commute.
9. `RandTrunc` (done): RandA composed with TruncAPr on one share, each
   through an INSTANCE of its own module.

A per-party cache model was considered and set
   aside: the caches can diverge only if the caller breaks the SPMD
   contract, which the kernels cannot detect (spec section 5).

Bounds: two parties over Z/4 enumerate every split and every triple for the
multiplications. The three-party MulA1B run over Z/4 restricts the shares
of ranks 0 and 1 in the triples and the operand to {0, 1}. Three-party
PRSS telescoping and rank-0-only terms are checked in `conv_3p`. The truncation module uses K = 5,
so it draws the split of the correlated randomness from a small set.
The cache model uses two storages, which is enough for x == y, x != y and a
complex value that spans both.

## 3. Modules and how they correspond to the code

### Ring.tla

* `RingElt == 0 .. 2^K-1` is the unsigned `ring2k_t`.
* `RingAdd`, `RingSub`, `RingMul`, `RingNeg`, `RingLShift`, `RingRShift`
  (unsigned `>>`), `RingARShift` (`ring_arshift`) and `RingBit0`
  (`ring_bitmask(x, 0, 1)`) are the ring primitives.
* `Reconstruct` is `allReduce(ADD)`: the sum of the share vector modulo 2^K.

These primitives live outside `src/`. They are modelled from the
specification (marked `spec_modelled` in the map).

### Semi2kMul.tla: multiplication at ring level

* State: the accumulator `x` (shares), a fixed operand `y`, and the ghost
  plaintext `X`.
* Actions: each is one kernel invocation by all parties in lock step, since
  the SPMD contract makes every party run the same kernel. An all-reduce
  inside it is `Reconstruct` of the contributions.
  * `MulAA` = MulOpen (`Open` of x-a and y-b) followed by `MulAAShare`.
  * `SquareA` = one opening followed by `SquareAShare`.
  * `MulA1B` = `MulA1BYY`/`MulA1BXX`, then MulOpen, then `MulA1BShare`. It
    reads `y` as a boolean share with garbage upper bits.
  * `P2A` = the PRSS pair plus a rank-0 add.
* Randomness: triples, square pairs and PRSS pairs are drawn by `\E` from
  every value the source may return. These are `MulTriples` and
  `SquarePairs`, the consistency relation of spec section 3.
* The cache is off in this module. Batched and separate openings sum the same
  contributions, so they are one formula here.

### BeaverCache.tla: the replay cache

* Data: a mask is an integer identifier. An opening is the record
  `[of |-> operand, mask |-> m]`. An operand is a view (`t` = transposed) of a
  storage.
* The cache (`beaver_cache.h`, outside `src/`) is modelled from the spec:
  * It maps (storage, mmul) to `[enabled, status, desc, open]`.
  * `SetCache` turns an entry into Replay with the descriptor's mask and the
    opening.
  * `EnableStorage` creates an Init entry unless one is already enabled.
  * `DisableStorage` clears the entry.
* The Beaver source's replay (`BeaverMask`) returns the recorded mask for an
  enabled Replay descriptor. Otherwise it returns fresh randomness: the
  smallest mask identifier no cache entry holds (`Fresh1`, `Fresh2`).
* Code that is translated:
  * `MulOpen`: GetCache for x and y, then the x == y guard (`YCache`), the
    triple, the hit test (`Hit`: status != Init), the opening path and its
    round count (`OpenRounds`), and the two conditional SetCache calls in
    order.
  * `SquareA`: the same with one operand.
  * `MulA1B`: opens two freshly allocated buffers, which never hit.
  * `BeaverCacheKernel`: enables or disables the data storage, and then the
    imaginary component's storage.
* `last` records the last multiplication's operands, masks, openings, rounds,
  and whether it stored x. Cache control steps reset it to None.

### Truncation.tla: the truncation kernels

* State: the input shares `x`, and `out`, the outcome of the last kernel:
  its name, `bits`, the value its output shares reconstruct to, and a ghost
  flag `exact`. The flag is set when the pieces TruncA shifts separately sum
  without signed overflow: the two shares, or the opened `x - r` and `r`.
* Actions: `TruncA(bits)`, `TruncAPr(bits)` and `TruncAPr2(bits)` each run
  one kernel on `x` with all parties in lock step. `NewInput` gives the
  caller a new input once a result exists.
* Code that is translated:
  * `TruncA`: the world-size branch. Two parties take `TruncALocalShare`
    (ring_arshift of each share). More parties take `TruncAPairShare`: open
    `x - r`, and rank 0 adds its shift to `rt`.
  * `TruncAPr`: `TruncAPrMasked` (rank 0 adds 2^(k-2), every rank adds `r`),
    the opening `c`, then `TruncAPrShare`. That step covers the carry bit
    `b`, `c_hat`, and rank 0's re-encoding `y -= 2^(k-2-bits)`. Unsigned
    wrap-around is kept throughout.
  * `TruncAPr2`: `TruncField` (getTruncField) picks the narrow ring, and
    `MWStar` gives each rank's one-bit classification. `MulVVSShares` is
    MulVVS's local combination in that ring, and `ComputeMW` adds rank 0's
    correction. `TruncAPr2Share` casts MW to the full ring and adds the rank.
* Randomness: the Beaver source's `Trunc`, `TruncPr` and `MulPriv` outputs
  are drawn by `\E` from every value the spec allows (`TruncPairs`,
  `TruncPrTriples`, `MulPrivPairs`).
* `TruncAPr2` is enabled only when N = 2. The kernel's
  `SPU_ENFORCE(rank == 0 || rank == 1)` makes it a two-party kernel.

### MulVVS.tla: the private multiplication, one process per rank

* The model covers `Calls` consecutive invocations, as a caller such as
  computeMW makes them one after another. Every call sends and receives
  under the same tag `"a0+x_or_a1+y"`. The Communicator spec calls the tag
  an accounting label, not a matching key. So nothing but the order of
  messages on a link tells one call's message from the next one's.
* State:
  * the owners `XRank`, `YRank`, fixed across calls, with distinct owners
    as `wrap_mulvvs` enforces;
  * per call, the inputs `xin[i]`, `yin[i]` and the MulPriv pair `pair[i]`,
    drawn from `MulPrivPairs`;
  * each rank's current `call`, its `pc`, and its output share `z[p][i]`
    per call;
  * `link[<<p, q>>]`, the sequence of values p sent to q and q has not yet
    received.
* `Start(p)` is the code up to `sendAsync`. A rank that owns neither
  operand throws (line 404). An owner appends `a + in` to the link to
  `NextRank(p)` and goes on without waiting.
* `Finish(p)` is the blocking `recv` from `PrevRank(p)`. `Recv` takes the
  oldest message on the link. Then comes `Combine`: rank 0 computes
  `tmp * in + c`, rank 1 computes `tmp * (-a) + c`, and any other rank
  throws (line 434). A rank that returns enters its next call.
* Because `sendAsync` does not wait, rank 0 can return from call 1 and
  send its call-2 message before rank 1 has received call 1's. Two
  messages are then in flight on one link.
* `LockStep` maps the state onto `MulVVSSpec`:
  * per call, the abstract inputs are rank 0's and rank 1's operands, and
    the pair is their MulPriv values;
  * a call's abstract shares appear when both ranks have returned from it.

  `RefinesLockStep` checks that every interleaving implements the atomic
  steps, one per call and in call order.
* Ranks step in any interleaving. Fairness is weak fairness of each rank's
  two steps: every party is an independent process the OS keeps
  scheduling, and the Communicator delivers what was sent (spec sections 5
  and 6). Delivery is reliable at this layer; lost messages are the
  transport's concern.

### MatMul.tla: the matmul kernels at ring level

* Matrices are functions on `Dim \X Dim`. `MatProd` is `ring_mmul`, and
  `MatReconstruct` is the all-reduce of matrix shares.
* State: the shares of the two operands `x` and `y`, and `out`, the
  outcome of the last kernel. `out` records the right-hand operand as the
  specification reads it (Y, X, or the public V) and the matrix the output
  shares reconstruct to.
* `DotTriples` is what `Beaver::Dot` promises: shares of a, b and c = a.b.
* `MatMulAA` is `MatMulAA::proc` with `MulOpen(ctx, x, y, true)`. It opens
  X-A and Y-B (`MatOpen`), then each rank computes
  `(X-A).Bi + Ai.(Y-B) + Ci` (`MatMulAAShare`, lines 454-460), and rank 0
  adds `(X-A).(Y-B)`. The right operand is y, or x itself (x dot x).
* `MatMulAP` is `ring_mmul` of each share by a public matrix.
* `Again` lets the caller invoke another kernel on the same operands.
* The matrices are square. MulOpen's shape checks then always hold, and
  either operand order type-checks. So only the order the code writes
  decides the result.

### RandTrunc.tla: RandA composed with TruncAPr

* The state is Truncation's share `x` and outcome `out`, Conversions'
  private and public values, and `fromRandA`, whether `x` came from
  RandA.
* `Conv` instances Conversions with its share `a` being `x` and its
  plaintext the reconstruction of `x`. `Trunc` instances Truncation.
* `RandA` is `Conv!RandA`. `TruncAPr(bits)` is `Trunc!TruncAPr(bits)`.
  `NewInput` is the caller sharing an input of its own.
* The state is small (K=5, N=2, caller inputs shared (0, v)). RandA draws
  every pair of private random shares.

### Conversions.tla: conversions and local kernels

* State:
  * an arithmetic share `a` and its plaintext `A`;
  * a private value: each rank's array `priv`, its `owner`, and its
    plaintext `V`;
  * the last public value `pub` A2P opened, and its plaintext `P`;
* One action per kernel, with all parties in lock step:
  * `RandA`: per-party `genPriv`, then `ring_rshift` by 2.
  * `P2A(v)`: r0 - r1, and rank 0 adds v.
  * `A2P`: all-reduce.
  * `A2V(rank)`: gather, the owner sums the shares, and the others get the
    placeholder, a constant array that is logically zero.
  * `V2A`: r0 - r1, and the owner adds its array.
  * `NegateA`, `AddAP(v)` (rank 0 only), `AddAA` (a share added to
    itself), `MulAP(v)` and `LShiftA(m)`.

## 4. Runs

| Run | Expect | What it shows |
|---|---|---|
| `mul_2p` (MCSemi2kMul_2p.cfg, K=2, N=2) | pass | `SharingCorrect`: after any sequence of P2A, MulAA, SquareA and MulA1B, every split and every triple, the accumulator reconstructs to the specified product. MulA1B's mask of a dirty bit share is needed for this. |
| `mul_a1b_3p` (K=2, N=3) | violation | `SharingCorrect` with MulA1B and three parties. x = 1 shared (0,0,1) times the bit shared (1,1,0), whose XOR is 0, reconstructs to 2. |
| `cache_open` (default configuration) | pass | `TypeOK`: every cache entry is well formed; a Replay entry holds an opening. `OpenConsistent` for whole-buffer operands: any interleaving of enable/disable (complex values included), MulAA, MatMulAA, SquareA and MulA1B. Each opening combined is that operand's, against the triple's mask. |
| `cache_rounds` (default configuration) | violation | `CacheSavesRound`, spec 8's claim that a repeated multiplication after caching issues strictly fewer rounds. Enable the cache on x, compute x*y (both miss: one batched round), compute x*y again (x hits, y is opened alone: one round). |
| `matmul_2p` (K=1, N=2, 2 x 2) | pass | `MatMulCorrect`: for every operand, every Dot triple, both right operands (y, and x itself) and two non-commuting public matrices, the output reconstructs to the product in the specified order. |
| `cache_transpose` | violation | `OpenConsistent` once transposed views exist. `x*x` caches x's opening under x's storage, and `x.T * x` then hits it for x.T. |
| `trunc_2p` (K=5, N=2, bits 1..3) | pass | `TruncANearExact`: local truncation is within one of `x >> bits` whenever the signed shares do not overflow. `TruncAPrBound`: TruncAPr is within one for x in [-2^(k-2), 2^(k-2)) and bits <= k-2. `TruncAPr2Bound`: TruncAPr2 is within one for \|x\| < L/4, including the cast of MW from the narrow ring. All hold for every input split, triple and MulPriv pair. |
| `mulvvs_2p` (K=2, N=2, two calls) | pass | `MulVVSCorrect`: once ranks 0 and 1 have returned from a call, their shares sum to that call's x*y. This holds for both owner orders, every input, every pair with values in {1, 2}, and every interleaving, including two calls' messages in flight on one link. A receive that took any message rather than the oldest breaks it. `Terminates`: both ranks return. `RefinesLockStep`: the per-rank protocol implements spec 4.4's atomic step. |
| `mulvvs_3p` (K=2, N=3) | violation | `Terminates`. The non-owner throws before sending. Rank 0 then waits forever in `recv` on rank 2. |
| `conv_3p` (K=2, N=3) | pass | `SharesConsistent`: after any sequence of conversions and local kernels, the shares reconstruct to the specified plaintext, A2P opens it, and only the owner holds a private value. |
| `randa_truncapr` (MCRandTrunc.cfg, K=5, N=2) | violation | `RandTruncBound`: RandA yields 9 in Z/32 (shares 2 and 7), outside [-8, 8). TruncAPr by one bit then gives 21 (that is, -11) instead of 4. |
| `trunc_zero` | violation | `TruncAPr2Zero`, the comment's claim that trunc(0) = 0. x = 0 shared as (0, 0) truncates to 1. |

### Findings

* **Views of one storage.** The spec keys the cache by backing storage. The
  x == y guard at line 178 compares views (the FIXME at line 179 names
  `x.t dot x`), so two views of one storage share an entry and one reads the
  other's opening. This finding rests on the keying the specification gives
  the cache, whose code is not in `src/`.

* **MulA1B with more than two parties.** The spec presents MulA1B as a
  semi2k kernel for N parties. Its identity (the comment above
  `MulA1B::proc`) removes only the diagonal terms `xx_i*yy_i`, which is
  correct for two parties only. The kernel does not check the world size.
* **TruncAPr2 and zero.** The comment at lines 690-692 says adding the rank
  makes trunc(0, fxp_bits) = 0. When rank 0's share of 0 is a multiple of
  2^bits, the local shifts are exact and the +1 overshoots. The result is
  then 2^-fxp_bits, which has probability 2^-bits over the share.
  It is still within the one-bit bound.

* **The cache does not always save a round.** Spec 8 says the second of
  two equal multiplications after caching an operand issues strictly
  fewer rounds. With vectorization on (the default), two misses share one
  batched all-reduce (lines 243-249). When x hits, y is opened on its
  own (line 240): still one round. Caching one operand saves bytes, not
  rounds. Only with `experimental_disable_vectorization` does the repeat
  drop from two rounds to one.

* **MulVVS with three parties.** The spec says a rank other than 0 or 1
  fails fatally, and that fatal conditions abort the computation for all
  parties. Only the offending rank throws. The other ranks pair by
  `nextRank`/`prevRank`, so rank 0 blocks on a rank that has already
  thrown. TruncAPr2's rank check at line 676 stops rank 2 the same way,
  before ranks 0 and 1 reach MulVVS.

* **RandA's range.** Spec 4.1 says RandShare keeps the value within
  [-2^(k-2), 2^(k-2)). The code shifts each party's private random share
  logically, so the sum lies in [0, N*2^(k-2)). That exceeds the input
  range TruncAPr assumes, and `randa_truncapr` shows the consequence: a
  RandA value truncated by TruncAPr is off by 15 in Z/32.

### Bounds and why they suffice

* Multiplication formulas are polynomial identities in the shares. Z/4 with
  two parties already has:
  * wrap-around in every product;
  * a garbage bit above bit 0 in the boolean share;
  * triples whose shares are not themselves products.

  A rank-0-only term added by every rank is already wrong with two
  parties. The three-party runs (`conv_3p`, `mul_a1b_3p`) add a
  share that is neither rank 0's nor the last rank's.
* Truncation errors come from carries between the shifted pieces. Z/32
  with bits 1 to 3 exercises:
  * shifts below, at and above the narrow ring width (getTruncField chooses
    widths 2, 3 and 5 here, standing for FM32/FM64/FM128);
  * bits = k-2, where TruncAPr's re-encoding term is 1;
  * every two-party input split, including overflowing ones.

  Each party's local step is linear in its own share of the correlated
  randomness. The reconstructed result therefore depends on that split only
  through the sum, and two split values per rank suffice.
* Matrix products over Z/2 with 2 x 2 matrices already fail to commute
  (E12.E21 differs from E21.E12). So swapping a factor's side is visible.
  Every plaintext operand and every triple's a and b are enumerated.
  Rank 0's triple shares are zero: a rank's result is linear in its triple
  shares, and those shares reach the output only through sums.
* MulVVS runs two calls with two parties. That is the least number at
  which a link can hold messages of two calls. MulPriv values a0, a1 and
  c0 range over {1, 2}, with c1 computed from them. This keeps odd and
  even masks, and a nonzero c0. The combination is then checked against
  every input, and two calls' messages differ. `mulvvs_3p` needs only one
  call to show the hang.
* The cache model's behaviour depends only on which operands coincide and on
  what the cache holds. Two storages give equal and distinct operands, and a
  complex value spanning both. Masks are recycled: fresh randomness only has
  to differ from the masks the cache may replay. Symmetry over the storages
  is sound because nothing in the model distinguishes them.

### Fairness

The lock-step modules state only safety. Their kernels are straight-line
code whose only waits are collectives, which are atomic steps there.
`MulVVS` states termination under weak fairness of each rank's steps. Its
runs set `CHECK_DEADLOCK FALSE` because a bounded number of invocations
really ends: every rank returns from its last call or throws, and then
nothing is enabled.

## 5. What is not modelled, and why

* Truncation with more than two parties is modelled but not checked:
  `TruncA`'s truncation-pair branch (lines 480-500) and `TruncAPr` with
  N = 3. The project's run budget goes to the findings instead. TruncAPr's
  shares of ranks other than 0 take the same else branch as rank 1, which
  `trunc_2p` checks. The pair branch's rank-0-only term has the same shape
  as the rank-0-only terms `conv_3p` and `mul_2p` check.
* Ring widths of 32 to 128 bits. The formulas are width-generic, and the
  model uses K = 2 to 5.
* Array shapes, strides and the `SPU_ENFORCE` size checks on Beaver buffers.
  These are precondition checks on external collaborators. MatMul uses
  square matrices, where MulOpen's shape checks always hold. Non-square
  shapes change only the index sets of `MatProd`, not the order of
  factors.
* PRG seeds, the triple generation protocol, and the Communicator's
  transport. These are external (spec section 1). Their outputs are drawn
  nondeterministically.
* Lifetime of cached storages. The cache is keyed by storage identity. Reuse
  of a freed storage's address by a new array is outside `src/` and is not
  modelled.
* Security (what an opening reveals) is not a safety property TLC can state
  over these abstractions, beyond the consistency of openings and masks.
