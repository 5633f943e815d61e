----------------------------- MODULE BeaverCache -----------------------------
(***************************************************************************)
(* The Beaver replay cache and the part of the multiplication engine that  *)
(* consults it (arithmetic.cc: MulOpen, MulAA, MatMulAA, SquareA, MulA1B,   *)
(* BeaverCacheKernel).  Data is symbolic: a Beaver mask is an identifier,  *)
(* and an opened value is the pair (operand, mask) it is the opening of:   *)
(* allReduce(x - a) in the code.  Semi2kMul.tla shows that the kernels'    *)
(* combinations are correct given openings of the right operand against    *)
(* the right mask; this module shows when the cache delivers such          *)
(* openings, and how many communication rounds each call costs.            *)
(*                                                                         *)
(* An operand is a view of a buffer: the buffer itself, or its transpose,  *)
(* a view with other strides over the same storage (any other view of the  *)
(* storage, a slice or a reshape, behaves alike here).  The cache (beaver_cache.h, outside src/) is modelled from the  *)
(* specification: keyed by the backing storage and by the kind of          *)
(* multiplication (elementwise or dot); an entry is enabled or not, and    *)
(* holds a replay descriptor whose status is Init until an opening has     *)
(* been stored with it.  The Beaver source, also outside src/, replays the *)
(* mask a descriptor recorded, and records a fresh mask into an Init one.  *)
(***************************************************************************)
EXTENDS Integers, FiniteSets

CONSTANTS
    Buffer,                 \* backing storages of the values (model values)
    Views,                  \* views taken of them: FALSE plain, TRUE transposed
    DisableVectorization,   \* config().experimental_disable_vectorization
    None                    \* model value: no descriptor, opening or call

ASSUME Views \subseteq BOOLEAN /\ FALSE \in Views
ASSUME DisableVectorization \in BOOLEAN

Operand == [buf : Buffer, t : Views]
MulKind == BOOLEAN                         \* the mmul flag of MulOpen
Key     == Buffer \X MulKind

\* A Value may carry an imaginary component stored in a second buffer.
Value == {v \in [data : Buffer, imag : Buffer \cup {None}] : v.data # v.imag}

\* Mask identifiers: enough that a fresh pair always exists besides the
\* masks recorded in the cache.
Mask == 1 .. (Cardinality(Key) + 2)

Opening(o, m) == [of |-> o, mask |-> m]

\* An Init entry holds no descriptor and no opening; an entry in Replay is
\* enabled and holds both.
Entry ==
    [enabled : BOOLEAN, status : {"Init"}, desc : {None}, open : {None}]
    \cup [enabled : {TRUE}, status : {"Replay"}, desc : Mask,
          open : [of : Operand, mask : Mask]]

\* The entry GetCache returns for a storage nobody enabled.
NoEntry == [enabled |-> FALSE, status |-> "Init", desc |-> None, open |-> None]

VARIABLES
    cache,      \* [Key -> Entry]: the party's Beaver cache
    last        \* record of the last multiplication kernel, None otherwise

vars == <<cache, last>>

CacheKey(o, mmul) == <<o.buf, mmul>>

\* Masks the cache can still replay; fresh randomness differs from them.
CachedMasks == {cache[k].desc : k \in Key} \ {None}
Fresh1 == CHOOSE m \in Mask \ CachedMasks : \A n \in Mask \ CachedMasks : m <= n
Fresh2 == CHOOSE m \in Mask \ (CachedMasks \cup {Fresh1}) :
              \A n \in Mask \ (CachedMasks \cup {Fresh1}) : m <= n

(***************************************************************************)
(* Beaver source with a replay descriptor (spec 3, 4.3 step 3).  Given a   *)
(* descriptor that already holds an opening it reproduces the recorded      *)
(* mask; given an Init descriptor or none it draws fresh randomness.       *)
(***************************************************************************)
BeaverMask(c, fresh) ==
    IF c.enabled /\ c.status = "Replay" THEN c.desc ELSE fresh

\* SetCache(k, desc, v): the entry now replays desc and holds v.
SetCache(cch, k, m, v) ==
    [cch EXCEPT ![k] = [enabled |-> TRUE, status |-> "Replay",
                        desc |-> m, open |-> v]]

\* Variant of YCache with the comparison inverted (a plausible slip).
YCacheInverted(xc, yc, xs, ys) ==
    IF xs # ys /\ xc.enabled /\ xc.status = "Init"
    THEN [yc EXCEPT !.enabled = FALSE]
    ELSE yc

\* "can't init on same array twice": when x == y and x's entry is enabled
\* and Init, y's copy of the entry is disabled for this call.
YCache(xc, yc, xs, ys) ==
    IF xs = ys /\ xc.enabled /\ xc.status = "Init"
    THEN [yc EXCEPT !.enabled = FALSE]
    ELSE yc

\* Variant of Hit that trusts the enabled flag alone (a plausible slip).
HitIfEnabled(c) == c.enabled

\* An operand hits the cache when its descriptor is no longer Init.
Hit(c) == c.status # "Init"

\* allReduce calls of the opening step: one batched round when neither
\* operand hits and vectorization is on, else one round per missing operand.
OpenRounds(xhit, yhit) ==
    IF DisableVectorization \/ xhit \/ yhit
    THEN (IF xhit THEN 0 ELSE 1) + (IF yhit THEN 0 ELSE 1)
    ELSE 1

\* MulOpen(ctx, x, y, mmul), from GetCache to the SetCache calls.
MulOpen(xs, ys, mmul) ==
    LET xc  == cache[CacheKey(xs, mmul)]
        yc  == YCache(xc, cache[CacheKey(ys, mmul)], xs, ys)
        a   == BeaverMask(xc, Fresh1)
        b   == BeaverMask(yc, Fresh2)
        x_a == IF Hit(xc) THEN xc.open ELSE Opening(xs, a)
        y_b == IF Hit(yc) THEN yc.open ELSE Opening(ys, b)
        c1  == IF xc.enabled /\ xc.status = "Init"
               THEN SetCache(cache, CacheKey(xs, mmul), a, x_a) ELSE cache
        c2  == IF yc.enabled /\ yc.status = "Init"
               THEN SetCache(c1, CacheKey(ys, mmul), b, y_b) ELSE c1
    IN /\ cache' = c2
       /\ last' = [kind |-> IF mmul THEN "MatMulAA" ELSE "MulAA",
                   x |-> xs, y |-> ys, a |-> a, b |-> b, x_a |-> x_a, y_b |-> y_b,
                   rounds |-> OpenRounds(Hit(xc), Hit(yc)),
                   stored |-> xc.enabled /\ xc.status = "Init"]

(***************************************************************************)
(* Kernels.                                                                *)
(***************************************************************************)
\* MulAA(x, y): MulOpen elementwise; the combination is local.
MulAA(xs, ys) == MulOpen(xs, ys, FALSE)

\* MatMulAA(x, y): MulOpen with mmul; the combination is local.
MatMulAA(xs, ys) == MulOpen(xs, ys, TRUE)

\* SquareA(x): one operand, the elementwise entry, one opening unless hit.
SquareA(xs) ==
    LET xc  == cache[CacheKey(xs, FALSE)]
        a   == BeaverMask(xc, Fresh1)
        x_a == IF Hit(xc) THEN xc.open ELSE Opening(xs, a)
    IN /\ cache' = IF xc.enabled /\ xc.status = "Init"
                   THEN SetCache(cache, CacheKey(xs, FALSE), a, x_a) ELSE cache
       /\ last' = [kind |-> "SquareA", x |-> xs, y |-> xs, a |-> a, b |-> a,
                   x_a |-> x_a, y_b |-> x_a,
                   rounds |-> IF Hit(xc) THEN 0 ELSE 1,
                   stored |-> xc.enabled /\ xc.status = "Init"]

\* MulA1B(x, y): MulOpen on xx and yy, buffers the kernel has just
\* allocated, which no cache entry can name: two fresh openings.
MulA1B ==
    /\ last' = [kind |-> "MulA1B", x |-> None, y |-> None, a |-> Fresh1,
                b |-> Fresh2, x_a |-> None, y_b |-> None,
                rounds |-> OpenRounds(FALSE, FALSE), stored |-> FALSE]
    /\ UNCHANGED cache

\* EnableCache / DisableCache on a storage (beaver_cache.h, from the spec):
\* enabling creates an Init entry unless one is enabled already; disabling
\* clears the entry.
EnableStorage(cch, s) ==
    [k \in Key |-> IF k[1] = s /\ ~cch[k].enabled
                   THEN [NoEntry EXCEPT !.enabled = TRUE] ELSE cch[k]]
DisableStorage(cch, s) ==
    [k \in Key |-> IF k[1] = s THEN NoEntry ELSE cch[k]]

\* BeaverCacheKernel::evaluate(v, enable_cache): the data storage, then the
\* imaginary component's when the value is complex.
BeaverCacheKernel(v, enable) ==
    LET Op(cch, s) == IF enable THEN EnableStorage(cch, s)
                                ELSE DisableStorage(cch, s)
        c1 == Op(cache, v.data)
    IN /\ cache' = IF v.imag # None THEN Op(c1, v.imag) ELSE c1
       /\ last' = None

Init ==
    /\ cache = [k \in Key |-> NoEntry]
    /\ last = None

Next ==
    \/ \E xs, ys \in Operand : MulAA(xs, ys)
    \/ \E xs, ys \in Operand : MatMulAA(xs, ys)
    \/ \E xs \in Operand : SquareA(xs)
    \/ MulA1B
    \/ \E v \in Value, enable \in BOOLEAN : BeaverCacheKernel(v, enable)

Spec == Init /\ [][Next]_vars

(***************************************************************************)
(* Properties.                                                             *)
(***************************************************************************)
TypeOK ==
    /\ cache \in [Key -> Entry]
    /\ last = None \/ last.rounds \in 0 .. 2

\* Every opened value a multiplication combines with its triple is the
\* opening of that very operand against the mask the Beaver source put in
\* the triple for it, whether it was opened now or taken from the cache
\* (MulOpen lines 228-249, SquareA lines 307-311).  A cache hit that
\* returns another operand's opening, or an opening against a mask the
\* source no longer replays, makes the kernel's result wrong.
OpenConsistent ==
    last # None /\ last.kind # "MulA1B" =>
        /\ last.x_a = Opening(last.x, last.a)
        /\ last.y_b = Opening(last.y, last.b)

\* Spec 8, cache transparency: when a multiplication stored its operand x
\* in the cache, the same multiplication repeated right after it issues
\* strictly fewer communication rounds.
CacheSavesRound ==
    [][ last # None /\ last' # None /\ last.stored
        /\ last'.kind = last.kind /\ last'.x = last.x /\ last'.y = last.y
        => last'.rounds < last.rounds ]_vars

=============================================================================
