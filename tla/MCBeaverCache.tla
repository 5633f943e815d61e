---------------------------- MODULE MCBeaverCache ----------------------------
(***************************************************************************)
(* Model-checking instance of BeaverCache: two storages, so that x and y   *)
(* can be the same array or different ones, and a value can be complex    *)
(* (data and imaginary part in the two storages).                         *)
(***************************************************************************)
EXTENDS BeaverCache, TLC

CONSTANTS b1, b2

MCBuffer == {b1, b2}

\* The storages are interchangeable: nothing in the model tells them apart.
MCSymmetry == Permutations(MCBuffer)

=============================================================================
