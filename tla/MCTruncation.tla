---------------------------- MODULE MCTruncation -----------------------------
(***************************************************************************)
(* Instances of Truncation for TLC.  With two parties every split of the  *)
(* input is tried; the correlated randomness is split in two ways only:   *)
(* each party's local step is linear in its own share of it, so the       *)
(* reconstructed output depends on the split only through the sum.        *)
(***************************************************************************)
EXTENDS Truncation

MCAllSplits  == RingElt
MCRandSplit  == {0, 9}

====
