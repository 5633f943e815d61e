------------------------------ MODULE MCMatMul -------------------------------
(***************************************************************************)
(* Model-checking instance of MatMul: two parties, 2 x 2 matrices over     *)
(* Z/2.  Every plaintext operand and every Dot triple's a and b occur.     *)
(* Rank 0's input shares come from {0, E12}, so that a share is sometimes  *)
(* zero and sometimes a matrix that does not commute with others.  Rank 0  *)
(* gets the zero share of every triple: a rank's output is linear in its   *)
(* triple shares, and the shares enter the result only through the sum    *)
(* the openings and the combination form, so other splits of a triple add  *)
(* no case.  The public operands E12 and E21 do not commute.               *)
(***************************************************************************)
EXTENDS MatMul

\* The matrix unit E_ij: 1 at (i, j), 0 elsewhere.
Unit(i, j) == [ij \in Index |-> IF ij = <<i, j>> THEN 1 ELSE 0]
Zero == [ij \in Index |-> 0]

MCSplit   == {Zero, Unit(1, 2)}
MCRandSplit == {Zero}
MCPublics == {Unit(1, 2), Unit(2, 1)}

=============================================================================
