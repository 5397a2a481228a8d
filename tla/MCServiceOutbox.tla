-------------------------- MODULE MCServiceOutbox --------------------------
(* Small instances of ServiceOutbox.  Row 1 is repeatable, row 2 requires  *)
(* reconciliation and is of another kind.                                  *)
EXTENDS ServiceOutbox, TLC

CONSTANTS push, log, t1, t2, t3, w1, w2

MCKindOf == [r \in Rows |-> IF r = 1 THEN log ELSE push]
MCRepeatable == Rows \cap {1}

MCSymmetry == Permutations(Tokens)
=============================================================================
