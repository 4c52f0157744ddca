------------------------------ MODULE MCScorer ------------------------------
(***************************************************************************)
(* Two instances and three messages of one domain, one page crawled twice.  *)
(***************************************************************************)
EXTENDS Scorer

CONSTANTS i1, i2, a, b

ThreePages == <<a, b, a>>
=============================================================================
