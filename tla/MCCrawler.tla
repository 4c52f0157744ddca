------------------------------ MODULE MCCrawler ------------------------------
(***************************************************************************)
(* Two instances with one worker each, so channels of two; two requests of  *)
(* three URLs, one invalid: five valid, one more than one instance holds.   *)
(***************************************************************************)
EXTENDS Crawler

CONSTANTS i1, i2, w1, j1, j2, good, bad

Posts == [j \in {j1, j2} |-> IF j = j1 THEN <<good, good, good>> ELSE <<good, good, bad>>]
=============================================================================
