-------------------------- MODULE MCEventExtractor --------------------------
(***************************************************************************)
(* Two pages of one material, batches of two and one failure; a goal that   *)
(* may link the material's spot and spread indicators, and one that may     *)
(* link the spot.                                                          *)
(***************************************************************************)
EXTENDS EventExtractor
CONSTANTS g1, g2, spot, spread
MayLink == {<<g1, spot>>, <<g1, spread>>, <<g2, spot>>}
=============================================================================
