---------------------------- MODULE MCForecaster ----------------------------
(***************************************************************************)
(* Two goals that may link one indicator, and an indicator nobody links.    *)
(***************************************************************************)
EXTENDS Forecaster
CONSTANTS g1, g2, spot, hedge
MayLink == {<<g1, spot>>, <<g2, spot>>}
=============================================================================
