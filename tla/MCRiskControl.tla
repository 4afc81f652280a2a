--------------------------- MODULE MCRiskControl ----------------------------
(* RiskControl for TLC: one trader, or two where one is cut off. *)
EXTENDS RiskControl

CONSTANTS w1, w2

MCWallets == {w1, w2}
=============================================================================
