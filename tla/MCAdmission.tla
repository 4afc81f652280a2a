---------------------------- MODULE MCAdmission -----------------------------
(* Admission for TLC: three tokens, each with a market, two of them in one     *)
(* correlation group.                                                        *)
EXTENDS Admission, TLC

CONSTANTS w1, w2, t1, t2, t3, p1, p2, p3

MCMarketOf == t1 :> t1 @@ t2 :> t2 @@ t3 :> t3
MCGroupOf  == t1 :> t1 @@ t2 :> t1 @@ t3 :> t3
MCPasts    == {1}
MCSymmetry == Permutations({p1, p2, p3})
=============================================================================
