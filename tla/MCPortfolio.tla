---------------------------- MODULE MCPortfolio -----------------------------
(* Portfolio for TLC: interchangeable position ids, all of one token. *)
EXTENDS Portfolio, TLC

CONSTANTS p1, p2, p3, t

TwoIds   == {p1, p2}
ThreeIds == {p1, p2, p3}
TokenT   == {t}
OneToken == [i \in Ids |-> t]
SymThree == Permutations(ThreeIds)
=============================================================================
