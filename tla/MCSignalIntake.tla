--------------------------- MODULE MCSignalIntake ---------------------------
(***************************************************************************)
(* SignalIntake for TLC: a cache of one, so that a key is forgotten and    *)
(* polled again, or twice in one poll; trade t2 is a second fill of t1's   *)
(* transaction, so that two trades share a key.                            *)
(***************************************************************************)
EXTENDS SignalIntake, TLC

CONSTANTS t1, t2, t3, t4, k1, k2, k3

MCTrades == {t1, t2, t3, t4}
MCKeys   == {k1, k2, k3}
MCKey    == t1 :> k1 @@ t2 :> k1 @@ t3 :> k2 @@ t4 :> k3
=============================================================================
