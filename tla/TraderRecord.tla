---------------------------- MODULE TraderRecord ----------------------------
(***************************************************************************)
(* What TraderScorer keeps of a trader and how one fully closed copy       *)
(* changes it.  Money is in integer units, so the drawdown is kept as a    *)
(* fraction <<numerator, denominator>>.  Returns, ROI and the score that   *)
(* follow from them are not kept: no property here tells them apart.       *)
(***************************************************************************)
EXTENDS Integers, Sequences, FiniteSetsExt

CONSTANTS CurveSize,    \* points kept of an equity curve (2000)
          Unit          \* one USDC: the least denominator of a drawdown

ASSUME RecordAssumption == CurveSize \in Nat \ {0} /\ Unit \in Nat \ {0}

\* A new trader, as register makes it.
Fresh == [trades |-> 0, wins |-> 0, losses |-> 0, streak |-> 0, pnl |-> 0,
          curve |-> <<>>, peak |-> 0, drawdown |-> <<0, 1>>]

\* The larger of two fractions with positive denominators.
Larger(f, g) == IF g[1] * f[2] > f[1] * g[2] THEN g ELSE f

\* The last points of a curve: the oldest go.
Capped(curve) == IF Len(curve) <= CurveSize THEN curve ELSE Tail(curve)

\* The lowest point of a curve, from a start at 0.
Trough(curve) == Min({curve[i] : i \in DOMAIN curve} \cup {0})

\* Variant the checks must reject: a drawdown is measured against the peak only.
FallOfPeak(peak, curve, equity) == <<peak - equity, Max({peak, Unit})>>

\* Fall from the peak, against the widest of the peak, the trough and a unit.
Fall(peak, curve, equity) == <<peak - equity, Max({peak, -Trough(curve), Unit})>>

\* Variant: the drawdown of the moment, and not the widest so far.
RecordForgives(s, pnl) ==
  LET equity == s.pnl + pnl
      curve  == Capped(Append(s.curve, equity))
      peak   == Max({s.peak, equity})
      won    == IF pnl > 0 THEN 1 ELSE 0
  IN  [trades |-> s.trades + 1, wins |-> s.wins + won, losses |-> s.losses + 1 - won,
       streak |-> IF pnl > 0 THEN 0 ELSE s.streak + 1,
       pnl |-> equity, curve |-> curve, peak |-> peak,
       drawdown |-> Fall(peak, curve, equity)]

\* record_close: a close without profit is a loss; the drawdown never shrinks.
RecordClose(s, pnl) ==
  LET equity == s.pnl + pnl
      curve  == Capped(Append(s.curve, equity))
      peak   == Max({s.peak, equity})
      won    == IF pnl > 0 THEN 1 ELSE 0
  IN  [trades |-> s.trades + 1, wins |-> s.wins + won, losses |-> s.losses + 1 - won,
       streak |-> IF pnl > 0 THEN 0 ELSE s.streak + 1,
       pnl |-> equity, curve |-> curve, peak |-> peak,
       drawdown |-> Larger(s.drawdown, Fall(peak, curve, equity))]

RecordType == [trades : Nat, wins : Nat, losses : Nat, streak : Nat, pnl : Int,
               curve : Seq(Int), peak : Nat, drawdown : Nat \X (Nat \ {0})]
=============================================================================
