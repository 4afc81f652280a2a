----------------------------- MODULE Admission ------------------------------
(***************************************************************************)
(* The money of a copy: what filter, sizer and gate admit from the books   *)
(* of the moment, what its execution costs some awaits later, what its     *)
(* closes, which the exit task makes meanwhile, add to the books and to    *)
(* the record of the trader who was copied, and the cutoff that a record   *)
(* over its limits puts in the store, from which every gate reads it.      *)
(*                                                                         *)
(* Sizes and prices are integers; percentages are whole.  The Kelly stake  *)
(* of a trader with an edge may be any amount: the caps cut it.  How       *)
(* the stops reach the gate is module RiskControl's, so that a trader who  *)
(* is cut off may still be copied here; a crash between the two halves of  *)
(* a position's change is Portfolio's.  Positions are long: a sell never   *)
(* opens one.  Blind copies, which skip filter, sizer and gate             *)
(* (orchestrator.py:199-226), are not among the entries.                   *)
(***************************************************************************)
EXTENDS TraderRecord, FiniteSets, Functions

CONSTANTS Wallets, Tokens,
          MarketOf, GroupOf,    \* of a token: its market, its correlation group
          Ids,                  \* bound: positions in memory or in the store
          MaxOpen,              \* risk.max_open_positions
          Prices,               \* quotes, trades and fills
          MaxShares,            \* bound: shares of one copy
          Start, Reserve,       \* starting_bankroll_usdc, and reserve_pct of it
          MinPrice, MaxPrice, MovePct,  \* of the filter
          SlipPct,              \* max_slippage_pct
          TradePct, MarketPct, GlobalPct, GroupPct,     \* caps, of the bankroll
          MinNotional,
          LossCutoff, DrawdownPct,      \* a trader's limits: losses in a row, drawdown
          MinScored,            \* min_trades_for_score
          Pasts,                \* PnL of the one blind copy a trader may have behind him
          Faults,               \* "crash" and "store" (a call after a fill raises)
          MaxOpens, MaxFaults, MaxRestores      \* bounds

\* What the configuration is checked for when it is loaded.
Validated ==
  /\ MinPrice \in Nat /\ MaxPrice \in Nat /\ MinPrice < MaxPrice
  /\ Start \in Nat \ {0} /\ Reserve \in 0..Start - 1 /\ MinNotional \in Nat
  /\ {MovePct, SlipPct, TradePct, MarketPct, GlobalPct, GroupPct} \subseteq 0..100
  /\ TradePct <= MarketPct /\ SlipPct <= 25
  /\ LossCutoff \in Nat \ {0} /\ DrawdownPct \in 0..100

ASSUME AdmissionAssumption ==
  /\ Validated
  /\ MarketOf \in [Tokens -> Tokens] /\ GroupOf \in [Tokens -> Tokens]
  /\ IsFiniteSet(Wallets) /\ Wallets # {} /\ Tokens # {}
  /\ IsFiniteSet(Ids) /\ MaxOpen \in Nat /\ Prices \subseteq Nat \ {0} /\ MaxShares \in Nat \ {0}
  /\ MinScored \in Nat /\ Pasts \subseteq Int
  /\ Faults \subseteq {"crash", "store"} /\ MaxOpens \in Nat /\ MaxFaults \in Nat
  /\ MaxRestores \in Nat

VARIABLES
  pos,          \* by id: the open position, or NoPosition
  disk,         \* store: the positions table, of its open rows
  realized,     \* _realized_pnl
  record,       \* TraderScorer._stats
  rows,         \* store: the trader_stats table
  was,          \* what it had before the first life
  cut,          \* store: the trader_cutoffs table
  restored,     \* traders an operator restored after their last saved close
  restores,
  buy,          \* the entry in execution, with what the gate saw
  sell,         \* the close whose record is to be kept
  opens, closes,        \* positions opened, and rows of positions closed, over all lives
  over,         \* what entries cost beyond the price they were sized at
  crashes, misses

money == <<pos, disk, realized>>
stats == <<record, rows, was>>
limit == <<cut, restored, restores>>
tasks == <<buy, sell>>
count == <<opens, closes, over, crashes, misses>>
vars  == <<money, stats, limit, tasks, count>>

NoPosition == [who |-> CHOOSE w \in Wallets : TRUE, tok |-> CHOOSE t \in Tokens : TRUE,
               price |-> 0, size |-> 0, pnl |-> 0]
Idle       == [step |-> "idle"]

Held        == {i \in Ids : pos[i].size > 0}
InMarket(t) == {i \in Held : MarketOf[pos[i].tok] = MarketOf[t]}
InGroup(t)  == {i \in Held : GroupOf[pos[i].tok] = GroupOf[t]}
Pending     == IF sell.step = "closed" THEN {sell.id} ELSE {}
Free        == {i \in Ids : pos[i].size = 0 /\ disk[i].size = 0} \ Pending
Cost        == [i \in Ids |-> pos[i].price * pos[i].size]
CostOf(S)   == SumFunctionOnSet(Cost, S)

\* Starting bankroll and realized PnL, less the cost of what is open.
Raw == Start + realized - CostOf(Held)

\* Variant the checks must reject: the reserve counts as deployable.
BankrollWhole == Max({0, Raw})

\* deployable_bankroll.
Bankroll == Max({0, Raw - Reserve})

Within(amount, pct, base) == 100 * amount <= pct * base

CanFail == "store" \in Faults /\ crashes + misses < MaxFaults

\* upsert_position, after the change in memory; when it raises the change stays.
Upsert(i, row) ==
  \/ disk' = [disk EXCEPT ![i] = row] /\ UNCHANGED misses
  \/ CanFail /\ misses' = misses + 1 /\ UNCHANGED disk

----------------------------------------------------------------------------
(* The entry task.                                                         *)

\* SignalFilter: the trader's price is not extreme, and the ask has not run away
\* from it.  His score, the depth of the book and its spread are free.
Accepted(px, ask) == /\ MinPrice < px /\ px < MaxPrice
                     /\ 100 * (ask - px) <= MovePct * px

\* TraderScorer.score is the neutral prior until there are enough trades.
Neutral(s) == s.trades < MinScored

\* Kelly's stake is positive when the edge is, which has the sign of the ROI while
\* the score is neutral and may have either sign later.
HasEdge(s) == Neutral(s) => s.pnl > 0

\* PositionSizer: a stake cut to the caps per trade and per market, if enough
\* is left of it.
Sized(t, cost) ==
  /\ Bankroll > 0
  /\ Within(cost, TradePct, Bankroll)
  /\ Within(CostOf(InMarket(t)) + cost, MarketPct, Bankroll)
  /\ cost >= MinNotional

\* Variant: the gate looks at what is open and not at what is proposed.
GateWithoutProposal(t, cost) ==
  /\ Cardinality(Held) < MaxOpen
  /\ Bankroll > 0 => /\ Within(CostOf(Held), GlobalPct, Bankroll)
                     /\ Within(CostOf(InGroup(t)), GroupPct, Bankroll)

\* check_entry's caps: on positions, on exposure and on that of the group.
Gate(t, cost) ==
  /\ Cardinality(Held) < MaxOpen
  /\ Bankroll > 0 => /\ Within(CostOf(Held) + cost, GlobalPct, Bankroll)
                     /\ Within(CostOf(InGroup(t)) + cost, GroupPct, Bankroll)

\* From filter to gate without an await, on the books of that moment.
Admit(w, t, px, ask, n) ==
  /\ buy = Idle /\ opens < MaxOpens
  /\ Accepted(px, ask) /\ HasEdge(record[w])
  /\ Sized(t, n * ask) /\ Gate(t, n * ask)
  /\ buy' = [step |-> "sent", who |-> w, tok |-> t, px |-> px, ask |-> ask, n |-> n,
             bank |-> Bankroll]
  /\ UNCHANGED <<money, stats, limit, sell, count>>

NotFilled ==
  /\ buy # Idle /\ buy' = Idle
  /\ UNCHANGED <<money, stats, limit, sell, count>>

\* The execution fills some of the shares within the slippage tolerance of the
\* trader's price, whatever they were sized at, and the position is opened.
Open(k, p) ==
  /\ buy # Idle /\ k <= buy.n
  /\ 100 * p <= (100 + SlipPct) * buy.px
  /\ \E i \in Free :
       /\ pos' = [pos EXCEPT ![i] = [who |-> buy.who, tok |-> buy.tok, price |-> p,
                                     size |-> k, pnl |-> 0]]
       /\ Upsert(i, pos'[i])
  /\ over' = over + Max({0, k * (p - buy.ask)})
  /\ opens' = opens + 1
  /\ buy' = Idle
  /\ UNCHANGED <<realized, stats, limit, sell, closes, crashes>>

----------------------------------------------------------------------------
(* The exit task.                                                          *)

\* Variant: a full close hands on the PnL of its own fill.
CloseLastFill(i, n, p) ==
  /\ sell = Idle /\ i \in Held /\ n <= pos[i].size
  /\ LET gain == (p - pos[i].price) * n
         left == [pos[i] EXCEPT !.size = @ - n, !.pnl = @ + gain]
     IN  /\ realized' = realized + gain
         /\ IF left.size = 0
            THEN /\ pos' = [pos EXCEPT ![i] = NoPosition]
                 /\ sell' = [step |-> "closed", id |-> i, who |-> left.who, pnl |-> gain]
                 /\ UNCHANGED <<disk, misses>>
            ELSE pos' = [pos EXCEPT ![i] = left] /\ Upsert(i, left) /\ UNCHANGED sell
  /\ UNCHANGED <<stats, limit, buy, opens, closes, over, crashes>>

\* Variant: more is closed than the position has.
CloseOversells(i, n, p) ==
  /\ sell = Idle /\ i \in Held
  /\ realized' = realized + (p - pos[i].price) * n
  /\ pos' = [pos EXCEPT ![i].size = @ - n]
  /\ UNCHANGED <<disk, stats, limit, tasks, count>>

\* PortfolioManager.close: a fill is realized by the position and the books; the
\* last share takes the position from memory and hands its whole PnL on, while its
\* row is still to be written.
Close(i, n, p) ==
  /\ sell = Idle /\ i \in Held /\ n <= pos[i].size
  /\ LET gain == (p - pos[i].price) * n
         left == [pos[i] EXCEPT !.size = @ - n, !.pnl = @ + gain]
     IN  /\ realized' = realized + gain
         /\ IF left.size = 0
            THEN /\ pos' = [pos EXCEPT ![i] = NoPosition]
                 /\ sell' = [step |-> "closed", id |-> i, who |-> left.who, pnl |-> left.pnl]
                 /\ UNCHANGED <<disk, misses>>
            ELSE pos' = [pos EXCEPT ![i] = left] /\ Upsert(i, left) /\ UNCHANGED sell
  /\ UNCHANGED <<stats, limit, buy, opens, closes, over, crashes>>

\* The position's row is written, closed, and then record_close.
Record ==
  /\ sell.step = "closed"
  /\ disk' = [disk EXCEPT ![sell.id] = NoPosition] /\ closes' = closes + 1
  /\ record' = [record EXCEPT ![sell.who] = RecordClose(@, sell.pnl)]
  /\ sell' = [sell EXCEPT !.step = "recorded"]
  /\ UNCHANGED <<pos, realized, rows, was, limit, buy, opens, over, crashes, misses>>

DrawnDown(s) == 100 * s.drawdown[1] >= DrawdownPct * s.drawdown[2]

\* evaluate_trader_stats.
OverLimit(s) == s.streak >= LossCutoff \/ DrawnDown(s)

\* Variant: only a first close is written.
SaveFirst ==
  /\ sell.step = "recorded"
  /\ rows' = IF rows[sell.who] = Fresh THEN [rows EXCEPT ![sell.who] = record[sell.who]]
             ELSE rows
  /\ sell' = Idle
  /\ UNCHANGED <<money, record, was, limit, buy, count>>

\* Variant: a trader is judged by what the store had of him.
SaveJudgesOld ==
  /\ sell.step = "recorded"
  /\ rows' = [rows EXCEPT ![sell.who] = record[sell.who]]
  /\ restored' = restored \ {sell.who}
  /\ sell' = IF OverLimit(rows[sell.who]) THEN [sell EXCEPT !.step = "judged"] ELSE Idle
  /\ UNCHANGED <<money, record, was, cut, restores, buy, count>>

\* upsert_trader_stats; the record as saved is then judged.
Save ==
  /\ sell.step = "recorded"
  /\ rows' = [rows EXCEPT ![sell.who] = record[sell.who]]
  /\ restored' = restored \ {sell.who}
  /\ sell' = IF OverLimit(record[sell.who]) THEN [sell EXCEPT !.step = "judged"] ELSE Idle
  /\ UNCHANGED <<money, record, was, cut, restores, buy, count>>

\* add_cutoff, of a trader cut off before too.
CutOff ==
  /\ sell.step = "judged"
  /\ cut' = cut \cup {sell.who}
  /\ sell' = Idle
  /\ UNCHANGED <<money, stats, restored, restores, buy, count>>

\* upsert_position, upsert_trader_stats or add_cutoff raises: the exit pass ends.  The
\* position is gone from memory, and while its row is open its gain is in the realized
\* PnL and in no record.
CloseFails ==
  /\ CanFail
  /\ sell # Idle
  /\ misses' = misses + 1
  /\ sell' = Idle
  /\ UNCHANGED <<money, stats, limit, buy, opens, closes, over, crashes>>

\* bot.cli uncutoff.
Uncutoff(w) ==
  /\ restores < MaxRestores /\ restores' = restores + 1
  /\ w \in cut
  /\ cut' = cut \ {w}
  /\ restored' = restored \cup {w}
  /\ UNCHANGED <<money, stats, tasks, count>>

----------------------------------------------------------------------------
\* A new process: positions and records of the store, and no realized PnL.
Restart ==
  /\ "crash" \in Faults /\ crashes + misses < MaxFaults
  /\ crashes' = crashes + 1
  /\ pos' = disk /\ realized' = 0
  /\ record' = rows
  /\ buy' = Idle /\ sell' = Idle
  /\ UNCHANGED <<disk, rows, was, limit, opens, closes, over, misses>>

Init ==
  /\ pos = [i \in Ids |-> NoPosition] /\ disk = pos /\ realized = 0
  /\ was \in [Wallets -> {Fresh} \cup {RecordClose(Fresh, g) : g \in Pasts}]
  /\ record = was /\ rows = was
  /\ cut = {} /\ restored = {} /\ restores = 0
  /\ buy = Idle /\ sell = Idle
  /\ opens = 0 /\ closes = 0 /\ over = 0 /\ crashes = 0 /\ misses = 0

EntryTask ==
  \/ \E w \in Wallets, t \in Tokens, px, ask \in Prices, n \in 1..MaxShares :
       Admit(w, t, px, ask, n)
  \/ NotFilled
  \/ \E k \in 1..MaxShares, p \in Prices : Open(k, p)

ExitTask ==
  \/ \E i \in Ids, n \in 1..MaxShares, p \in Prices : Close(i, n, p)
  \/ Record \/ Save \/ CutOff \/ CloseFails

Next == EntryTask \/ ExitTask \/ Restart \/ \E w \in Wallets : Uncutoff(w)

Spec == Init /\ [][Next]_vars

----------------------------------------------------------------------------
Position == [who : Wallets, tok : Tokens, price : Prices \cup {0},
             size : 0..MaxShares, pnl : Int]

TypeOK ==
  /\ {pos, disk} \subseteq [Ids -> Position] /\ realized \in Int
  /\ {record, rows, was} \subseteq [Wallets -> RecordType]
  /\ buy \in {Idle} \cup [step : {"sent"}, who : Wallets, tok : Tokens, px : Prices,
                          ask : Prices, n : 1..MaxShares, bank : Nat]
  /\ sell \in {Idle} \cup [step : {"closed", "recorded", "judged"}, id : Ids, who : Wallets,
                           pnl : Int]
  /\ cut \subseteq Wallets /\ restored \subseteq Wallets /\ restores \in 0..MaxRestores
  /\ opens \in 0..MaxOpens /\ closes \in 0..opens /\ over \in Nat
  /\ crashes \in Nat /\ misses \in Nat

\* No entry deploys the reserve (README.md:154): whatever closes at any price come
\* between its gate and its fill, the money that is left by the books is the reserve
\* at least, but for what this fill cost beyond the ask that the copy was sized at.
\* What a restart makes the books forget is its own: no later entry adds to it.
ReserveKept ==
  /\ Raw >= Reserve
  /\ [][crashes' = crashes /\ Raw' < Raw => Raw' >= Reserve - (over' - over)]_vars

\* A copy that is opened respects every cap on exposure of the bankroll its gate
\* saw, but for what its fill cost beyond the ask: whatever the exit task closes
\* during its execution, nothing else opens (orchestrator.py:236-288).
CapsHoldAtOpen ==
  [][\A t \in Tokens : opens' = opens + 1 /\ buy.tok = t =>
       /\ Within(CostOf(Held)' - (over' - over), GlobalPct, buy.bank)
       /\ Within(CostOf(InGroup(t))' - (over' - over), GroupPct, buy.bank)
       /\ Within(CostOf(InMarket(t))' - (over' - over), MarketPct, buy.bank)]_vars

\* What the records, and the open positions, have of the gains; the closes saved.
Attributed   == SumFunction([w \in Wallets |-> record[w].pnl - was[w].pnl])
PartlyGained == SumFunction([i \in Ids |-> pos[i].pnl])
ClosesSaved  == SumFunction([w \in Wallets |-> rows[w].trades - was[w].trades])

\* The gain of the close in hand, and the realized PnL that nobody accounts for.
InHand       == IF sell # Idle /\ sell.step = "closed" THEN sell.pnl ELSE 0
Unattributed == realized - Attributed - PartlyGained - InHand

\* Within any one process every unit of realized PnL is some trader's, once: partial
\* closes are his when the position is closed (orchestrator.py:410-416).  Two things
\* set them apart: a restart, which forgets realized PnL and unsaved records, and a
\* failing write of the closed row, which leaves the whole gain of that position, and
\* nothing else, to nobody (portfolio_manager.py:159).
EveryGainAttributed ==
  /\ Unattributed = 0
  /\ [][crashes' = crashes =>
          Unattributed' = Unattributed + IF misses' # misses /\ sell' = Idle THEN InHand ELSE 0]_vars

\* The records in the store miss at most one close for each crash and failed call,
\* and the one in hand.
RecordsFollow ==
  closes - ClosesSaved
    <= crashes + misses + IF sell = Idle THEN 0 ELSE 1

\* A trader whose saved record is over a limit is cut off in the store, where no
\* restart forgets it, unless an operator has restored him since: a crash or a
\* failed call between the two writes loses one cutoff, and no more
\* (orchestrator.py:417-420).
OverLimitIsOut ==
  Cardinality({w \in Wallets \ (cut \cup restored) :
                 /\ rows[w] # was[w] /\ OverLimit(rows[w])
                 /\ ~(sell # Idle /\ sell.step = "judged" /\ sell.who = w)})
    <= crashes + misses

\* A drawdown is at most twice its base, which the two sides of zero can reach,
\* and at most the whole of it for a trader who only loses (trader_scorer.py:86-94).
DrawdownBounded ==
  \A w \in Wallets :
    LET s == record[w]  d == s.drawdown
    IN  d[1] <= 2 * d[2] /\ (s.wins = 0 => d[1] <= d[2])

\* A trader whose saved drawdown is over the limit stays over it for good: every
\* later close that is saved, a winning one included, is judged over it and cuts him
\* off again, whoever restored him (trader_scorer.py:86-94, risk_manager.py:162).
RestoredIsCutAgain ==
  [][\A w \in Wallets : DrawnDown(rows[w]) =>
       /\ DrawnDown(rows'[w])
       /\ rows'[w] # rows[w] => sell'.step = "judged" /\ sell'.who = w]_vars
=============================================================================
