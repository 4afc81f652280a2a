# Formal models of the copy-trading bot

TLA+ models of the Polymarket copy-trading bot in `src/`: what happens between
two awaits of its tasks, what the exchange, the SQLite store, the operators and
a crash can do in between, and what has to stay true meanwhile. TLC checks the
models on small instances; TLAPS proves the theorems of the `*Proofs` modules for
every value of the constants. Everything is translated from the Python source;
`PROJECT.json` maps each definition to the lines it stands for.

Contents: [the system](#the-system), [modules](#modules-and-code),
[runs](#runs), [fairness](#fairness), [proofs](#proofs),
[disagreements](#disagreements-between-code-and-documentation),
[not modelled](#not-modelled), [plan](#plan).

## The system

The bot is one Python process with one event loop. `Orchestrator.run`
(`bot/core/orchestrator.py`) hydrates from the store and starts three tasks,
which run until `stop` cancels them:

* the **entry** task takes signals from the wallet tracker one at a time and
  filters, sizes, gates, executes and records a copy;
* the **exit** task passes over the open positions every few seconds, marks them
  and flattens those that must go;
* the **maintenance** task re-reads the operators' settings from the store,
  rolls the drawdown anchors and evaluates the stops every minute.

Beside the process there are the exchange (CLOB and data-api), a SQLite file, the
CLI and the dashboard (other processes that write the same file), and a file
whose existence is the kill-switch.

| Component | State it keeps | Operations | What makes it correct |
|---|---|---|---|
| Wallet tracker, trade parser | `_seen`, a bounded cache of keys | poll a wallet, parse and age a page, yield its signals | hides nothing that is not claimed or queued |
| Entry loop | the batch and the signal in hand | claim, handle (try/finally), reject, execute, open, note a sell | a trade is sent at most once; a fill is recorded or its claim is open |
| Exit loop, exit manager | cached sells of the traders | pass, mark, decide, flatten, partial close, cut a losing trader off | mirrors a sell that followed the copied buy and no other |
| Maintenance loop | what a tick has read | read halt, cutoffs, mode; refresh; roll and save anchors; evaluate; mirror a trip; evict sells | operators' writes arrive; a tripped halt is not undone |
| Store | `processed_trades`, `positions`, `kv_state`, `trader_cutoffs`, one lock, one connection with its transaction | insert, upsert, get, scan, close | calls take effect in their order, wholly or not at all |
| Risk manager | halt reason, cutoffs, kill-switch path | hydrate, refresh, trip, check_entry | a stop stops; caps hold under interleaving |
| Portfolio manager | positions, marks, realized PnL, anchors | open, close (part or whole), mark, roll, hydrate | books equal the exchange; a restart changes nothing |
| Execution engine | one call's attempts, fills, cost | quote, place, poll, expire, cancel, repost | reports at most what was asked and traded, within the slippage tolerance; ends |
| CLOB client | live or paper signer | place, cancel, get_order, set_force_paper | never live under `dry_run` |
| Operator CLI, dashboard controls | none of their own | halt, resume, cutoff, uncutoff, mode | what they write takes effect |
| Start and shutdown | the `running` flag, the three tasks, the signal handler | hydrate, start, stop, cancel, gather, close | nothing begins after a stop; the store closes last; the process ends |
| Signal aggregator | hits and the last emission of each market | observe | a cluster is of signals close in time |
| Filter, sizer | none of their own | accept or refuse a signal; cut a stake to the caps | caps and reserve hold when the position opens, not only when it is sized |
| Trader scorer | counts, streak, curve, peak and drawdown of each trader | register, record a close, hydrate | every close and gain is its trader's, once |
| HTTP client, adverse-selection observer, config, logging, metrics, backtester, dashboard readers and client | see [not modelled](#not-modelled) | | |

What is hard here, and hard to test: the awaits of one task overlap those of the
others (an entry past the gate while a halt arrives; a tick holding a list the
exit task has just changed); memory and store are written at different moments
and a crash or a failed call falls in between; the exchange fills after the last
poll and before the cancel; the data-api repeats and reorders trades; the mode
can flip while an order rests; stopping is cancelling tasks wherever they
wait, in the middle of a store call too. `PROJECT.json` lists these under `hazards`, each
at the line where it bites, with the properties that watch it.

## Modules and code

An action is what the event loop runs between two awaits. A store call is one
action that takes effect, and its result is used in a later one. Variables that
the code does not have (`hurt`, `late`, `tripped`, `botCut`, `applied`,
`mishaps`, `dropped`, `starts`, `crashes`, `misses`, `restored`, `was`, `ragged`) record history for the
properties; no guard reads them but for the bounds.

**`SignalIntake`** — the path of a trade from the data-api to a recorded position
(`wallet_tracker.py`, `orchestrator.py:139-318`, `processed_trades` in
`datastore.py`). `seen` is `_seen`, `rows` the claims table, `pc` where the entry
task is, `placed` and `filled` the exchange's side, `disk` the position rows.
`Poll` marks keys as seen when it queues their signals, as `_poll_wallet` does, each
trade looked up in the cache that the ones before it have left (`Known`): a poll of
many trades can evict a key it has just put in and yield it twice;
`Claim` is `mark_processed`; `Decline`, `Send`, `Ack`, `Open` are the handler;
`Finish` is the `finally`. `Fail`, `FinishFails` and `ClaimFails` are calls that
raise; `Crash` loses memory anywhere; `Stop` cancels the handler, whose `finally`
may or may not run to its end (`Unwind`). What filter, sizer and gate answer is a
choice.

**`CopyOnce`** — the abstract promise of that path: a key is claimed for good,
ordered at most once after that, and held only if ordered. `SignalIntake`
implements it with `claimed` = the keys with a row, `orders` = `placed`,
`held` = `disk`.

**`RiskControl`** — the stops (`risk_manager.py`, the maintenance loop, `cli.py`,
the dashboard's routers, `clob_client.py:51-107`). `kvHalt`, `kvCuts`, `kvMode`
are the store's; `halt`, `cuts`, `paper` memory's; the tick is seven actions, one
for each stretch between its awaits (`ReadHalt`, `ReadCutoffs`, `Refresh`,
`ReadMode`, `ApplyMode`, `Evaluate`, `Mirror`). The YAML (`dryRun`, `blind`) is
chosen in `Init` and never changes, so one run has all four settings. `late`
counts the entries that passed the gate before a stop and began after it;
`tripped` is true from the moment the bot trips a halt until an operator resumes
(or its mirroring fails); `applied`, while this process has applied `paper`.

**`Execution`** — one `ExecutionEngine.execute` call against an exchange that
fills, expires and reports at its own pace (`execution_engine.py`,
`clob_client.py:136-230`). `side` is the call's argument, `orders` the exchange's
view, `known` the last report. Prices are ticks, sizes lots, and an average price
is kept as its cost, so the arithmetic is exact. The mode may flip at any await
(`Flip`), a book may be missing or not parse (which raises), a cancel may be lost,
`place_limit` may raise after the order got through, and an answer may lack the
order's id, without which the engine neither polls nor cancels.

**`Portfolio`** — the books (`portfolio_manager.py`, `upsert_position`, the
exit's close, `hydrate`). `size`, `entry`, `mark` (by token), `realized`, `anchor` are
memory; `blind` is the YAML's blind copy, which passes no gate; `rows`, `saved` the
store; `queue` the calls that wait for the store's
lock, in order; `shares`, `cash` the exchange. An execution is one action and
reports what the exchange did: `Execution` has the cases in which it does not.

**`Admission`** with **`TraderRecord`** — the money of a copy: `Admit` is the
stretch from filter to gate, which has no await (`orchestrator.py:228-267`,
`signal_filter.py`, `position_sizer.py`, the caps of `check_entry`); `Open` comes
after the execution and pays what that paid; `Close` is a fill of the exit task;
`Record` and `Save` are `record_close` and `upsert_trader_stats`. `TraderRecord`
holds the pure part of `record_close`. Prices, shares and percentages are whole
numbers; a cap is compared by cross-multiplication and a drawdown kept as a
fraction, so nothing is rounded. The Kelly stake of a trader with an edge (`HasEdge`)
may be any amount below the caps that cut it, which is more than the code can ask for;
one whose score is `Neutral` has an edge if he is in profit, and any other may have
one. `was` is what the store knew of the traders before: nothing, or one copy that
blind copy made. `over` adds up what fills
cost beyond the ask the copy was sized at.

A write of a close may fail at each of its places (`CloseFails`): the position's row,
after its PnL was booked and before the record has it, the record, the cutoff.

A record that is saved is then judged (`OverLimit`, `evaluate_trader_stats`) and
a trader over a limit cut off in the store (`CutOff`), from where an operator may
restore him (`Uncutoff`).

**`MirrorExit`** — traders in one token: their trades with their timestamps, the
copies with the bot's, the cache of sells, eviction, the exit pass
(`orchestrator.py:139-187, 335-440`, `exit_manager.py`), and the aggregator that
sees every signal first (`Observe`, `enhancements.py:79-108`). A poll takes the
traders' pages in the order of the config; within a page the order is free.
`Claim` is `mark_processed` and `Note` what follows `record_signal`; each may fail
(`ClaimFails`, `RecordFails`) and a restart may fall between them (`hand`). An exit
pass (`pass`) visits the copies one by one: the flatten it sends fills (`Flatten`), or
fails, fills in part or raises (`NotFlattened`), and what raises ends the pass.

**`SerialStore`**, **`StoreCalls`**, **`Process`** — the process around the tasks.
`StoreCalls` is `DataStore._run`: a task asks (`Ask`), gets the lock in turn and
starts a thread (`Enter`); the thread executes and commits, or rolls back, on the
one connection (`Execute`, `Commit`, `Fail`); the task goes on when it has ended
(`Return`), or is cancelled on the way (`Leave`). `SerialStore` is what that
promises: calls in order, each wholly or not at all, until a task is cancelled
within a call. `Process` composes it with `Orchestrator.run` and `stop`, the shape
of the three tasks, and the end of `main.py`: `phase` is where `main` is, `pc` where
each task is, `cancel` the tasks whose next step is a `CancelledError`: such a task
takes no lock, it unwinds.

The modules meet in what one leaves as a choice and another models: `Decline` of
`SignalIntake` is the gate of `RiskControl` (stops), `Portfolio` (cap on positions)
and `Admission` (filter, sizer, caps on exposure);
`Send` is a call of `Execution`; `Open` and `Close` are the first steps of
`Portfolio`; the cutoff of `RiskControl` is the `CutOff` of
`Admission`; the mode of `RiskControl` is the `Flip` of `Execution`; any store call is
an `Ask` to a `Return` of `StoreCalls`, which justifies that the other modules take it
as one action, and `Stop` and `Unwind` of `SignalIntake` are the shutdown of `Process`.

## Runs

| Run | Checks | Instance, and why it is enough |
|---|---|---|
| `Intake_all` | types, at most one order, refinement of `CopyOnce`, outbox, done means resolved, one open claim a life, the cache, claims settle | four trades on three keys (two fills share a key), a cache of one key and polls of three trades, so that a key is evicted and yielded twice in one poll, and forgotten and polled again within one life; three lives, one key that a fault meets, every fault |
| `Risk_all` | types, mirrored halt, stops, tripped halt, orders obey the mode, operators' writes and resumes reach memory | all YAML settings, one trader, two commands or failing calls in all, two market moves, two orders per entry, two lives; safety and liveness on the same instance |
| `Risk_cutoff` (violation) | a trader cut off stays out, blind copy aside | two traders, no faults; the trace is a tick that reads the cutoffs, a cutoff, the refresh, and an entry |
| `Exec_all` | types, sound report, slippage, one order at a time, termination | both sides, three lots, two attempts, prices 1..6 around a trade at 4 with a tolerance of one tick, a repost step of two, one mishap (a lost cancel, a flip, an answer without its id), every fault |
| `Exec_overfill` (violation) | never overfilled | no fault at all |
| `Port_all` | types, bankroll is cash, rows follow memory, cap on open positions (without blind copy), torn positions bounded, the anchor sticks | three ids for a cap of two, lots of two (partial closes), sales below the ask and marks above it, two weeks, one fault of any kind |
| `Port_spurious` (violation) | a restart adds no drawdown | one restart between passes, two weeks; the trace buys and sells at a profit, rolls and saves the week's anchor, and restarts: the drawdown goes from none to the profit |
| `Admit_all` | types, caps when a copy opens, reserve, attribution of gains, records in the store, drawdown, a trader over a limit is cut off, one who is restored is judged over his old drawdown again | two traders, each new or with a unit won (who has lost one is refused as who is new), three tokens of three markets, two of them in one group, so that each cap binds alone; two positions at a time and three in all, lots of two (partial closes), fills dearer and cheaper than the ask, a curve of two points, limits of two losses and 60%, three trades for a score, one crash or failed call, one restored trader |
| `Mirror_all` | no exit for an earlier or another trader's sell, a later sell is mirrored, clusters are recent | two traders, three instants, three trades, any order of pages, a window shorter than the greatest age, a time to live short enough for eviction, failing claims, records and flattens without bound, a restart |
| `Mirror_early` (violation) | an observed sell is mirrored, by an exchange that obliges | one trader, two trades, no restart, no eviction |
| `Process_all` | the store closes last, nothing begun after a stop, refinement of `SerialStore`, a stop ends the process | two calls of hydration, one handler with a call between claim and `finally`, a call of each loop, two signals, failing calls |
| `Process_shared` (violation) | one transaction at a time on the connection | one signal; the trace is a handler cancelled within a call, whose `finally` calls the store again |

Bounds: `MaxLives`, `MaxOps`, `MaxMoves`, `MaxPlaces`, `MaxMishaps`, `MaxPrice`,
`MaxFaults`, `MaxWeeks`, `PollLimit`, `MaxTime`,
`MaxTrades`, `MaxStarts`, `MaxShares`, `MaxOpens`, `MaxRestores`, `Pasts`,
`MaxCalls`, `MaxStops`, `MaxHurt`. `MaxPlaces` is the code's
`1 + repost_count`; the others only limit exploration. `MirrorExit`,
`Admission` and `Process` run with `CHECK_DEADLOCK FALSE`: the clock of the first
ends, the second has nothing to do once its last copy is closed, and the process
exits. In `RiskControl` one budget (`MaxOps`) counts commands and failing calls
together, and `Port_all` has one fault; the theorems of both modules hold for any
number of either.

What each property says is in the comment above it. A fault does not end what is
promised; each property says how far one reaches:

* `OutboxCoversOrphans`, `DoneMeansResolved`, `OneOpenClaimPerLife`, `SeenIsOnlyACache`
  and `ClaimsSettle` are about every key but those in `hurt`, whose own handling met a
  failed call or a cancellation, over any number of crashes.
* `RowsFollow` and `OpenCapHolds` allow one row, one position, for each failed call
  (`misses`); `TearsBounded`, `RecordsFollow` and `OverLimitIsOut` also count crashes.
* `BankrollIsCash`, `ReserveKept` and `EveryGainAttributed` begin with an equation or a
  bound in the first state and say of every step, in every process, what may move it: a
  crash or a restart sets books and exchange apart, by the realized PnL it forgets, and
  no trade after it adds to that. A close whose row cannot be written leaves the gain of
  that one position in the realized PnL and to no trader (`EveryGainAttributed`).
* `OneOrderAtATime` allows one resting order for each lost cancel, flip, and answer without
  the order's id.
* `LaterSellMirrored` holds until the cache loses, or never gets, a sell of that trader
  (`dropped`: recording it failed or the process died after its claim, it was evicted,
  replaced by an older one, or went with the process), and given an exchange that
  obliges (see [fairness](#fairness)).
* `TripKeepsGateShut` holds unless mirroring the trip fails.
* `StopsLetOneThrough`, `TripKeepsGateShut`, `CutOffStaysOut` and `OpenCapHolds` are about
  settings without blind copy, which skips the gate (`orchestrator.py:199-226`), and so is
  all of `Admission`.
* `ImplementsSerialStore` promises order and isolation until a task is cancelled within
  a call, and only that nothing committed is lost after that.

Every property of a passing run has a mutant in `PROJECT.json`: a plausible bug
in one definition (a variant kept next to it, commented "Variant") under which the
property is violated.

## Fairness

`SignalIntake`, `RiskControl`, `Execution`, `MirrorExit` and `Process` assume weak fairness
of the code's own steps only: asyncio keeps running a task that can move, the
loops are `while` loops that catch their exceptions, timers fire, and a
supervisor restarts the process (`Restart`; the deployment runs it under one).
Nothing is assumed of the data-api, the trader, prices, operators or faults, and of the
exchange only where a property says so: `FairSpec` of `MirrorExit` is fair to the
entry task's steps and to an exit pass that has begun (`Visit`), however its flattens
end. That a copy is left at last needs an exchange that quotes (`orchestrator.py:356`
goes on without a book) and that fills one of the flattens sent again and again
(`397-402`). No code can promise that, so it is the antecedent `ExchangeObliges` of
`LaterSellMirrored` and `ObservedSellMirrored`, not part of the specification.
`Execution` needs fairness of `Expire` beside that of the engine,
since polling alone could go on for ever. `RiskControl`'s liveness
holds because failing calls are finitely many: a store that fails at every tick
never lets a tick finish, and nothing arrives. `Process` is fair to `main`, to each
task and to the worker threads, which end because SQLite gives up on a lock after
its timeout; it assumes no signal.

## Proofs

All for any constants that satisfy the module's assumption, and with every fault.

| Theorem | Says | Argument |
|---|---|---|
| `SignalIntakeProofs!TypesHold` | types and the bound of the cache | with "the handler holds a signal wherever it uses one" |
| `!OrderedAtMostOnce` | `AtMostOneOrder` | `OrderInv`: an unclaimed key was never sent; the key in hand is claimed, unsent before `Send`, sent once after |
| `!OutboxHolds`, `!DoneHolds` | `OutboxCoversOrphans`, `DoneMeansResolved` | `OutboxInv`: unless it is hurt, the handler's key is `processing` until its `finally`, and by then the position is recorded or the key resolved |
| `!OneClaimHolds` | `OneOpenClaimPerLife` | `OpenInv`: each earlier life left one open claim at most beside those of the hurt keys, and this one has at most that of the signal in hand |
| `!CacheHolds` | `SeenIsOnlyACache` | `CacheInv`: a key in the cache that is not hurt is claimed, in the batch or in hand |
| `!HandlerEnds` | every step of a handler brings it nearer to its end, with the claim it was given; it ends with that done, dead or hurt | `Ahead` counts the awaits before the handler's end (`HandlerStep`, one case an action) |
| `!Refines` | `ImplementsCopyOnce` | `Claim`, `Send`, `Open` are the abstract steps, all others stutter |
| `RiskControlProofs!TypesHold` | types, orders per entry | |
| `!MirroredHaltHolds` | `MirroredHaltInForce` | `MirrorInv`: what a tick read before its refresh is no older than the mirrored reason |
| `!TripHolds` | `TripKeepsGateShut` | `TripInv`: a tripped halt is in force, and in the store once the tick has mirrored it, so no later tick reads its absence |
| `!StopsHold` | `StopsLetOneThrough` | `LateInv`: an entry that has posted nothing passed the gate after the stop was last lifted |
| `!ModeHolds` | `OrdersObeyMode` | `ModeInv`: an override this process has applied is still the store's, so a tick that reads it again reads the same |
| `!TickIsHeard` | while an operator's halt, resume, cutoff or override stands, each step of the tick or of a restart brings memory nearer to it, and only a crash or a failing call takes it away | `Rounds`: the steps left of this tick if it has read the value or has still to read it, else those of the next one too (`TickNears`, `TickStays`) |
| `ExecutionProofs!TypesHold`, `!AccountedHolds` | types, `AccountedIsSound` | `Sound`: the last report is at most what the order has filled, that at most what is left, and all of it was traded; `TradedInv`: all that was traded is the sum of what the orders filled, each at most the target (`SumAtMost`) |
| `!SlippageHolds` | `WithinSlippage` | `AccountPriced`, `OrdersPriced`: a posted limit is tolerable, and costs of shares traded at tolerable prices add up (`FairAdds`, `FairTrade`), told by a report or not |
| `!RestsHold` | `OneOrderAtATime` | `RestInv`: an order that rests beside the last is some mishap's doing, and so is the last unless the engine can still cancel it |
| `!CallRunsDown` | a call is over after `4 * MaxPlaces + 1` steps of the engine beside its polls, whatever the exchange does | `Work`: what is left of this attempt and of those to come; every step but a poll of a live order takes from it |
| `PortfolioProofs!AnchorStays` | `AnchorSticks` | `AnchorInv`: a saved anchor is memory's unless memory has rolled on |
| `PortfolioProofs!RowsHold` | `RowsFollow` | `QInv`: a row differs from memory only where an upsert is queued |
| `PortfolioProofs!CapHolds` | `OpenCapHolds` | without blind copy; `CapInv`: a gated entry has its place, and the row of a closed position counts until its upsert, which no opened position's upsert overtakes |
| `PortfolioProofs!TearsHold` | `TearsBounded` | `TearInv` over `Bad`, the ids whose books and shares differ now or would after a restart: other steps only take from it, a crash adds two ids and a failed call one |
| `!TypesHold`, `!CashHolds` | types, `BankrollIsCash` | a fill moves realized PnL less the cost of what is open (`CostsMove`) by what it moves cash; nothing else moves either. A restart between passes finds the rows as memory is if no call has failed (`RowsFollow`, `CashRestart`), so the gap moves by the PnL it forgets |
| `AdmissionProofs!DrawdownHolds` | `DrawdownBounded` | `BooksInv`: records are bounded by their own peak and trough, which a close preserves (`FallBounded`, `RecordBounded`) |
| `!CutoffHolds` | `OverLimitIsOut` | `MissInv` over the traders the cutoff missed: only a crash or a failed call adds one |
| `!NewTradersStayOut` | without blind copy nobody is copied who had neither trades enough for a score nor a profit when the bot was first started, over any number of restarts | `OutInv`: nothing in hand and no position is such a trader's, so nothing is ever recorded of him |
| `!TypesHold` | types, no more closed than opened | `AccountInv`: an entry in hand has its place among those to be opened |
| `!DrawnDownForGood` | `RestoredIsCutAgain` | a drawdown is the greatest fraction so far (`FractionOver`, `DrawnStays`); `DrawnInv`: memory's record is over the limit when the store's is, after a restart too |
| `!GainsHold` | `EveryGainAttributed` | `GainInv`: a free place has gained nothing, so each step moves a gain between two terms of the sum and `Unattributed` stays, but where a closed row cannot be written: `Lost` is then the gain of the close in hand |
| `!FollowHolds` | `RecordsFollow` | `FollowInv`: memory has one close more than the row that is to be saved, and a save makes good what a failed one left |
| `!ReserveHolds` | `ReserveKept` | `ReserveInv`: the entry in execution fits at the ask it was sized at; a close only adds to the bankroll (`RawCloses`), a fill takes what it cost (`RawOpens`, `FillCosts`), and `Leaves` says what it leaves. It does not say that the books agree with the money, so it survives a restart |
| `!CapsHold` | `CapsHoldAtOpen` | `CapsInv`: the same for each cap; the cost of any set of tokens only falls by closes (`CostInLess`) |
| `MirrorExitProofs!TypesHold` | types | with the tape of the traders |
| `!NoEarlierSell` | `NoExitForEarlierSell` | `CacheInv`: a cached sell is one that was claimed, a copy is of a buy and was opened no earlier |
| `!LaterSellStands` | from the note of a later sell on, an exit pass that comes to the copy sends its flatten, and the copy leaves memory no other way than by one that fills; left out are the time from the sell's claim to its note, and a trader of whom the cache never got, or has lost, a sell | `LatestInv`: unless a sell of a trader is in hand, was never noted or was lost, the cache has one of his as late as any that was claimed |
| `!ClustersRecent` | `ClusterIsRecent` | `SpanInv`: no signal still to be handled is older by more than `MaxAge` than a hit or another signal |
| `ProcessProofs!CallsRefine`, `!Refines` | `ImplementsSerialStore` | `SerialInv` (`AskedInv`, `QueueInv`, `ThreadInv`): until a cancellation the one thread is that of the head of the queue, and its statement is all there is in the transaction |
| `ProcessProofs!ClosedHolds` | `ClosedLast` | `PhaseInv`: no task is live from the second gather on |
| `ProcessProofs!NothingBegun` | `NothingBegunAfterStop` | `StopInv`: after a stop a live task is to be cancelled, is in its `finally`, or was created since and has begun nothing |
| `!LockHolds` | the store's lock has one holder at most, and whoever waits is in the queue, whose first can go on | `AwaitInv`: a task within a call awaits it, and a cancelled one leaves queue and lock at once (`Leave`) |
| `!RunningIsSerial` | until a stop no two threads share the connection, and what reported success is committed | `CalmInv`: nothing is cancelled while the bot runs, so the store is still serial |
| `!ShutdownRunsDown` | after a stop each step but another signal leaves fewer to take | `Left` adds what `main`, each task with its call, and the threads have ahead (`MainLeft`, `Share`, `ThreadsLeft`); `FewInv`: tasks, calls and threads are finitely many (`LeftLess`, one lemma for each kind of step) |

Bankroll, exposure and what traders gained are sums over a finite set
(`SumFunctionOnSet`). `Sums` proves what the arguments need of them: how a sum
changes with one value (`SumChange`), one element (`SumTake`, `SumPut`) or none
(`SumSame`, `SumZeros`), its sign and order (`SumInt`, `SumNat`, `SumLess`), and its
bound (`SumAtMost`).
An induction over the set is done there as an argument about a least counterexample
(`LeastSubset`), for which the library's well-foundedness of strict inclusion is
enough.

Only model-checked: the five liveness properties, since fairness and ENABLED are out of
the prover's reach. What each rests on beside fairness is an action property, and is
proved for any constants: a measure that the fair steps run down and that no other step
raises but those the property allows for, or a condition that lasts until the fair step
is taken.

| Liveness, by TLC | Its safety half, proved | What is left to TLC |
|---|---|---|
| `ClaimsSettle` | `HandlerEnds`: `Ahead` falls with each step of the handler | that the handler, or a restart, always has a step it can take |
| `OperatorTakesEffect` | `TickIsHeard`: `Rounds` falls with each step of the tick, and only a crash or a failing call raises it | that a tick or a restart always has a step, and that faults are finitely many |
| `Terminates` | `CallRunsDown`: `Work` falls with each step of the engine but a poll | that `Expire` comes while the engine polls |
| `LaterSellMirrored` | `LaterSellStands`: the copy stays, and each pass sends its flatten, until one fills | that passes come to it, and that one fills if the exchange obliges |
| `StopEnds` | `ShutdownRunsDown`: `Left` falls with each step; `LockHolds`: the first in the queue for the lock can go on | that `main`, a task or a thread has a step, and a task to cancel was there when the stop came |

Every safety property of the passing runs is a theorem; the types of `MirrorExit` and
`Process` are proved, not checked.

## Disagreements between code and documentation

With a run (`findings` in `PROJECT.json` quotes the lines): a cutoff made while a
tick is reading is forgotten for a tick (`Risk_cutoff`); a late fill is bought
again by the repost (`Exec_overfill`); a restart restores the week's saved anchor and
forgets the profit in it, a drawdown that never happened (`Port_spurious`); a sell
between the trader's buy and our opening is never mirrored (`Mirror_early`); a handler
that is cancelled releases the store's lock while its thread runs on, and its own
`finally` starts the next one (`Process_shared`).

Met while modelling, in the models' behaviours but without a run of their own:

* `wallet_tracker.py:151` marks a key as seen before its signal is claimed; if
  `mark_processed` raises, this process does not see the trade again (hence
  `hurt` in `SeenIsOnlyACache`).
* `orchestrator.py:165` marks the claim done on any exception, a fill without a
  position included; `datastore.py:172-174` says done means opened or rejected.
* `orchestrator.py:106` scans once for claims older than 60 s: a claim left by a
  crash less than a minute before the restart is not reported.
* `risk_manager.py:109` clears a halt the store has no reason for, one whose
  mirroring failed included; its docstring (94-98) says such a halt is preserved.
  Also, a breach found while an operator's halt is in memory is not mirrored
  (only a newly tripped one is), so a resume read by the next tick lifts it until
  the tick evaluates again.
* `risk_manager.py:202` reads cutoffs from memory, a tick old at worst; README says
  they are "read eagerly" (`src/README.md:236-238`).
* `orchestrator.py:199`: blind copy does not look at the kill-switch, which README
  says blocks "all new entries immediately" (`src/README.md:242-243`).
* `clob_client.py:67`: a restarted process trades in the YAML's mode until its
  first tick applies the override.
* `clob_client.py:162`: after a flip to paper the cancel of a live order goes to
  the paper signer, and the order rests on.
* `portfolio_manager.py:155`: a close whose upsert fails is open again at the next
  start; in this process its PnL is booked and `record_close` is not reached, so the gain
  is no trader's (`EveryGainAttributed`).
* `orchestrator.py:162`: a sell whose `record_signal` raises is claimed and not noted, and
  no poll brings it again (`dropped`).
* `execution_engine.py:136`: an order whose answers lack its id is neither polled nor
  cancelled, and rests beside the repost (`OneOrderAtATime`).
* `clob_client.py:190-193`: a book whose entries do not parse raises out of
  `execute`, past the `ClobError` that its callers expect (`QuoteFails`).
* `orchestrator.py:177`: the cache of sells keeps the one handled last, so an older
  sell of a newest-first page replaces a newer one.
* `position_sizer.py:130-139`: the "hard caps" of its docstring (22-24) bind the
  notional at the ask; a fill may cost up to the slippage tolerance of the trader's
  price instead, which the filter lets lie far above the ask (`over` in `ReserveKept`
  and `CapsHoldAtOpen`).
* `portfolio_manager.py:226`: after a restart the bankroll forgets realized losses, so
  the reserve README calls "never deployed" (`src/README.md:154`) can be:
  a restart sets the books and the money apart, and `ReserveKept` is about the books.
* `orchestrator.py:417`: when the save of a record fails, the cutoff it might trip is
  not evaluated before that trader's next close.
* `orchestrator.py:418`: a record over its limit is not judged again at start, so a
  crash between its save and its cutoff leaves the trader to be copied until his next
  close (`crashes + misses` in `OverLimitIsOut`).
* `risk_manager.py:162`: the drawdown that cuts a trader off never falls, so one whom
  an operator restores is cut off again by his next close, a winning one included.
* `position_sizer.py:112`, against a comment: the neutral score is there "so new traders aren't
  prematurely excluded" (`trader_scorer.py:129-131`), and with no ROI it makes an edge
  of 0, for which the sizer refuses the copy (as `test_position_sizer.py:34-40`
  expects); only copies are recorded, so he stays refused for good, which the
  theorem `NewTradersStayOut` proves of the code. Blind copy, which `Admission` leaves out,
  and the demo's seeded records are the ways in.
* `enhancements.py:86`: a cluster is of hits "within `window_seconds`" (58-59) when
  signals come in order; a late one is put beside hits that are up to
  `max_trade_age_seconds` from it (`ClusterIsRecent`). With the defaults (30 s and
  300 s) the window is the wider.
* `main.py:164`: the signal handler is there before `run` hydrates; a stop that comes
  meanwhile cancels nothing, and the entry task, whose tracker sets its flag again,
  polls until it meets a signal (`StopEnds` is about a stop that finds the tasks).
* `orchestrator.py:366`: the exit pass never names a resolution time, so the
  time-based exit (`exit_manager.py:8-9`) never happens.

## Not modelled

* Of the filter, dust, score, depth and spread; of the sizer, the Kelly stake; of
  the scorer, returns, the size of ROI, and the score of a trader with trades enough
  for one. Each may come out any way.
* Blind copy in `Admission`: it has neither filter, sizer nor gate, and its closes are
  recorded; `RiskControl` has its orders, `Pasts` what it may leave in the store.
* Which record trips the cutoff of `RiskControl`: `CutOff` may happen at any time
  there; `Admission` has the record and the store, without the tick that re-reads it.
* Adverse-selection observer: records the drift of the book; nothing reads it.
* HTTP client: bounded retries; its callers see an answer or an exception.
* Configuration, logging, decision journal, metrics, dashboard readers and web
  client, backtester, replay, deployment: no state the modelled paths read.
* The backtester's settlement: its scorer is empty and no close is recorded in it
  (`backtester.py:65`), so it is in the place of `Admission` where every trader is a
  newcomer, and refuses each entry.
* The signals, orders and equity tables: written, and in the modelled paths read
  by nobody.
* Rounding of prices and sizes to four decimals; demo books and synthetic trades.
* The daily stop and daily anchor: as the weekly ones but for the period.
* In `Process`: the close of the HTTP session and of the observability server, and the
  wait before live mode.
* `write_tx`'s retry (`dashboard/app/db.py:79`): a write there happens or fails.

## Plan

The order of work was the most important behaviour first: `CopyOnce`, `SignalIntake`,
`RiskControl`, `Execution`, `Portfolio`, `Admission`, `MirrorExit`, then `Process`
with the store, the cutoff that a record trips, and the aggregator. What is left, by
what it would add:

1. A composition of `RiskControl` and `Execution` through the mode, and of
   `Portfolio` and `RiskControl` through equity, in place of `breach`.
2. The daily stop and anchor in `Portfolio` and the gate.
