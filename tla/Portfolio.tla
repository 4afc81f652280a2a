----------------------------- MODULE Portfolio ------------------------------
(***************************************************************************)
(* The books of the bot: positions in memory and in the store, realized    *)
(* PnL, marks and the weekly equity anchor, under the entry task that      *)
(* opens positions, the exit task that flattens them in part or whole, the *)
(* maintenance tick that rolls the anchor, and restarts that hydrate from  *)
(* the store.  The exchange's side (shares and cash) is kept beside them.  *)
(*                                                                         *)
(* An execution is one action here and reports what the exchange did;      *)
(* module Execution has the cases in which it does not.  Positions are     *)
(* long: a sell never opens one.  Store calls queue at one lock, in order. *)
(* A blind copy takes the way of any other but for the gate.               *)
(***************************************************************************)
EXTENDS Integers, Sequences, FiniteSets, Functions

CONSTANTS Ids,          \* position ids; each is one uuid4, used once
          Tokens, TokenOf,      \* outcome tokens; of a position: its token
          Asks, Bids, Marks,    \* prices of buys, of sells, and of books
          MaxLot,       \* the largest fill
          Start,        \* starting_bankroll_usdc
          MaxOpen,      \* risk.max_open_positions
          Faults,       \* "restart" (between passes), "crash" (anywhere), "store"
          MaxWeeks,     \* bound: weeks that begin
          MaxFaults     \* bound: restarts, crashes and failed store calls

ASSUME PortfolioAssumption ==
  /\ IsFiniteSet(Ids) /\ TokenOf \in [Ids -> Tokens] /\ Asks \cup Bids \cup Marks \subseteq Nat \ {0}
  /\ MaxLot \in Nat \ {0} /\ Start \in Nat /\ MaxOpen \in Nat \ {0}
  /\ Faults \subseteq {"restart", "crash", "store"}
  /\ MaxWeeks \in Nat /\ MaxFaults \in Nat

VARIABLES
  size, entry,          \* memory, by id: open size (0: none), entry price
  mark,                 \* memory, by token: the last mark, or 0
  realized,             \* memory: _realized_pnl
  rows,                 \* store: size of the id's OPEN row, 0 if it has none
  queue,                \* ids whose upsert_position waits for the store's lock
  shares, cash,         \* exchange
  blind,                \* the YAML: blind_copy.enabled
  buy, sell,            \* entry and exit task: step, and the execution in hand
  anchor, saved,        \* start-of-week equity and its week: memory, and store
  week, tick,           \* the calendar; the maintenance tick has rolled, not saved
  starts, crashes, misses       \* restarts between passes, crashes, failed calls

books == <<size, entry, mark, realized>>
world == <<shares, cash, blind>>
weeks == <<anchor, saved, week, tick>>
count == <<starts, crashes, misses>>
vars  == <<books, rows, queue, world, buy, sell, weeks, count>>

Idle     == [step |-> "idle"]
Steps    == {"gated", "traded", "stored"}
Trade    == [step : Steps, id : Ids, n : 0..MaxLot, price : Asks \cup Bids \cup {0}]
OpenIds  == {i \in Ids : size[i] > 0}
Unused   == {i \in Ids : entry[i] = 0 /\ shares[i] = 0}
Known(w) == [equity |-> w, week |-> week]

\* Of a position: what it cost, and what it is up or down at its mark, if it has one.
Cost == [i \in Ids |-> entry[i] * size[i]]
Gain == [i \in Ids |-> IF mark[TokenOf[i]] = 0 THEN 0
                       ELSE (mark[TokenOf[i]] - entry[i]) * size[i]]

Exposure   == SumFunctionOnSet(Cost, OpenIds)
Unrealized == SumFunctionOnSet(Gain, OpenIds)

Equity == Start + realized + Unrealized

\* raw in deployable_bankroll: the reserve is a constant below it.
Bankroll == Start + realized - Exposure

----------------------------------------------------------------------------
(* The entry task.                                                         *)

\* check_entry counts the positions in memory; a blind copy goes straight to execution.
PassGate ==
  /\ buy = Idle
  /\ blind \/ Cardinality(OpenIds) < MaxOpen
  /\ \E i \in Unused : buy' = [step |-> "gated", id |-> i, n |-> 0, price |-> 0]
  /\ UNCHANGED <<books, rows, queue, world, sell, weeks, count>>

\* execute: nothing, a part or all of the size.
Buy ==
  /\ buy.step = "gated"
  /\ \/ buy' = Idle /\ UNCHANGED world
     \/ \E n \in 1..MaxLot, p \in Asks :
          /\ buy' = [buy EXCEPT !.step = "traded", !.n = n, !.price = p]
          /\ shares' = [shares EXCEPT ![buy.id] = @ + n]
          /\ cash' = cash - n * p
          /\ UNCHANGED blind
  /\ UNCHANGED <<books, rows, queue, sell, weeks, count>>

\* open_from_signal: the position enters memory and its upsert is queued.
Open ==
  /\ buy.step = "traded"
  /\ size' = [size EXCEPT ![buy.id] = buy.n]
  /\ entry' = [entry EXCEPT ![buy.id] = buy.price]
  /\ queue' = Append(queue, buy.id)
  /\ buy' = [buy EXCEPT !.step = "stored"]
  /\ UNCHANGED <<mark, realized, rows, world, sell, weeks, count>>

----------------------------------------------------------------------------
(* The exit task.                                                          *)

\* The exit pass marks the token it has a book for ...
Mark(i, p) ==
  /\ sell = Idle /\ i \in OpenIds
  /\ mark' = [mark EXCEPT ![TokenOf[i]] = p]
  /\ UNCHANGED <<size, entry, realized, rows, queue, world, buy, sell, weeks, count>>

\* ... and flattens a position as far as the exchange goes.  The exchange sells
\* no share it does not have.
Sell(i) ==
  /\ sell = Idle /\ i \in OpenIds
  /\ \E n \in 1..size[i], p \in Bids :
       /\ n <= shares[i]
       /\ sell' = [step |-> "traded", id |-> i, n |-> n, price |-> p]
       /\ shares' = [shares EXCEPT ![i] = @ - n]
       /\ cash' = cash + n * p
  /\ UNCHANGED <<blind, books, rows, queue, buy, weeks, count>>

\* Variant the checks must reject: the PnL of a partial fill is that of the
\* whole position.
CloseBooksWhole ==
  /\ sell.step = "traded"
  /\ realized' = realized + (sell.price - entry[sell.id]) * size[sell.id]
  /\ size' = [size EXCEPT ![sell.id] = @ - sell.n]
  /\ queue' = Append(queue, sell.id)
  /\ sell' = [sell EXCEPT !.step = "stored"]
  /\ UNCHANGED <<entry, mark, rows, world, buy, weeks, count>>

\* Variant: a partial fill closes the position.
CloseForgetsRest ==
  /\ sell.step = "traded"
  /\ realized' = realized + (sell.price - entry[sell.id]) * sell.n
  /\ size' = [size EXCEPT ![sell.id] = 0]
  /\ queue' = Append(queue, sell.id)
  /\ sell' = [sell EXCEPT !.step = "stored"]
  /\ UNCHANGED <<entry, mark, rows, world, buy, weeks, count>>

\* Variant: only a full close is written to the store.
CloseKeepsPartial ==
  /\ sell.step = "traded"
  /\ realized' = realized + (sell.price - entry[sell.id]) * sell.n
  /\ size' = [size EXCEPT ![sell.id] = @ - sell.n]
  /\ IF size'[sell.id] = 0
     THEN queue' = Append(queue, sell.id) /\ sell' = [sell EXCEPT !.step = "stored"]
     ELSE sell' = Idle /\ UNCHANGED queue
  /\ UNCHANGED <<entry, mark, rows, world, buy, weeks, count>>

\* close: what was filled is realized and leaves the position, which goes from
\* memory with its last share; the upsert is queued.
Close ==
  /\ sell.step = "traded"
  /\ realized' = realized + (sell.price - entry[sell.id]) * sell.n
  /\ size' = [size EXCEPT ![sell.id] = @ - sell.n]
  /\ queue' = Append(queue, sell.id)
  /\ sell' = [sell EXCEPT !.step = "stored"]
  /\ UNCHANGED <<entry, mark, rows, world, buy, weeks, count>>

----------------------------------------------------------------------------
(* The store.                                                              *)

\* The task whose upsert is at the head of the queue goes on.
Resume(i) ==
  /\ queue' = Tail(queue)
  /\ IF buy.step = "stored" /\ buy.id = i
     THEN buy' = Idle /\ UNCHANGED sell
     ELSE sell' = Idle /\ UNCHANGED buy

\* Variant: a call that comes later can overtake one that waits.
CommitLatest ==
  /\ queue # <<>>
  /\ LET i == queue[Len(queue)] IN
       /\ rows' = [rows EXCEPT ![i] = size[i]]
       /\ queue' = SubSeq(queue, 1, Len(queue) - 1)
       /\ IF buy.step = "stored" /\ buy.id = i
          THEN buy' = Idle /\ UNCHANGED sell
          ELSE sell' = Idle /\ UNCHANGED buy
  /\ UNCHANGED <<books, world, weeks, count>>

\* Variant: the call returns before its turn at the lock.
CommitTwice ==
  /\ queue # <<>>
  /\ rows' = [rows EXCEPT ![Head(queue)] = size[Head(queue)]]
  /\ buy' = Idle /\ sell' = Idle
  /\ UNCHANGED <<books, queue, world, weeks, count>>

\* upsert_position: INSERT or UPDATE of the row from the position as it is.
Commit ==
  /\ queue # <<>>
  /\ rows' = [rows EXCEPT ![Head(queue)] = size[Head(queue)]]
  /\ Resume(Head(queue))
  /\ UNCHANGED <<books, world, weeks, count>>

Miss == misses' = misses + 1 /\ "store" \in Faults
        /\ starts + crashes + misses < MaxFaults

\* upsert_position raises: rolled back, and the task's handler is over.
CommitFails ==
  /\ Miss /\ queue # <<>>
  /\ Resume(Head(queue))
  /\ UNCHANGED <<books, rows, world, weeks, starts, crashes>>

\* upsert_order raises between an execution and the books: the handler is over.
OrdersFail ==
  /\ Miss
  /\ \/ buy.step = "traded" /\ buy' = Idle /\ UNCHANGED sell
     \/ sell.step = "traded" /\ sell' = Idle /\ UNCHANGED buy
  /\ UNCHANGED <<books, rows, queue, world, weeks, starts, crashes>>

----------------------------------------------------------------------------
(* The maintenance tick and restarts.                                      *)

NewWeek ==
  /\ week < MaxWeeks
  /\ week' = week + 1
  /\ UNCHANGED <<books, rows, queue, world, buy, sell, anchor, saved, tick, count>>

\* roll_anchors.
Roll ==
  /\ ~tick /\ tick' = TRUE
  /\ anchor' = IF anchor.week = week THEN anchor ELSE Known(Equity)
  /\ UNCHANGED <<books, rows, queue, world, buy, sell, saved, week, count>>

\* persist_anchors.
SaveAnchor ==
  /\ tick /\ tick' = FALSE
  /\ saved' = anchor
  /\ UNCHANGED <<books, rows, queue, world, buy, sell, anchor, week, count>>

\* Variant: every start of the process seeds a new anchor.
HydrateReseeds ==
  /\ size' = rows
  /\ mark' = [t \in Tokens |-> 0]
  /\ realized' = 0
  /\ anchor' = Known(Start)
  /\ queue' = <<>> /\ buy' = Idle /\ sell' = Idle /\ tick' = FALSE
  /\ UNCHANGED <<entry, rows, world, saved, week, misses>>

\* A new process: the positions of the store at their entry prices, no marks,
\* no realized PnL, and the saved anchor, if there is one.
Hydrate ==
  /\ size' = rows
  /\ mark' = [t \in Tokens |-> 0]
  /\ realized' = 0
  /\ anchor' = IF saved.week >= 0 THEN saved ELSE Known(Start)
  /\ queue' = <<>> /\ buy' = Idle /\ sell' = Idle /\ tick' = FALSE
  /\ UNCHANGED <<entry, rows, world, saved, week, misses>>

\* The process is stopped while no task is at work, and started again.
Restart ==
  /\ "restart" \in Faults /\ starts + crashes + misses < MaxFaults
  /\ buy = Idle /\ sell = Idle /\ ~tick
  /\ starts' = starts + 1
  /\ Hydrate /\ UNCHANGED crashes

\* It dies wherever it is, and is started again.
Crash ==
  /\ "crash" \in Faults /\ starts + crashes + misses < MaxFaults
  /\ crashes' = crashes + 1
  /\ Hydrate /\ UNCHANGED starts

----------------------------------------------------------------------------
Zero == [i \in Ids |-> 0]

Init ==
  /\ size = Zero /\ entry = Zero /\ mark = [t \in Tokens |-> 0] /\ realized = 0
  /\ rows = Zero /\ queue = <<>>
  /\ shares = Zero /\ cash = Start /\ blind \in BOOLEAN
  /\ buy = Idle /\ sell = Idle
  /\ week = 0 /\ anchor = [equity |-> Start, week |-> 0]
  /\ saved = [equity |-> 0, week |-> -1] /\ tick = FALSE
  /\ starts = 0 /\ crashes = 0 /\ misses = 0

EntryTask == PassGate \/ Buy \/ Open
ExitTask  == Close \/ \E i \in Ids : Sell(i) \/ \E p \in Marks : Mark(i, p)
Store     == Commit \/ CommitFails \/ OrdersFail
Tick      == NewWeek \/ Roll \/ SaveAnchor

Next == EntryTask \/ ExitTask \/ Store \/ Tick \/ Restart \/ Crash

Spec == Init /\ [][Next]_vars

----------------------------------------------------------------------------
TypeOK ==
  /\ size \in [Ids -> 0..MaxLot] /\ rows \in [Ids -> 0..MaxLot]
  /\ entry \in [Ids -> Asks \cup {0}] /\ mark \in [Tokens -> Marks \cup {0}]
  /\ realized \in Int /\ cash \in Int
  /\ queue \in Seq(Ids) /\ Len(queue) <= 2
  /\ shares \in [Ids -> 0..MaxLot] /\ blind \in BOOLEAN
  /\ buy \in Trade \cup {Idle} /\ sell \in Trade \cup {Idle}
  /\ anchor \in [equity : Int, week : Int] /\ saved \in [equity : Int, week : Int]
  /\ week \in Nat /\ tick \in BOOLEAN
  /\ starts \in Nat /\ crashes \in Nat /\ misses \in Nat

\* What a task has done on the exchange and not yet in the books.
Pending(t, i) == IF t.step = "traded" /\ t.id = i THEN t.n ELSE 0
Value(t)      == IF t.step = "traded" THEN t.n * t.price ELSE 0

\* What the exchange holds for us and the bankroll does not know, once what is in
\* flight is counted.
Gap      == cash - Value(sell) - (Bankroll - Value(buy))
Unbooked == \/ buy.step = "traded" /\ buy' = Idle
            \/ sell.step = "traded" /\ sell' = Idle

\* The bankroll the sizer works from is the cash that is really there, less what is
\* in flight: partial closes that overlap an entry lose nothing
\* (portfolio_manager.py:5-7, 128-162).  Only a fill whose handler ends before the
\* books moves it off, and a crash; a restart between passes forgets the realized
\* PnL and no more, and trading goes on from there to the cent.
BankrollIsCash ==
  /\ Gap = 0
  /\ [][/\ crashes' = crashes /\ starts' = starts /\ ~Unbooked => Gap' = Gap
        /\ starts' # starts /\ misses = 0 => Gap' = Gap + realized]_vars

\* The store is behind memory by no more than the upserts that wait for its lock and
\* one row for each store call that failed, over restarts and crashes anywhere
\* (portfolio_manager.py:12).
RowsFollow ==
  Cardinality({i \in Ids \ {queue[j] : j \in DOMAIN queue} : rows[i] # size[i]})
    <= misses

\* No more positions are open than the cap and one for each store call that failed,
\* in memory or in what a process that crashes leaves for the next: an entry takes
\* the place of a closed position only after its row is closed too, since upserts
\* commit in order.  Blind copies, which open without the gate, keep no cap
\* (orchestrator.py:199-226).
OpenCapHolds ==
  \/ blind
  \/ /\ Cardinality(OpenIds) <= MaxOpen + misses
     /\ Cardinality({i \in Ids : rows[i] > 0}) <= MaxOpen + misses

Torn == {i \in Ids : shares[i] # size[i] + Pending(buy, i) - Pending(sell, i)}

\* Positions that differ from the shares held are at most two a crash (one in the
\* hands of each task) and one a failed store call: nothing cascades from them.
TearsBounded == Cardinality(Torn) <= 2 * crashes + misses

\* Once saved, the anchor of a week stays for the week, whatever restarts: no
\* restart re-anchors a drawdown away.
AnchorSticks ==
  [][anchor.week = week /\ saved.week = week /\ week' = week
       => anchor' = anchor]_vars

\* A restart between passes turns no week without a drawdown into one with one: its
\* saved anchor is restored so that a stop "doesn't fire spuriously after a crashed
\* restart" (portfolio_manager.py:76-77).
Drawdown == anchor.equity - Equity

RestartAddsNoDrawdown ==
  [][starts' # starts /\ saved.week = week /\ Drawdown <= 0 => Drawdown' <= 0]_vars
=============================================================================
