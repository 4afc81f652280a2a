----------------------------- MODULE Execution ------------------------------
(***************************************************************************)
(* One call of ExecutionEngine.execute against an exchange that fills,     *)
(* expires and reports orders at its own pace, while the maintenance task  *)
(* may flip the paper/live mode at any await.  Shares and prices are       *)
(* integers (lots and ticks); an order's average price is kept as its      *)
(* cost, filled * average.                                                 *)
(***************************************************************************)
EXTENDS Integers, Sequences, FiniteSets

CONSTANTS Target,           \* target_shares
          TradePrice,       \* target_price, the trader's own
          Slip,             \* max_slippage_pct of it, in ticks
          Step,             \* repost_step
          MaxPlaces,        \* 1 + repost_count
          MaxPrice,         \* bound: book quotes and fills lie in 1..MaxPrice
          MaxMishaps,       \* bound: mode changes, lost cancels, answers without an id
          Faults            \* which of "book", "raise", "cancel" and "id" can happen

ASSUME ExecutionAssumption ==
  /\ Target \in Nat \ {0} /\ TradePrice \in Nat /\ Slip \in Nat /\ Step \in Nat
  /\ MaxPlaces \in Nat \ {0} /\ MaxPrice \in Nat /\ MaxMishaps \in Nat
  /\ Faults \subseteq {"book", "raise", "cancel", "id"}

VARIABLES
  side,        \* "BUY" or "SELL", an argument of the call
  pc,          \* where execute is
  attempts,    \* orders posted or about to be
  remaining, total, wsum,     \* shares left, shares accounted, their cost
  limit,       \* the limit price computed for this attempt
  known,       \* `placed`: the last report of this attempt's order
  orders,      \* exchange: the orders of this call, oldest first
  bought,      \* exchange: shares really traded for this call, paper included
  paper,       \* ClobClient._force_paper
  mishaps      \* mode changes, lost cancels and answers without an id so far

engine == <<side, attempts, remaining, total, wsum, limit, known>>
vars   == <<pc, engine, orders, bought, paper, mishaps>>

Prices == 1..MaxPrice
High   == TradePrice + Slip      \* max_price
Low    == TradePrice - Slip      \* min_price
Last   == Len(orders)

Min2(a, b) == IF a <= b THEN a ELSE b
Max2(a, b) == IF a >= b THEN a ELSE b

Nothing == [status |-> "LIVE", filled |-> 0, cost |-> 0, id |-> TRUE]

\* Whether a price respects the slippage tolerance.
Tolerable(price) == IF side = "BUY" THEN price <= High ELSE price >= Low

\* Whether an exchange may trade an order at a price: its limit or better.
Crosses(price, lim) == IF side = "BUY" THEN price <= lim ELSE price >= lim

\* _compute_limit_price: from the trader's price (or better) towards the far
\* side of the book, a step per repost, never beyond it.
LimitPrice(bid, ask, n) ==
  IF side = "BUY" THEN Min2(Min2(TradePrice, ask) + (n - 1) * Step, ask)
  ELSE Max2(Max2(TradePrice, bid) - (n - 1) * Step, bid)

----------------------------------------------------------------------------
(* The engine.                                                             *)

\* Variant the checks must reject: one repost too many.
MoreOff == remaining > 0 /\ attempts <= MaxPlaces

More == remaining > 0 /\ attempts < MaxPlaces

\* Variant: the computed limit is posted without the slippage checks.
QuoteUnchecked ==
  /\ pc = "loop" /\ More
  /\ attempts' = attempts + 1
  /\ \E bid, ask \in Prices :
       /\ limit' = LimitPrice(bid, ask, attempts')
       /\ pc' = "place"
  /\ UNCHANGED <<side, remaining, total, wsum, known, orders, bought, paper, mishaps>>

\* A fresh book, the pre-flight check of the side to cross, the limit price
\* and its own check; either check aborts the call.
Quote ==
  /\ pc = "loop" /\ More
  /\ attempts' = attempts + 1
  /\ \E bid, ask \in Prices :
       /\ LET px == LimitPrice(bid, ask, attempts')
              cross == IF side = "BUY" THEN ask ELSE bid
          IN  IF Tolerable(cross) /\ Tolerable(px)
              THEN limit' = px /\ pc' = "place"
              ELSE pc' = "done" /\ UNCHANGED limit
  /\ UNCHANGED <<side, remaining, total, wsum, known, orders, bought, paper, mishaps>>

\* The book cannot be fetched, is empty or one-sided: the call ends with what it has.
\* One that does not parse raises out of execute.
QuoteFails ==
  /\ "book" \in Faults
  /\ pc = "loop" /\ More
  /\ attempts' = attempts + 1
  /\ pc' \in {"done", "raised"}
  /\ UNCHANGED <<side, remaining, total, wsum, limit, known, orders, bought, paper, mishaps>>

Exhausted ==
  /\ pc = "loop" /\ ~More
  /\ pc' = "done"
  /\ UNCHANGED <<engine, orders, bought, paper, mishaps>>

\* Variant: a repost asks for the whole target again.
OrderSizeWhole == Target

\* A repost asks for what is left.
OrderSize == remaining

Order(n, price) == [limit |-> limit, size |-> OrderSize, filled |-> n,
                    cost |-> n * price, live |-> n < OrderSize]

\* What is told of an order: its status, what it filled, and whether its id is there.
Told(o, id) == [status |-> IF o.filled = o.size THEN "FILLED"
                           ELSE IF o.live THEN "LIVE" ELSE "CANCELED",
                filled |-> o.filled, cost |-> o.cost, id |-> id]

Report(o)  == Told(o, TRUE)
Reports(o) == {Told(o, id) : id \in BOOLEAN}

\* An answer that lacks the id is a mishap.
Answer(o, r) ==
  \/ r = Report(o) /\ UNCHANGED mishaps
  \/ /\ r = Told(o, FALSE) /\ "id" \in Faults
     /\ mishaps < MaxMishaps /\ mishaps' = mishaps + 1

\* Variant: nothing is cancelled before the repost.
CreditNoCancel(r) ==
  /\ total' = total + r.filled
  /\ remaining' = remaining - r.filled
  /\ wsum' = wsum + r.cost
  /\ pc' = IF r.status = "FILLED" \/ remaining' <= 0 THEN "done" ELSE "loop"
  /\ known' = Nothing
  /\ UNCHANGED <<side, attempts, limit>>

\* The end of an attempt: account for what its order is known to have filled.  An
\* order whose id is not known is left alone.
Credit(r) ==
  /\ total' = total + r.filled
  /\ remaining' = remaining - r.filled
  /\ wsum' = wsum + r.cost
  /\ pc' = IF r.status = "FILLED" \/ remaining' <= 0 THEN "done"
            ELSE IF r.id THEN "cancel" ELSE "loop"
  /\ known' = Nothing
  /\ UNCHANGED <<side, attempts, limit>>

\* place_limit through the paper signer: filled at once, on no exchange.
PlacePaper ==
  /\ pc = "place" /\ paper
  /\ LET o == Order(OrderSize, limit) IN
       /\ orders' = Append(orders, o)
       /\ bought' = bought + o.filled
       /\ Credit(Report(o))
  /\ UNCHANGED <<paper, mishaps>>

\* place_limit on the exchange: the order trades some, all or none of its size at
\* once; what is not reported FILLED is waited for.
Place ==
  /\ pc = "place" /\ ~paper
  /\ \E n \in 0..OrderSize, p \in Prices \cup {limit} :
       LET o == Order(n, p) IN
         /\ Crosses(p, limit)
         /\ orders' = Append(orders, o)
         /\ bought' = bought + n
         /\ IF n = OrderSize
            THEN Credit(Report(o)) /\ UNCHANGED mishaps
            ELSE /\ \E r \in Reports(o) : Answer(o, r) /\ known' = r
                 /\ pc' = "poll"
                 /\ UNCHANGED <<side, attempts, remaining, total, wsum, limit>>
  /\ UNCHANGED paper

\* place_limit raises out of execute; the order may have got through.
PlaceRaises ==
  /\ "raise" \in Faults
  /\ pc = "place" /\ ~paper
  /\ orders' \in {orders, Append(orders, Order(0, limit))}
  /\ pc' = "raised"
  /\ UNCHANGED <<engine, bought, paper, mishaps>>

\* get_order: a final status ends the wait, another is remembered.  No answer, and
\* there is none without the order's id, changes nothing.
Poll ==
  /\ pc = "poll"
  /\ \/ UNCHANGED <<pc, engine, mishaps>>
     \/ known.id /\ \E r \in Reports(orders[Last]) :
          /\ Answer(orders[Last], r)
          /\ IF r.status = "LIVE"
             THEN known' = r
                  /\ UNCHANGED <<pc, side, attempts, remaining, total, wsum, limit>>
             ELSE Credit(r)
  /\ UNCHANGED <<orders, bought, paper>>

\* Variant: the deadline is looked at only once something is filled.
ExpireWhenPartial ==
  /\ pc = "poll" /\ known.filled > 0
  /\ Credit(known)
  /\ UNCHANGED <<orders, bought, paper, mishaps>>

\* order_ttl_seconds is up: the last report stands, however old.
Expire ==
  /\ pc = "poll"
  /\ Credit(known)
  /\ UNCHANGED <<orders, bought, paper, mishaps>>

\* cancel: through the signer of the moment, its result ignored.
Cancel ==
  /\ pc = "cancel"
  /\ orders' = IF paper THEN orders ELSE [orders EXCEPT ![Last].live = FALSE]
  /\ pc' = "loop"
  /\ UNCHANGED <<engine, bought, paper, mishaps>>

CancelFails ==
  /\ "cancel" \in Faults
  /\ pc = "cancel" /\ ~paper
  /\ mishaps < MaxMishaps /\ mishaps' = mishaps + 1
  /\ pc' = "loop"
  /\ UNCHANGED <<engine, orders, bought, paper>>

----------------------------------------------------------------------------
(* The rest of the world.                                                  *)

\* An order after a trade of n shares at a price.
Traded(o, n, p) == [o EXCEPT !.filled = @ + n, !.cost = @ + n * p,
                             !.live = (o.filled + n < o.size)]

\* The exchange trades some of a live order, at its limit or better.
Fill(i) ==
  /\ orders[i].live
  /\ \E n \in 1..(orders[i].size - orders[i].filled), p \in Prices :
       /\ Crosses(p, orders[i].limit)
       /\ orders' = [orders EXCEPT ![i] = Traded(orders[i], n, p)]
       /\ bought' = bought + n
  /\ UNCHANGED <<pc, engine, paper, mishaps>>

\* The exchange drops a live order of its own accord.
Drop(i) ==
  /\ orders[i].live
  /\ orders' = [orders EXCEPT ![i].live = FALSE]
  /\ UNCHANGED <<pc, engine, bought, paper, mishaps>>

\* The maintenance tick changes the mode.
Flip ==
  /\ mishaps < MaxMishaps /\ mishaps' = mishaps + 1
  /\ paper' = ~paper
  /\ UNCHANGED <<pc, engine, orders, bought>>

----------------------------------------------------------------------------
Init ==
  /\ pc = "loop"
  /\ side \in {"BUY", "SELL"}
  /\ attempts = 0 /\ remaining = Target /\ total = 0 /\ wsum = 0 /\ limit = 0
  /\ known = Nothing
  /\ orders = <<>> /\ bought = 0
  /\ paper = FALSE /\ mishaps = 0

Engine == Quote \/ Exhausted \/ PlacePaper \/ Place \/ Poll \/ Expire \/ Cancel
Fault  == QuoteFails \/ PlaceRaises \/ CancelFails
World  == Flip \/ \E i \in 1..Last : Fill(i) \/ Drop(i)

\* The call is over and nothing of it rests on the exchange.
Over == /\ pc \in {"done", "raised"} /\ \A i \in 1..Last : ~orders[i].live
        /\ UNCHANGED vars

Next == Engine \/ Fault \/ World \/ Over

Spec == Init /\ [][Next]_vars

\* The task runs whenever it can, and the time to live of an order passes; the
\* exchange owes nothing.
FairSpec == Spec /\ WF_vars(Engine) /\ WF_vars(Expire)

----------------------------------------------------------------------------
OrderType == [limit : Int, size : Nat, filled : Nat, cost : Int, live : BOOLEAN]

TypeOK ==
  /\ pc \in {"loop", "place", "poll", "cancel", "done", "raised"}
  /\ side \in {"BUY", "SELL"}
  /\ attempts \in 0..MaxPlaces
  /\ remaining \in Nat /\ total \in Nat /\ wsum \in Int /\ limit \in Int
  /\ known \in [status : {"LIVE"}, filled : Nat, cost : Int, id : BOOLEAN]
  /\ orders \in Seq(OrderType)
  /\ bought \in Nat
  /\ paper \in BOOLEAN /\ mishaps \in 0..MaxMishaps

\* What execute reports it filled is never more than was asked for, whatever
\* partial fills, reposts and mode mishaps it took (execution_engine.py:64), and
\* never more than was really traded; what was really traded is at most the target
\* again for each attempt, so an overfill ends with the reposts.
AccountedIsSound ==
  /\ total + remaining = Target /\ total <= Target
  /\ total <= bought /\ bought <= attempts * Target

\* A cost of n shares that respects the tolerance.
Fair(cost, n) == IF side = "BUY" THEN cost <= n * High ELSE cost >= n * Low

\* The accounted average price respects max_slippage_pct (execution_engine.py:
\* 64-65), over reposts that get more aggressive against a moving book; and so does
\* what each order really cost, with the fills that no report of it told.
WithinSlippage ==
  Fair(wsum, total) /\ \A i \in 1..Last : Fair(orders[i].cost, orders[i].filled)

\* The engine cancels the rest of an order before it posts the next and before it
\* returns (execution_engine.py:135): what rests beside the order in hand, and
\* after the call, is at most one order for each mode change, lost cancel and answer
\* that lacks the order's id (execution_engine.py:136).
OneOrderAtATime ==
  LET inHand == IF pc \in {"poll", "cancel", "raised"} THEN 1 ELSE 0
  IN  Cardinality({i \in 1..Last : orders[i].live}) <= inHand + mishaps

\* "Fill up to `target_shares`" (execution_engine.py:64).
NeverOverfilled == bought <= Target

\* Every call of execute ends, however the exchange behaves.
Terminates == <>(pc \in {"done", "raised"})
=============================================================================
