-------------------------- MODULE PortfolioProofs ---------------------------
(***************************************************************************)
(* Proofs about Portfolio, for any positions, prices and number of faults: *)
(* the week's anchor sticks, the store follows memory, the cap on open     *)
(* positions holds in both, what a fault tears apart is bounded, and the   *)
(* bankroll is the cash at the exchange.                                   *)
(***************************************************************************)
EXTENDS Portfolio, Sums, TLAPS, SequenceTheorems, FiniteSetTheorems

\* An execution in hand.
InHand == [step : Steps, id : Ids, n : Int, price : Int]

\* The types the proofs need: those of sums are left out.
BookTypes ==
  /\ queue \in Seq(Ids)
  /\ size \in [Ids -> Int] /\ rows \in [Ids -> Int]
  /\ entry \in [Ids -> Int] /\ shares \in [Ids -> Int]
  /\ buy \in InHand \cup {Idle} /\ sell \in InHand \cup {Idle}
  /\ crashes \in Nat /\ misses \in Nat

Queued == {queue[j] : j \in DOMAIN queue}

\* The queue holds the upserts of the tasks that wait for theirs, and no other.
Hands ==
  /\ Len(queue) = (IF buy.step = "stored" THEN 1 ELSE 0)
                  + (IF sell.step = "stored" THEN 1 ELSE 0)
  /\ buy.step = "stored" => buy.id \in Queued
  /\ sell.step = "stored" => sell.id \in Queued
  /\ \A i \in Queued : \/ buy.step = "stored" /\ i = buy.id
                       \/ sell.step = "stored" /\ i = sell.id

\* A position that was never opened has no size and no row, and it is one of
\* those that the entry task opens; the exit task sells one that was.
Fresh ==
  /\ \A i \in Ids : entry[i] = 0 => size[i] = 0 /\ rows[i] = 0
  /\ buy.step \in {"gated", "traded"} => entry[buy.id] = 0
  /\ buy.step = "traded" => buy.n > 0 /\ buy.price > 0
  /\ sell.step = "traded" => entry[sell.id] # 0 /\ sell.n >= 0

BookInv == BookTypes /\ Hands /\ Fresh

\* The anchors are of weeks that have begun, and a saved one is the one in memory
\* unless memory has rolled on.
AnchorInv ==
  /\ week \in Nat /\ anchor.week \in Int /\ saved.week \in Int
  /\ anchor.week <= week /\ saved.week <= anchor.week
  /\ saved.week = anchor.week => saved = anchor

----------------------------------------------------------------------------
(* The anchor.                                                             *)

\* The actions that are not the calendar's, the tick's or a restart leave the
\* anchors alone.
LEMMA WeeksStay ==
  EntryTask \/ ExitTask \/ Store \/ UNCHANGED vars => UNCHANGED weeks
BY DEF EntryTask, ExitTask, Store, PassGate, Buy, Open, Close, Sell, Mark, Commit,
       CommitFails, OrdersFail, Miss, Resume, vars, weeks

LEMMA AnchorNext == AnchorInv /\ [Next]_vars => AnchorInv'
<1> SUFFICES ASSUME AnchorInv, [Next]_vars PROVE AnchorInv'
  OBVIOUS
<1>1. CASE UNCHANGED weeks
  BY <1>1 DEF AnchorInv, weeks
<1>2. CASE NewWeek
  BY <1>2 DEF NewWeek, AnchorInv
<1>3. CASE Roll
  BY <1>3 DEF Roll, AnchorInv, Known
<1>4. CASE SaveAnchor
  BY <1>4 DEF SaveAnchor, AnchorInv
<1>5. CASE Restart \/ Crash
  BY <1>5 DEF Restart, Crash, Hydrate, AnchorInv, Known
<1> QED
  BY <1>1, <1>2, <1>3, <1>4, <1>5, WeeksStay DEF Next, Tick

\* Once saved, the anchor of a week stays for the week, whatever restarts,
\* crashes and failures of the store there are.
THEOREM AnchorStays == Spec => AnchorSticks
<1>1. Init => AnchorInv
  BY DEF Init, AnchorInv
<1>2. AnchorInv /\ [Next]_vars =>
        [anchor.week = week /\ saved.week = week /\ week' = week
           => anchor' = anchor]_vars
  <2> SUFFICES ASSUME AnchorInv, [Next]_vars,
                      anchor.week = week, saved.week = week, week' = week
               PROVE  anchor' = anchor
    OBVIOUS
  <2>1. CASE UNCHANGED weeks
    BY <2>1 DEF weeks
  <2>2. CASE NewWeek
    BY <2>2 DEF NewWeek
  <2>3. CASE Roll \/ SaveAnchor
    BY <2>3 DEF Roll, SaveAnchor
  <2>4. CASE Restart \/ Crash
    BY <2>4 DEF Restart, Crash, Hydrate, AnchorInv
  <2> QED
    BY <2>1, <2>2, <2>3, <2>4, WeeksStay DEF Next, Tick
<1> QED
  BY <1>1, <1>2, AnchorNext, PTL DEF Spec, AnchorSticks

----------------------------------------------------------------------------
(* The queue.                                                              *)

\* A position queued at the end of the queue is in it, with all that was.
LEMMA AppendQueues ==
  ASSUME queue \in Seq(Ids), NEW i \in Ids, queue' = Append(queue, i)
  PROVE  queue' \in Seq(Ids) /\ Queued' = Queued \cup {i}
BY DEF Queued

\* What leaves the queue is its head.
LEMMA TailQueues ==
  ASSUME queue \in Seq(Ids), queue # <<>>, queue' = Tail(queue)
  PROVE  /\ Head(queue) \in Ids
         /\ queue' \in Seq(Ids) /\ Queued \subseteq Queued' \cup {Head(queue)}
<1>1. queue' \in Seq(Ids) /\ Head(queue) = queue[1] /\ Head(queue) \in Ids
  OBVIOUS
<1>2. ASSUME NEW j \in DOMAIN queue, j # 1
      PROVE  j - 1 \in DOMAIN queue' /\ queue'[j - 1] = queue[j]
  BY <1>2
<1>3. ASSUME NEW x \in Queued, x # Head(queue)
      PROVE  x \in Queued'
  <2>1. PICK j \in DOMAIN queue : x = queue[j]
    BY DEF Queued
  <2>2. j # 1
    BY <1>1, <1>3, <2>1
  <2> QED
    BY <1>2, <2>1, <2>2 DEF Queued
<1> QED
  BY <1>1, <1>3

----------------------------------------------------------------------------
(* What every state has.                                                   *)

LEMMA BookInit == Init => BookInv
BY DEF Init, BookInv, BookTypes, Hands, Queued, Fresh, Zero, Idle

\* The execution a task takes in hand, or goes on with, is well formed.
LEMMA HandTypes ==
  ASSUME BookTypes, Next
  PROVE  buy' \in InHand \cup {Idle} /\ sell' \in InHand \cup {Idle}
<1> USE DEF BookTypes
<1>1. CASE PassGate
  <2>1. PICK i \in Unused : buy' = [step |-> "gated", id |-> i, n |-> 0, price |-> 0]
    BY <1>1 DEF PassGate
  <2> QED BY <1>1, <2>1 DEF PassGate, Unused, InHand, Steps
<1>2. CASE Buy
  <2>1. buy.step = "gated" /\ sell' = sell
    BY <1>2, Zenon DEF Buy
  <2>2. buy \in InHand
    BY <2>1 DEF Idle
  <2>3. \/ buy' = Idle
        \/ \E n \in 1..MaxLot, p \in Asks :
             buy' = [buy EXCEPT !.step = "traded", !.n = n, !.price = p]
    BY <1>2, Zenon DEF Buy
  <2>4. ASSUME NEW n \in 1..MaxLot, NEW p \in Asks
        PROVE  [buy EXCEPT !.step = "traded", !.n = n, !.price = p] \in InHand
    <3>1. n \in Int /\ p \in Int /\ "traded" \in Steps
      BY PortfolioAssumption DEF Steps
    <3> QED BY <2>2, <3>1 DEF InHand
  <2> QED BY <2>1, <2>3, <2>4
<1>3. CASE Open
  <2>1. buy \in InHand /\ buy' = [buy EXCEPT !.step = "stored"] /\ sell' = sell
    BY <1>3 DEF Open, Idle
  <2> QED BY <2>1 DEF InHand, Steps
<1>4. CASE \E i \in Ids : Sell(i)
  <2>1. PICK i \in Ids : Sell(i)
    BY <1>4
  <2>2. PICK n \in 1..size[i], p \in Bids :
          sell' = [step |-> "traded", id |-> i, n |-> n, price |-> p]
    BY <2>1 DEF Sell
  <2>3. n \in Int /\ p \in Int /\ "traded" \in Steps
    BY PortfolioAssumption DEF Steps
  <2>4. sell' \in InHand /\ buy' = buy
    BY <2>1, <2>2, <2>3 DEF Sell, InHand
  <2> QED BY <2>4
<1>5. CASE \E i \in Ids : \E p \in Marks : Mark(i, p)
  BY <1>5 DEF Mark
<1>6. CASE Close
  <2>1. sell \in InHand /\ sell' = [sell EXCEPT !.step = "stored"] /\ buy' = buy
    BY <1>6 DEF Close, Idle
  <2> QED BY <2>1 DEF InHand, Steps
<1>7. CASE Commit \/ CommitFails \/ OrdersFail
  <2>1. buy' \in {buy, Idle} /\ sell' \in {sell, Idle}
    BY <1>7, Zenon DEF Commit, CommitFails, Resume, OrdersFail
  <2> QED BY <2>1
<1>8. CASE Tick
  BY <1>8 DEF Tick, NewWeek, Roll, SaveAnchor
<1>9. CASE Restart \/ Crash
  BY <1>9 DEF Restart, Crash, Hydrate
<1> QED
  BY <1>1, <1>2, <1>3, <1>4, <1>5, <1>6, <1>7, <1>8, <1>9
  DEF Next, EntryTask, ExitTask, Store, OpenIds

LEMMA TypesNext == BookTypes /\ [Next]_vars => BookTypes'
<1> SUFFICES ASSUME BookTypes, [Next]_vars PROVE BookTypes'
  OBVIOUS
<1>0. buy' \in InHand \cup {Idle} /\ sell' \in InHand \cup {Idle}
  BY HandTypes DEF BookTypes, vars
<1> USE <1>0 DEF BookTypes
<1>1. CASE PassGate
  BY <1>1 DEF PassGate, books, world, count
<1>2. CASE Buy
  <2>1. buy.step = "gated" /\ UNCHANGED <<books, rows, queue, count>>
    BY <1>2, Zenon DEF Buy
  <2>2. \/ shares' = shares
        \/ \E n \in 1..MaxLot : shares' = [shares EXCEPT ![buy.id] = @ + n]
    BY <1>2, Zenon DEF Buy, world
  <2>3. ASSUME NEW n \in 1..MaxLot
        PROVE  [shares EXCEPT ![buy.id] = @ + n] \in [Ids -> Int]
    <3>1. n \in Int
      BY PortfolioAssumption
    <3>2. buy \in InHand
      BY <2>1 DEF Idle
    <3> QED BY <3>1, <3>2 DEF InHand
  <2>4. shares' \in [Ids -> Int]
    BY <2>2, <2>3
  <2> QED BY <2>1, <2>4 DEF books, count
<1>3. CASE Open
  <2>1. buy \in InHand
    BY <1>3 DEF Open, Idle
  <2>2. buy.id \in Ids /\ buy.n \in Int /\ buy.price \in Int
    BY <2>1 DEF InHand
  <2>3. queue' \in Seq(Ids)
    BY <1>3, <2>2 DEF Open
  <2> QED BY <1>3, <2>2, <2>3 DEF Open, world, count
<1>4. CASE \E i \in Ids : Sell(i)
  <2>1. PICK i \in Ids : Sell(i)
    BY <1>4
  <2>2. PICK n \in 1..size[i] : shares' = [shares EXCEPT ![i] = @ - n]
    BY <2>1 DEF Sell
  <2> QED BY <2>1, <2>2 DEF Sell, books, count
<1>5. CASE \E i \in Ids : \E p \in Marks : Mark(i, p)
  BY <1>5 DEF Mark, world, count
<1>6. CASE Close
  <2>1. sell \in InHand
    BY <1>6 DEF Close, Idle
  <2>2. sell.id \in Ids /\ sell.n \in Int
    BY <2>1 DEF InHand
  <2>3. queue' \in Seq(Ids)
    BY <1>6, <2>2 DEF Close
  <2> QED BY <1>6, <2>2, <2>3 DEF Close, world, count
<1>7. CASE Commit
  <2>1. queue # <<>> /\ queue' = Tail(queue) /\ UNCHANGED <<books, world, count>>
        /\ rows' = [rows EXCEPT ![Head(queue)] = size[Head(queue)]]
    BY <1>7 DEF Commit, Resume
  <2>2. queue' \in Seq(Ids) /\ Head(queue) \in Ids
    BY <2>1, TailQueues
  <2> QED BY <2>1, <2>2 DEF books, world, count
<1>8. CASE CommitFails
  <2>1. /\ queue # <<>> /\ queue' = Tail(queue) /\ UNCHANGED <<books, rows, world, crashes>>
        /\ misses' = misses + 1
    BY <1>8, Zenon DEF CommitFails, Resume, Miss
  <2>2. queue' \in Seq(Ids)
    BY <2>1, TailQueues
  <2> QED BY <2>1, <2>2 DEF books, world
<1>9. CASE OrdersFail
  <2>1. misses' = misses + 1 /\ UNCHANGED <<books, rows, queue, world, crashes>>
    BY <1>9, Zenon DEF OrdersFail, Miss
  <2> QED BY <2>1 DEF books, world
<1>10. CASE Tick
  BY <1>10 DEF Tick, NewWeek, Roll, SaveAnchor, books, world, count
<1>11. CASE Restart \/ Crash
  <2>1. /\ size' = rows /\ queue' = <<>> /\ UNCHANGED <<entry, rows, world, misses>>
        /\ crashes' = crashes \/ crashes' = crashes + 1
    BY <1>11, Zenon DEF Restart, Crash, Hydrate
  <2> QED BY <2>1 DEF world
<1>12. CASE UNCHANGED vars
  BY <1>12 DEF vars, books, world, count
<1> QED
  BY <1>1, <1>2, <1>3, <1>4, <1>5, <1>6, <1>7, <1>8, <1>9, <1>10, <1>11, <1>12
  DEF Next, EntryTask, ExitTask, Store, OpenIds

\* After the head of the queue is served, the task that waited for it goes on.
LEMMA ServedHands ==
  ASSUME BookTypes, Hands, queue # <<>>, Resume(Head(queue))
  PROVE  Hands'
<1>1. /\ Head(queue) \in Ids /\ queue' = Tail(queue) /\ queue' \in Seq(Ids)
      /\ Queued \subseteq Queued' \cup {Head(queue)}
  BY TailQueues DEF Resume, BookTypes
<1>2. Len(queue') = Len(queue) - 1 /\ Len(queue') \in Nat
  BY <1>1 DEF BookTypes
<1>3. Head(queue) \in Queued /\ Queued' \subseteq Queued
  <2>1. Head(queue) = queue[1] /\ 1 \in DOMAIN queue
    BY DEF BookTypes
  <2>2. ASSUME NEW j \in DOMAIN queue'
        PROVE  j + 1 \in DOMAIN queue /\ queue'[j] = queue[j + 1]
    BY <1>1, <2>2 DEF BookTypes
  <2> QED BY <2>1, <2>2 DEF Queued
<1>4. CASE buy.step = "stored" /\ buy.id = Head(queue)
  <2>1. buy' = Idle /\ sell' = sell
    BY <1>4 DEF Resume
  <2>2. CASE sell.step = "stored"
    <3>1. Len(queue') = 1
      BY <1>2, <1>4, <2>2 DEF Hands
    <3>2. Queued' = {queue'[1]}
      <4>1. DOMAIN queue' = {1}
        BY <1>1, <3>1
      <4> QED BY <4>1 DEF Queued
    <3>3. queue'[1] \in {buy.id, sell.id} /\ sell.id \in Queued' \cup {buy.id}
      BY <1>1, <1>3, <1>4, <2>2, <3>2 DEF Hands
    <3>4. queue'[1] = sell.id
      BY <1>1, <1>3, <1>4, <2>2, <3>1, <3>2, <3>3 DEF Hands
    <3> QED BY <2>1, <2>2, <3>1, <3>2, <3>4 DEF Hands, Idle
  <2>3. CASE sell.step # "stored"
    <3>1. Len(queue') = 0
      BY <1>2, <1>4, <2>3 DEF Hands
    <3>2. Queued' = {}
      BY <1>1, <3>1 DEF Queued
    <3> QED BY <2>1, <2>3, <3>1, <3>2 DEF Hands, Idle
  <2> QED BY <2>2, <2>3
<1>5. CASE ~(buy.step = "stored" /\ buy.id = Head(queue))
  <2>1. buy' = buy /\ sell' = Idle
    BY <1>5 DEF Resume
  <2>2. sell.step = "stored" /\ sell.id = Head(queue)
    BY <1>3, <1>5 DEF Hands
  <2>3. CASE buy.step = "stored"
    <3>1. Len(queue') = 1
      BY <1>2, <2>2, <2>3 DEF Hands
    <3>2. Queued' = {queue'[1]}
      <4>1. DOMAIN queue' = {1}
        BY <1>1, <3>1
      <4> QED BY <4>1 DEF Queued
    <3>3. buy.id \in Queued'
      BY <1>1, <1>5, <2>3 DEF Hands
    <3> QED BY <2>1, <2>3, <3>1, <3>2, <3>3 DEF Hands, Idle
  <2>4. CASE buy.step # "stored"
    <3>1. Len(queue') = 0
      BY <1>2, <2>2, <2>4 DEF Hands
    <3>2. Queued' = {}
      BY <1>1, <3>1 DEF Queued
    <3> QED BY <2>1, <2>4, <3>1, <3>2 DEF Hands, Idle
  <2> QED BY <2>3, <2>4
<1> QED BY <1>4, <1>5

LEMMA HandsNext == BookTypes /\ Hands /\ [Next]_vars => Hands'
<1> SUFFICES ASSUME BookTypes, Hands, [Next]_vars PROVE Hands'
  OBVIOUS
<1>a. ASSUME queue' = queue,
             buy' = buy \/ (buy.step # "stored" /\ buy'.step # "stored"),
             sell' = sell \/ (sell.step # "stored" /\ sell'.step # "stored")
      PROVE  Hands'
  BY <1>a DEF Hands, Queued
<1>1. CASE PassGate
  <2>1. buy.step = "idle" /\ buy'.step = "gated" /\ UNCHANGED <<queue, sell>>
    BY <1>1 DEF PassGate, Idle
  <2> QED BY <2>1, <1>a
<1>2. CASE Buy
  <2>1. /\ buy.step = "gated" /\ UNCHANGED <<queue, sell>>
        /\ \/ buy' = Idle
           \/ \E n \in 1..MaxLot, p \in Asks :
                buy' = [buy EXCEPT !.step = "traded", !.n = n, !.price = p]
    BY <1>2, Zenon DEF Buy
  <2>2. buy \in InHand
    <3>1. buy.step = "gated"
      BY <2>1
    <3> QED BY <3>1 DEF BookTypes, Idle
  <2>3. buy'.step # "stored"
    <3>1. ASSUME NEW n \in 1..MaxLot, NEW p \in Asks,
                 buy' = [buy EXCEPT !.step = "traded", !.n = n, !.price = p]
          PROVE  buy'.step # "stored"
      <4>1. buy'.step = "traded"
        BY <2>2, <3>1 DEF InHand, Steps
      <4> QED BY <4>1
    <3>2. buy' = Idle => buy'.step # "stored"
      BY DEF Idle
    <3> QED BY <2>1, <3>1, <3>2, Zenon
  <2> QED BY <2>1, <2>3, <1>a
<1>3. CASE Open
  <2>1. /\ buy \in InHand /\ buy.step = "traded" /\ buy' = [buy EXCEPT !.step = "stored"]
        /\ queue' = Append(queue, buy.id) /\ sell' = sell
    BY <1>3 DEF Open, BookTypes, Idle
  <2>2. buy'.step = "stored" /\ buy'.id = buy.id /\ buy.id \in Ids
    BY <2>1 DEF InHand
  <2>3. Len(queue') = Len(queue) + 1 /\ Queued' = Queued \cup {buy.id}
    BY <2>1, <2>2, AppendQueues DEF BookTypes
  <2> QED BY <2>1, <2>2, <2>3 DEF Hands
<1>4. CASE \E i \in Ids : Sell(i)
  <2>1. PICK i \in Ids : Sell(i)
    BY <1>4
  <2>2. sell.step = "idle" /\ sell'.step = "traded" /\ UNCHANGED <<queue, buy>>
    BY <2>1 DEF Sell, Idle
  <2> QED BY <2>2, <1>a
<1>5. CASE Close
  <2>1. /\ sell \in InHand /\ sell.step = "traded"
        /\ sell' = [sell EXCEPT !.step = "stored"]
        /\ queue' = Append(queue, sell.id) /\ buy' = buy
    BY <1>5 DEF Close, BookTypes, Idle
  <2>2. sell'.step = "stored" /\ sell'.id = sell.id /\ sell.id \in Ids
    BY <2>1 DEF InHand
  <2>3. Len(queue') = Len(queue) + 1 /\ Queued' = Queued \cup {sell.id}
    BY <2>1, <2>2, AppendQueues DEF BookTypes
  <2> QED BY <2>1, <2>2, <2>3 DEF Hands
<1>6. CASE Commit \/ CommitFails
  BY <1>6, ServedHands DEF Commit, CommitFails
<1>7. CASE OrdersFail
  <2>1. /\ queue' = queue
        /\ \/ buy.step = "traded" /\ buy' = Idle /\ sell' = sell
           \/ sell.step = "traded" /\ sell' = Idle /\ buy' = buy
    BY <1>7, Zenon DEF OrdersFail
  <2> QED BY <2>1, <1>a DEF Idle
<1>8. CASE Restart \/ Crash
  BY <1>8 DEF Restart, Crash, Hydrate, Hands, Queued, Idle
<1>9. CASE Tick \/ UNCHANGED vars \/ (\E i \in Ids : \E p \in Marks : Mark(i, p))
  <2>1. UNCHANGED <<queue, buy, sell>>
    BY <1>9 DEF Tick, NewWeek, Roll, SaveAnchor, Mark, vars
  <2> QED BY <2>1, <1>a
<1> QED
  BY <1>1, <1>2, <1>3, <1>4, <1>5, <1>6, <1>7, <1>8, <1>9
  DEF Next, EntryTask, ExitTask, Store, OpenIds

LEMMA FreshNext == BookTypes /\ Fresh /\ [Next]_vars => Fresh'
<1> SUFFICES ASSUME BookTypes, Fresh, [Next]_vars PROVE Fresh'
  OBVIOUS
<1>1. CASE PassGate
  <2>1. PICK i \in Unused : buy' = [step |-> "gated", id |-> i, n |-> 0, price |-> 0]
    BY <1>1 DEF PassGate
  <2> QED BY <1>1, <2>1 DEF PassGate, Fresh, Unused, books
<1>2. CASE Buy
  <2>1. /\ buy.step = "gated" /\ UNCHANGED <<entry, size, rows, sell>>
        /\ \/ buy' = Idle
           \/ \E n \in 1..MaxLot, p \in Asks :
                buy' = [buy EXCEPT !.step = "traded", !.n = n, !.price = p]
    BY <1>2, Zenon DEF Buy, books
  <2>2. buy \in InHand
    <3>1. buy.step = "gated"
      BY <2>1
    <3> QED BY <3>1 DEF BookTypes, Idle
  <2>3. buy' = Idle \/ (buy'.id = buy.id /\ buy'.n > 0 /\ buy'.price > 0)
    <3>1. ASSUME NEW n \in 1..MaxLot, NEW p \in Asks,
                 buy' = [buy EXCEPT !.step = "traded", !.n = n, !.price = p]
          PROVE  buy'.id = buy.id /\ buy'.n > 0 /\ buy'.price > 0
      <4>1. n > 0 /\ p > 0
        BY PortfolioAssumption
      <4> QED BY <2>2, <3>1, <4>1 DEF InHand
    <3> QED BY <2>1, <3>1
  <2>4. buy.step = "gated" /\ UNCHANGED <<entry, size, rows, sell>>
    BY <2>1
  <2>5. CASE buy' = Idle
    BY <2>4, <2>5 DEF Fresh, Idle
  <2>6. CASE buy'.id = buy.id /\ buy'.n > 0 /\ buy'.price > 0
    BY <2>4, <2>6 DEF Fresh
  <2> QED BY <2>3, <2>5, <2>6
<1>3. CASE Open
  <2>1. /\ buy \in InHand /\ buy.step = "traded" /\ buy' = [buy EXCEPT !.step = "stored"]
        /\ size' = [size EXCEPT ![buy.id] = buy.n]
        /\ entry' = [entry EXCEPT ![buy.id] = buy.price] /\ UNCHANGED <<rows, sell>>
    BY <1>3 DEF Open, BookTypes, Idle
  <2>2. buy'.step = "stored" /\ buy.id \in Ids /\ buy.price > 0
    BY <2>1 DEF InHand, Fresh
  <2>3. /\ entry'[buy.id] = buy.price
        /\ \A i \in Ids : i # buy.id => entry'[i] = entry[i] /\ size'[i] = size[i]
    BY <2>1, <2>2 DEF BookTypes
  <2>4. sell.step = "traded" => entry'[sell.id] # 0
    <3> SUFFICES ASSUME sell.step = "traded" PROVE entry'[sell.id] # 0
      OBVIOUS
    <3>1. sell \in InHand
      BY DEF BookTypes, Idle
    <3>2. sell.id \in Ids /\ entry[sell.id] # 0
      BY <3>1 DEF InHand, Fresh
    <3>3. entry'[sell.id] \in {entry[sell.id], buy.price}
      BY <2>3, <3>2
    <3> QED BY <2>2, <3>2, <3>3
  <2>5. \A i \in Ids : entry'[i] = 0 => size'[i] = 0 /\ rows'[i] = 0
    BY <2>1, <2>2, <2>3 DEF Fresh
  <2>6. sell.step = "traded" => sell.n >= 0
    BY DEF Fresh
  <2> QED BY <2>1, <2>2, <2>4, <2>5, <2>6 DEF Fresh
<1>4. CASE \E i \in Ids : Sell(i)
  <2>1. PICK i \in Ids : Sell(i)
    BY <1>4
  <2>2. PICK n \in 1..size[i], p \in Bids :
          sell' = [step |-> "traded", id |-> i, n |-> n, price |-> p]
    BY <2>1 DEF Sell
  <2>3. size[i] > 0 /\ n >= 0
    BY <2>1 DEF Sell, OpenIds, BookTypes
  <2>4. sell'.step = "traded" /\ sell'.id = i /\ sell'.n = n
        /\ UNCHANGED <<entry, size, rows, buy>>
    BY <2>1, <2>2 DEF Sell, books
  <2>5. entry[i] # 0
    BY <2>3 DEF Fresh
  <2> QED BY <2>3, <2>4, <2>5 DEF Fresh
<1>5. CASE Close
  <2>1. /\ sell \in InHand /\ sell.step = "traded"
        /\ sell' = [sell EXCEPT !.step = "stored"]
        /\ size' = [size EXCEPT ![sell.id] = @ - sell.n] /\ UNCHANGED <<entry, rows, buy>>
    BY <1>5 DEF Close, BookTypes, Idle
  <2>2. sell'.step = "stored" /\ sell.id \in Ids /\ entry[sell.id] # 0
    BY <2>1 DEF InHand, Fresh
  <2>3. \A i \in Ids : i # sell.id => size'[i] = size[i]
    BY <2>1, <2>2 DEF BookTypes
  <2> QED BY <2>1, <2>2, <2>3 DEF Fresh
<1>6. CASE Commit
  <2>1. /\ queue # <<>> /\ queue' = Tail(queue) /\ UNCHANGED <<entry, size>>
        /\ rows' = [rows EXCEPT ![Head(queue)] = size[Head(queue)]]
    BY <1>6 DEF Commit, Resume, books
  <2>2. buy' \in {buy, Idle} /\ sell' \in {sell, Idle}
    BY <1>6, Zenon DEF Commit, Resume
  <2>3. Head(queue) \in Ids
    BY <2>1, TailQueues DEF BookTypes
  <2>4. \A i \in Ids : rows'[i] \in {rows[i], size[i]}
    BY <2>1, <2>3 DEF BookTypes
  <2>5. \A i \in Ids : entry'[i] = 0 => size'[i] = 0 /\ rows'[i] = 0
    BY <2>1, <2>4 DEF Fresh
  <2> QED BY <2>1, <2>2, <2>5 DEF Fresh, Idle
<1>7. CASE CommitFails \/ OrdersFail
  <2>1. /\ UNCHANGED <<entry, size, rows>>
        /\ buy' \in {buy, Idle} /\ sell' \in {sell, Idle}
    BY <1>7, Zenon DEF CommitFails, OrdersFail, Resume, books
  <2> QED BY <2>1 DEF Fresh, Idle
<1>8. CASE Restart \/ Crash
  BY <1>8 DEF Restart, Crash, Hydrate, Fresh, Idle
<1>9. CASE Tick \/ UNCHANGED vars \/ (\E i \in Ids : \E p \in Marks : Mark(i, p))
  <2>1. UNCHANGED <<entry, size, rows, buy, sell>>
    BY <1>9 DEF Tick, NewWeek, Roll, SaveAnchor, Mark, vars, books
  <2> QED BY <2>1 DEF Fresh
<1> QED
  BY <1>1, <1>2, <1>3, <1>4, <1>5, <1>6, <1>7, <1>8, <1>9
  DEF Next, EntryTask, ExitTask, Store, OpenIds

LEMMA BookHolds == Spec => []BookInv
<1>1. BookInv /\ [Next]_vars => BookInv'
  BY TypesNext, HandsNext, FreshNext DEF BookInv
<1> QED BY <1>1, BookInit, PTL DEF Spec

----------------------------------------------------------------------------
(* The rows.                                                               *)

Stray(q) == {i \in Ids \ q : rows[i] # size[i]}

\* Sets of positions are finite, and a smaller one has no more members.
LEMMA Cards ==
  ASSUME NEW S \in SUBSET Ids, NEW T \in SUBSET S
  PROVE  /\ IsFiniteSet(S) /\ Cardinality(S) \in Nat
         /\ Cardinality(T) \in Nat /\ Cardinality(T) <= Cardinality(S)
<1>1. IsFiniteSet(S)
  BY PortfolioAssumption, FS_Subset
<1>2. IsFiniteSet(T) /\ Cardinality(T) <= Cardinality(S)
  BY <1>1, FS_Subset
<1> QED BY <1>1, <1>2, FS_CardinalityType

LEMMA CardsAdd ==
  ASSUME NEW S \in SUBSET Ids, NEW x \in Ids, NEW T \in SUBSET (S \cup {x})
  PROVE  Cardinality(T) \in Nat /\ Cardinality(T) <= Cardinality(S) + 1
<1>1. IsFiniteSet(S) /\ Cardinality(S) \in Nat
  BY Cards
<1>2. Cardinality(S \cup {x}) <= Cardinality(S) + 1
  BY <1>1, FS_AddElement
<1>3. S \cup {x} \in SUBSET Ids
  OBVIOUS
<1> QED BY <1>1, <1>2, <1>3, Cards

\* Failed calls are only ever added, one by one.
LEMMA MissesNext ==
  ASSUME misses \in Nat, [Next]_vars
  PROVE  \/ misses' = misses /\ ~CommitFails /\ ~OrdersFail
         \/ misses' = misses + 1 /\ (CommitFails \/ OrdersFail)
<1>1. CASE CommitFails \/ OrdersFail
  <2>1. misses' = misses + 1
    BY <1>1, Zenon DEF CommitFails, OrdersFail, Miss
  <2> QED BY <1>1, <2>1
<1>2. CASE ~CommitFails /\ ~OrdersFail
  <2>1. misses' = misses
    BY <1>2, Zenon DEF Next, Restart, Crash, Hydrate, EntryTask, PassGate, Buy, Open,
       ExitTask, Close, Sell, Mark, Store, Commit, Tick, NewWeek, Roll, SaveAnchor,
       vars, count
  <2> QED BY <1>2, <2>1
<1> QED BY <1>1, <1>2

\* No step strands a row but an upsert that fails, and that one only its own.
LEMMA StrayNext ==
  ASSUME BookTypes, [Next]_vars
  PROVE  \/ {i \in Ids \ Queued' : rows'[i] # size'[i]} \subseteq Stray(Queued)
         \/ /\ CommitFails /\ Head(queue) \in Ids
            /\ {i \in Ids \ Queued' : rows'[i] # size'[i]}
                 \subseteq Stray(Queued) \cup {Head(queue)}
<1> DEFINE after == {i \in Ids \ Queued' : rows'[i] # size'[i]}
<1>1. CASE Open
  <2>1. /\ buy \in InHand /\ queue' = Append(queue, buy.id)
        /\ size' = [size EXCEPT ![buy.id] = buy.n] /\ UNCHANGED rows
    BY <1>1 DEF Open, BookTypes, Idle
  <2>2. buy.id \in Ids
    BY <2>1 DEF InHand
  <2>3. Queued' = Queued \cup {buy.id}
    BY <2>1, <2>2, AppendQueues DEF BookTypes
  <2>4. after \subseteq Stray(Queued)
    BY <2>1, <2>2, <2>3 DEF BookTypes, Stray
  <2> QED BY <2>4
<1>2. CASE Close
  <2>1. /\ sell \in InHand /\ queue' = Append(queue, sell.id)
        /\ size' = [size EXCEPT ![sell.id] = @ - sell.n] /\ UNCHANGED rows
    BY <1>2 DEF Close, BookTypes, Idle
  <2>2. sell.id \in Ids
    BY <2>1 DEF InHand
  <2>3. Queued' = Queued \cup {sell.id}
    BY <2>1, <2>2, AppendQueues DEF BookTypes
  <2>4. after \subseteq Stray(Queued)
    BY <2>1, <2>2, <2>3 DEF BookTypes, Stray
  <2> QED BY <2>4
<1>3. CASE Commit
  <2>1. queue # <<>> /\ queue' = Tail(queue) /\ UNCHANGED size
        /\ rows' = [rows EXCEPT ![Head(queue)] = size[Head(queue)]]
    BY <1>3 DEF Commit, Resume, books
  <2>2. Head(queue) \in Ids /\ Queued \subseteq Queued' \cup {Head(queue)}
    BY <2>1, TailQueues DEF BookTypes
  <2>3. \A i \in Ids : rows'[i] = IF i = Head(queue) THEN size[i] ELSE rows[i]
    BY <2>1, <2>2 DEF BookTypes
  <2>4. after \subseteq Stray(Queued)
    BY <2>1, <2>2, <2>3 DEF Stray
  <2> QED BY <2>4
<1>4. CASE CommitFails
  <2>1. queue # <<>> /\ queue' = Tail(queue) /\ UNCHANGED <<size, rows>>
    BY <1>4 DEF CommitFails, Resume, books
  <2>2. Head(queue) \in Ids /\ Queued \subseteq Queued' \cup {Head(queue)}
    BY <2>1, TailQueues DEF BookTypes
  <2>3. after \subseteq Stray(Queued) \cup {Head(queue)}
    BY <2>1, <2>2 DEF Stray
  <2> QED BY <1>4, <2>2, <2>3
<1>5. CASE Restart \/ Crash
  <2>1. size' = rows /\ rows' = rows
    BY <1>5 DEF Restart, Crash, Hydrate
  <2> QED BY <2>1
<1>6. CASE \/ PassGate \/ Buy \/ OrdersFail \/ Tick \/ UNCHANGED vars
           \/ \E i \in Ids : Sell(i) \/ \E p \in Marks : Mark(i, p)
  <2>1. UNCHANGED <<queue, size, rows>>
    BY <1>6, Zenon DEF PassGate, Buy, OrdersFail, Sell, Mark, Tick, NewWeek, Roll,
                       SaveAnchor, books, vars
  <2>2. after \subseteq Stray(Queued)
    BY <2>1 DEF Stray, Queued
  <2> QED BY <2>2
<1> QED
  BY <1>1, <1>2, <1>3, <1>4, <1>5, <1>6 DEF Next, EntryTask, ExitTask, Store, OpenIds

LEMMA RowsNext ==
  ASSUME BookTypes, RowsFollow, [Next]_vars PROVE RowsFollow'
<1> DEFINE after == {i \in Ids \ Queued' : rows'[i] # size'[i]}
<1>1. /\ Stray(Queued) \in SUBSET Ids /\ Cardinality(Stray(Queued)) \in Nat
      /\ Cardinality(Stray(Queued)) <= misses /\ misses \in Nat
  BY Cards DEF Stray, Queued, RowsFollow, BookTypes
<1>2. CASE after \subseteq Stray(Queued)
  <2>1. Cardinality(after) \in Nat /\ Cardinality(after) <= Cardinality(Stray(Queued))
    BY <1>1, <1>2, Cards
  <2>2. misses' \in Nat /\ misses' >= misses
    BY <1>1, MissesNext
  <2>3. Cardinality(after) <= misses'
    BY <1>1, <2>1, <2>2
  <2> QED BY <2>3 DEF RowsFollow, Queued
<1>3. CASE /\ CommitFails /\ Head(queue) \in Ids
           /\ after \subseteq Stray(Queued) \cup {Head(queue)}
  <2>1. Cardinality(after) \in Nat /\ Cardinality(after) <= Cardinality(Stray(Queued)) + 1
    BY <1>1, <1>3, CardsAdd
  <2>2. misses' = misses + 1
    BY <1>1, <1>3, MissesNext
  <2>3. Cardinality(after) <= misses'
    BY <1>1, <2>1, <2>2
  <2> QED BY <2>3 DEF RowsFollow, Queued
<1> QED BY <1>2, <1>3, StrayNext

\* For any number of failed calls, restarts and crashes: beside the rows whose upsert
\* waits for the lock, no more rows differ from memory than calls have failed.
THEOREM RowsHold == Spec => []RowsFollow
<1>1. Init => RowsFollow
  <2> SUFFICES ASSUME Init PROVE RowsFollow
    OBVIOUS
  <2>1. {i \in Ids \ {queue[j] : j \in DOMAIN queue} : rows[i] # size[i]} = {}
    BY DEF Init, Zero
  <2>2. misses = 0
    BY DEF Init
  <2> QED BY <2>1, <2>2, FS_EmptySet DEF RowsFollow
<1>2. BookInv /\ RowsFollow /\ [Next]_vars => RowsFollow'
  BY RowsNext DEF BookInv
<1> QED BY <1>1, <1>2, BookHolds, PTL DEF Spec

\* Where no call has failed, that is every row but the queued ones.
LEMMA RowsExact ==
  ASSUME BookTypes, RowsFollow, misses = 0
  PROVE  \A i \in Ids : i \notin Queued => rows[i] = size[i]
<1>1. Stray(Queued) \in SUBSET Ids
  BY DEF Stray
<1>2. IsFiniteSet(Stray(Queued)) /\ Cardinality(Stray(Queued)) \in Nat
  BY <1>1, Cards
<1>3. Cardinality(Stray(Queued)) = 0
  BY <1>2 DEF RowsFollow, Stray, Queued
<1>4. Stray(Queued) = {}
  BY <1>2, <1>3, FS_EmptySet
<1> QED BY <1>4 DEF Stray

----------------------------------------------------------------------------
(* The cap.                                                                *)

RowIds  == {i \in Ids : rows[i] > 0}
Covered == OpenIds \cup Stray(Queued)      \* open in memory, or left behind in the store
Cap     == MaxOpen + misses

\* A gated entry has its place in memory; the row of a position that is closed counts
\* until its upsert, which no opened position's upsert overtakes, or for good if that
\* upsert fails.
CapInv ==
  /\ Cardinality(Covered) <= Cap /\ Cardinality(RowIds) <= Cap
  /\ buy.step \in {"gated", "traded"} => Cardinality(OpenIds) < MaxOpen
  /\ sell.step = "traded" => size[sell.id] > 0
  /\ sell.step = "stored" /\ queue[Len(queue)] = sell.id
       => Cardinality(Covered \cup {sell.id}) <= Cap
  /\ buy.step = "stored" /\ sell.step = "stored" /\ buy.id # sell.id
       /\ queue[2] = buy.id => size[buy.id] > 0

LEMMA CapTyped ==
  ASSUME BookInv
  PROVE  /\ Cap \in Nat /\ misses \in Nat /\ MaxOpen \in Nat
         /\ Covered \in SUBSET Ids /\ OpenIds \in SUBSET Ids /\ RowIds \in SUBSET Ids
         /\ Cardinality(Covered) \in Nat /\ Cardinality(OpenIds) \in Nat
         /\ Cardinality(RowIds) \in Nat
<1>1. Cap \in Nat /\ misses \in Nat /\ MaxOpen \in Nat
  BY PortfolioAssumption DEF BookInv, BookTypes, Cap
<1>2. Covered \in SUBSET Ids /\ OpenIds \in SUBSET Ids /\ RowIds \in SUBSET Ids
  BY DEF Covered, OpenIds, RowIds, Stray
<1> QED BY <1>1, <1>2, Cards

LEMMA CardsUnion ==
  ASSUME NEW S \in SUBSET Ids, NEW T \in SUBSET Ids, NEW U \in SUBSET (S \cup T)
  PROVE  Cardinality(U) \in Nat /\ Cardinality(U) <= Cardinality(S) + Cardinality(T)
<1>1. IsFiniteSet(S) /\ IsFiniteSet(T) /\ Cardinality(S) \in Nat /\ Cardinality(T) \in Nat
  BY Cards
<1>2. /\ Cardinality(S \cup T) = Cardinality(S) + Cardinality(T) - Cardinality(S \cap T)
      /\ Cardinality(S \cap T) \in Nat
  BY <1>1, FS_Union, FS_Intersection, FS_CardinalityType
<1>3. S \cup T \in SUBSET Ids
  OBVIOUS
<1> QED BY <1>1, <1>2, <1>3, Cards

\* The stray rows after a step that is no failed upsert were stray before.
LEMMA StrayLess ==
  ASSUME BookTypes, [Next]_vars, misses' = misses
  PROVE  Stray(Queued)' \subseteq Stray(Queued)
<1>1. ~CommitFails
  <2>1. misses' # misses + 1
    BY DEF BookTypes
  <2> QED BY <2>1, Zenon DEF CommitFails, Miss
<1> QED BY <1>1, StrayNext DEF Stray

LEMMA CapOpen ==
  ASSUME BookInv, CapInv, RowsFollow, Open PROVE CapInv'
<1>1. /\ buy \in InHand /\ buy.step = "traded" /\ buy' = [buy EXCEPT !.step = "stored"]
      /\ size' = [size EXCEPT ![buy.id] = buy.n]
      /\ queue' = Append(queue, buy.id) /\ UNCHANGED <<rows, sell, misses>>
  BY DEF Open, BookInv, BookTypes, Idle, count
<1>2. buy'.step = "stored" /\ buy'.id = buy.id /\ buy.id \in Ids /\ buy.n > 0
  BY <1>1 DEF InHand, BookInv, Fresh
<1>3. size'[buy.id] = buy.n /\ \A i \in Ids : i # buy.id => size'[i] = size[i]
  BY <1>1, <1>2 DEF BookInv, BookTypes
<1>4. OpenIds' = OpenIds \cup {buy.id}
  BY <1>2, <1>3 DEF OpenIds
<1>5. Covered' \subseteq (OpenIds \cup {buy.id}) \cup Stray(Queued)
  <2>1. Stray(Queued)' \subseteq Stray(Queued)
    BY <1>1, StrayLess DEF BookInv, Next, EntryTask
  <2> QED BY <1>4, <2>1 DEF Covered
<1>6. Cardinality(Covered') <= Cap'
  <2>1. Cardinality(OpenIds) < MaxOpen
    BY <1>1 DEF CapInv
  <2>2. /\ Cardinality(OpenIds \cup {buy.id}) \in Nat
        /\ Cardinality(OpenIds \cup {buy.id}) <= Cardinality(OpenIds) + 1
    BY <1>2, CapTyped, CardsAdd
  <2>3. /\ OpenIds \cup {buy.id} \in SUBSET Ids /\ Stray(Queued) \in SUBSET Ids
        /\ Cardinality(Stray(Queued)) \in Nat /\ Cardinality(Stray(Queued)) <= misses
    <3>1. OpenIds \cup {buy.id} \in SUBSET Ids /\ Stray(Queued) \in SUBSET Ids
      BY <1>2 DEF OpenIds, Stray
    <3> QED BY <3>1, Cards DEF RowsFollow, Stray, Queued
  <2>4. /\ Cardinality(Covered') \in Nat
        /\ Cardinality(Covered') <= Cardinality(OpenIds \cup {buy.id})
                                      + Cardinality(Stray(Queued))
    BY <1>5, <2>3, CardsUnion
  <2>5. Cap' = MaxOpen + misses
    BY <1>1 DEF Cap
  <2> QED BY <2>1, <2>2, <2>3, <2>4, <2>5, CapTyped
<1>7. queue'[Len(queue')] = buy.id
  BY <1>1, <1>2 DEF BookInv, BookTypes
<1>8. sell'.step = "stored" /\ queue'[Len(queue')] = sell'.id
        => Cardinality((Covered \cup {sell.id})') <= Cap'
  <2> SUFFICES ASSUME sell'.id = buy.id
               PROVE  Cardinality((Covered \cup {sell.id})') <= Cap'
    BY <1>7
  <2>1. (Covered \cup {sell.id})' = Covered'
    BY <1>4 DEF Covered
  <2> QED BY <2>1, <1>6
<1>9. sell'.step = "traded" => size'[sell'.id] > 0
  <2> SUFFICES ASSUME sell.step = "traded" PROVE size'[sell.id] > 0
    BY <1>1
  <2>1. sell.id \in Ids /\ size[sell.id] > 0
    <3>1. sell \in InHand
      BY DEF BookInv, BookTypes, Idle
    <3> QED BY <3>1 DEF InHand, CapInv
  <2> QED BY <2>1, <1>2, <1>3
<1>10. Cardinality(RowIds') <= Cap'
  <2>1. RowIds' = RowIds /\ Cap' = Cap
    BY <1>1 DEF RowIds, Cap
  <2> QED BY <2>1 DEF CapInv
<1>11. size'[buy'.id] > 0
  BY <1>2, <1>3
<1> QED BY <1>2, <1>6, <1>8, <1>9, <1>10, <1>11 DEF CapInv

LEMMA CapClose ==
  ASSUME BookInv, CapInv, Close PROVE CapInv'
<1>1. /\ sell \in InHand /\ sell.step = "traded"
      /\ sell' = [sell EXCEPT !.step = "stored"]
      /\ size' = [size EXCEPT ![sell.id] = @ - sell.n]
      /\ queue' = Append(queue, sell.id) /\ UNCHANGED <<rows, buy, misses>>
  BY DEF Close, BookInv, BookTypes, Idle, count
<1>2. /\ sell'.step = "stored" /\ sell'.id = sell.id /\ sell.id \in Ids
      /\ sell.n \in Int /\ sell.n >= 0 /\ size[sell.id] > 0
  BY <1>1 DEF InHand, BookInv, Fresh, CapInv
<1>3. /\ size'[sell.id] = size[sell.id] - sell.n
      /\ \A i \in Ids : i # sell.id => size'[i] = size[i]
  BY <1>1, <1>2 DEF BookInv, BookTypes
<1>4. OpenIds' \subseteq OpenIds /\ sell.id \in OpenIds
  BY <1>2, <1>3 DEF OpenIds, BookInv, BookTypes
<1>5. Covered' \subseteq Covered /\ Covered' \cup {sell.id} \subseteq Covered
  <2>1. Stray(Queued)' \subseteq Stray(Queued)
    BY <1>1, StrayLess DEF BookInv, Next, ExitTask
  <2> QED BY <1>4, <2>1 DEF Covered
<1>6. /\ Cardinality(OpenIds') <= Cardinality(OpenIds) /\ Cardinality(OpenIds') \in Nat
      /\ Cardinality(Covered') <= Cardinality(Covered) /\ Cardinality(Covered') \in Nat
      /\ Cardinality(Covered' \cup {sell.id}) <= Cardinality(Covered)
      /\ Cardinality(Covered' \cup {sell.id}) \in Nat
  BY <1>4, <1>5, CapTyped, Cards
<1>7. buy.step = "stored" => queue'[2] = sell.id
  <2>1. buy.step = "stored" => Len(queue) = 1
    BY <1>1 DEF BookInv, Hands
  <2>2. queue \in Seq(Ids)
    BY DEF BookInv, BookTypes
  <2>3. queue' = Append(queue, sell.id)
    BY <1>1
  <2>4. queue'[Len(queue) + 1] = sell.id
    BY <1>2, <2>2, <2>3
  <2>5. Len(queue) = 1 => queue'[2] = sell.id
    <3> SUFFICES ASSUME Len(queue) = 1 PROVE queue'[2] = sell.id
      OBVIOUS
    <3>1. Len(queue) + 1 = 2
      OBVIOUS
    <3> QED BY <2>4, <3>1, Zenon
  <2> QED BY <2>1, <2>5, Zenon
<1>8. /\ Cap' = Cap /\ RowIds' = RowIds
      /\ (Covered \cup {sell.id})' = Covered' \cup {sell.id}
  BY <1>1, <1>2 DEF Cap, RowIds
<1>9. /\ Cardinality(Covered') <= Cap /\ Cardinality(Covered' \cup {sell.id}) <= Cap
      /\ (buy.step \in {"gated", "traded"} => Cardinality(OpenIds') < MaxOpen)
  BY <1>6, CapTyped DEF CapInv
<1>10. Cardinality(RowIds) <= Cap
  BY DEF CapInv
<1> QED BY <1>1, <1>2, <1>7, <1>8, <1>9, <1>10 DEF CapInv

\* An upsert is served, well or badly: where the last in the queue is of a closed
\* position, the bound counts that position already.
LEMMA CapServed ==
  ASSUME BookInv, BookInv', CapInv, queue # <<>>, Resume(Head(queue)), size' = size
  PROVE  /\ queue \in Seq(Ids) /\ queue' \in Seq(Ids) /\ Len(queue') = Len(queue) - 1
         /\ Len(queue') \in Nat /\ Len(queue) <= 2
         /\ \A j \in 1..Len(queue') : queue'[j] = queue[j + 1]
         /\ OpenIds' = OpenIds
         /\ buy'.step \in {"gated", "traded"} => Cardinality(OpenIds') < MaxOpen
         /\ sell'.step = "traded" => size'[sell'.id] > 0
         /\ sell'.step = "stored" /\ queue'[Len(queue')] = sell'.id
              => sell.id \in Ids /\ sell'.id = sell.id
                   /\ Cardinality(Covered \cup {sell.id}) <= Cap
         /\ ~(buy'.step = "stored" /\ sell'.step = "stored")
<1>1. queue # <<>> /\ queue' = Tail(queue) /\ size' = size
  BY DEF Resume
<1>2. \/ buy' = Idle /\ sell' = sell
      \/ buy' = buy /\ sell' = Idle
  BY DEF Resume
<1>3. OpenIds' = OpenIds
  BY <1>1 DEF OpenIds
<1>4. /\ queue \in Seq(Ids) /\ queue' \in Seq(Ids) /\ Len(queue') = Len(queue) - 1
      /\ Len(queue') \in Nat /\ Len(queue) <= 2
      /\ \A j \in 1..Len(queue') : queue'[j] = queue[j + 1]
  <2>1. queue \in Seq(Ids)
    BY DEF BookInv, BookTypes
  <2>2. Len(queue) <= 2
    BY DEF BookInv, Hands
  <2> QED BY <1>1, <2>1, <2>2
<1>5. buy'.step \in {"gated", "traded"} => Cardinality(OpenIds') < MaxOpen
  BY <1>2, <1>3 DEF CapInv, Idle
<1>6. sell'.step = "traded" => size'[sell'.id] > 0
  BY <1>1, <1>2 DEF CapInv, Idle
<1>7. sell'.step = "stored" /\ queue'[Len(queue')] = sell'.id
        => sell.id \in Ids /\ sell'.id = sell.id
             /\ Cardinality(Covered \cup {sell.id}) <= Cap
  <2> SUFFICES ASSUME sell'.step = "stored", queue'[Len(queue')] = sell'.id
               PROVE  sell.id \in Ids /\ sell'.id = sell.id
                        /\ Cardinality(Covered \cup {sell.id}) <= Cap
    OBVIOUS
  <2>1. sell' = sell /\ sell.step = "stored"
    BY <1>2 DEF Idle
  <2>2. Len(queue') # 0
    BY DEF BookInv, Hands
  <2>3. queue[Len(queue)] = sell.id
    BY <1>4, <2>1, <2>2
  <2>4. sell.step = "stored"
    BY <2>1
  <2>5. sell \in InHand
    BY <2>4 DEF BookInv, BookTypes, Idle
  <2> QED BY <2>1, <2>3, <2>5 DEF CapInv, InHand
<1>8. ~(buy'.step = "stored" /\ sell'.step = "stored")
  BY <1>2 DEF Idle
<1> QED BY <1>3, <1>4, <1>5, <1>6, <1>7, <1>8

LEMMA CapCommit ==
  ASSUME BookInv, CapInv, Commit, BookInv' PROVE CapInv'
<1>1. queue # <<>> /\ Resume(Head(queue)) /\ size' = size /\ misses' = misses
  BY DEF Commit, books, count
<1>2. /\ queue \in Seq(Ids) /\ queue' \in Seq(Ids) /\ Len(queue') = Len(queue) - 1
      /\ Len(queue') \in Nat /\ Len(queue) <= 2
      /\ \A j \in 1..Len(queue') : queue'[j] = queue[j + 1]
      /\ OpenIds' = OpenIds
  BY <1>1, CapServed
<1>3. Stray(Queued)' \subseteq Stray(Queued)
  BY <1>1, StrayLess DEF BookInv, Next, Store
<1>4. Cap' = Cap /\ Covered' \subseteq Covered
  BY <1>1, <1>2, <1>3 DEF Cap, Covered
<1>5. Cardinality(Covered') <= Cap
  BY <1>4, CapTyped, Cards DEF CapInv
<1>6. RowIds' \subseteq Covered \cup Queued'
  <2> SUFFICES ASSUME NEW i \in Ids, rows'[i] > 0, i \notin Queued', i \notin OpenIds
               PROVE  i \in Stray(Queued)
    BY DEF RowIds, Covered
  <2>1. rows'[i] # size'[i]
    <3>1. size[i] \in Int /\ rows'[i] \in Int /\ ~(size[i] > 0)
      BY DEF BookInv, BookTypes, OpenIds
    <3> QED BY <1>1, <3>1
  <2>2. i \in Stray(Queued)'
    BY <2>1 DEF Stray
  <2> QED BY <2>2, <1>3
<1>7. Cardinality(RowIds') <= Cap
  <2>1. CASE Len(queue') = 0
    <3>1. Queued' = {}
      BY <1>2, <2>1 DEF Queued
    <3>2. RowIds' \subseteq Covered
      BY <1>6, <3>1
    <3> QED BY <3>2, CapTyped, Cards DEF CapInv
  <2>2. CASE Len(queue') # 0
    <3>1. Len(queue) = 2 /\ Len(queue') = 1 /\ queue'[1] = queue[2]
      BY <1>2, <2>2
    <3>2. buy.step = "stored" /\ sell.step = "stored"
      BY <3>1 DEF BookInv, Hands
    <3>3. queue[2] \in {buy.id, sell.id}
      <4>1. queue[2] \in Queued
        BY <1>2, <3>1 DEF Queued
      <4> QED BY <4>1 DEF BookInv, Hands
    <3>4. Queued' = {queue[2]}
      <4>1. DOMAIN queue' = {1}
        BY <1>2, <3>1
      <4> QED BY <3>1, <4>1 DEF Queued
    <3>a. buy.id \in Ids /\ sell.id \in Ids
      <4>1. buy \in InHand /\ sell \in InHand
        BY <3>2 DEF BookInv, BookTypes, Idle
      <4> QED BY <4>1 DEF InHand
    <3>5. CASE queue[2] = sell.id
      <4>1. Cardinality(Covered \cup {sell.id}) <= Cap
        BY <3>1, <3>2, <3>5 DEF CapInv
      <4>2. RowIds' \subseteq Covered \cup {sell.id}
        BY <1>6, <3>4, <3>5
      <4>3. Covered \cup {sell.id} \in SUBSET Ids
        BY <3>a, CapTyped
      <4>4. /\ Cardinality(RowIds') \in Nat /\ Cardinality(Covered \cup {sell.id}) \in Nat
            /\ Cardinality(RowIds') <= Cardinality(Covered \cup {sell.id})
        BY <4>2, <4>3, Cards
      <4> QED BY <4>1, <4>4, CapTyped
    <3>6. CASE queue[2] = buy.id /\ buy.id # sell.id
      <4>1. size[buy.id] > 0
        BY <3>2, <3>6 DEF CapInv
      <4>2. RowIds' \subseteq Covered
        BY <1>6, <3>a, <3>4, <3>6, <4>1 DEF Covered, OpenIds
      <4> QED BY <4>2, CapTyped, Cards DEF CapInv
    <3> QED BY <3>3, <3>5, <3>6
  <2> QED BY <2>1, <2>2
<1>8. sell'.step = "stored" /\ queue'[Len(queue')] = sell'.id
        => Cardinality((Covered \cup {sell.id})') <= Cap
  <2> SUFFICES ASSUME sell.id \in Ids, sell'.id = sell.id,
                      Cardinality(Covered \cup {sell.id}) <= Cap
               PROVE  Cardinality((Covered \cup {sell.id})') <= Cap
    BY <1>1, CapServed
  <2>1. /\ (Covered \cup {sell.id})' \subseteq Covered \cup {sell.id}
        /\ Covered \cup {sell.id} \in SUBSET Ids
    BY <1>4, CapTyped
  <2> QED BY <2>1, CapTyped, Cards
<1> QED BY <1>1, <1>4, <1>5, <1>7, <1>8, CapServed DEF CapInv

\* A failed upsert strands one row at most, and is counted.
LEMMA CapFails ==
  ASSUME BookInv, CapInv, CommitFails, BookInv' PROVE CapInv'
<1>1. queue # <<>> /\ Resume(Head(queue)) /\ size' = size /\ rows' = rows
      /\ misses' = misses + 1
  BY Zenon DEF CommitFails, books, Miss
<1>2. OpenIds' = OpenIds /\ RowIds' = RowIds
  BY <1>1 DEF OpenIds, RowIds
<1>3. Cap' = Cap + 1
  BY <1>1, CapTyped DEF Cap
<1>4. Head(queue) \in Ids
  BY <1>1, TailQueues DEF BookInv, BookTypes, Resume
<1>5. Stray(Queued)' \subseteq Stray(Queued) \cup {Head(queue)}
  BY StrayNext DEF BookInv, Next, Store, Stray
<1>6. Covered' \subseteq Covered \cup {Head(queue)}
  BY <1>2, <1>5 DEF Covered
<1>7. Cardinality(Covered') <= Cap'
  <2>1. Cardinality(Covered') \in Nat /\ Cardinality(Covered') <= Cardinality(Covered) + 1
    BY <1>4, <1>6, CapTyped, CardsAdd
  <2> QED BY <2>1, <1>3, CapTyped DEF CapInv
<1>8. Cardinality(RowIds') <= Cap'
  BY <1>2, <1>3, CapTyped DEF CapInv
<1>9. sell'.step = "stored" /\ queue'[Len(queue')] = sell'.id
        => Cardinality((Covered \cup {sell.id})') <= Cap'
  <2> SUFFICES ASSUME sell.id \in Ids, sell'.id = sell.id,
                      Cardinality(Covered \cup {sell.id}) <= Cap
               PROVE  Cardinality((Covered \cup {sell.id})') <= Cap'
    BY <1>1, CapServed
  <2>1. /\ (Covered \cup {sell.id})' \subseteq (Covered \cup {sell.id}) \cup {Head(queue)}
        /\ Covered \cup {sell.id} \in SUBSET Ids
    BY <1>6, CapTyped
  <2>2. /\ Cardinality((Covered \cup {sell.id})') \in Nat
        /\ Cardinality((Covered \cup {sell.id})') <= Cardinality(Covered \cup {sell.id}) + 1
        /\ Cardinality(Covered \cup {sell.id}) \in Nat
    BY <1>4, <2>1, CardsAdd, Cards
  <2> QED BY <2>2, <1>3, CapTyped
<1> QED BY <1>1, <1>7, <1>8, <1>9, CapServed DEF CapInv

\* The configuration is not written again.
LEMMA BlindNext == ASSUME [Next]_vars PROVE blind' = blind
<1>1. CASE EntryTask \/ ExitTask
  BY <1>1, Zenon DEF EntryTask, PassGate, Buy, Open, ExitTask, Close, Sell, Mark, world
<1>2. CASE Store \/ Tick \/ Restart \/ Crash \/ UNCHANGED vars
  BY <1>2, Zenon DEF Store, Commit, CommitFails, OrdersFail, Tick, NewWeek, Roll, SaveAnchor,
     Restart, Crash, Hydrate, vars, world
<1> QED BY <1>1, <1>2, Zenon DEF Next

\* Blind copies pass no gate.
Capped == blind \/ CapInv

LEMMA MoreMisses ==
  ASSUME NEW a \in Nat, NEW b \in Nat, NEW c \in Nat, b >= a
  PROVE  c + b >= c + a /\ c + b \in Nat
OBVIOUS

LEMMA CapNext ==
  ASSUME BookInv, BookInv', CapInv, RowsFollow, [Next]_vars, ~blind PROVE CapInv'
<1>m. misses \in Nat /\ MaxOpen \in Nat
  BY CapTyped
<1>a. ASSUME UNCHANGED <<size, rows, queue>>, misses' \in Nat, misses' >= misses,
             buy' = buy \/ buy'.step = "idle"
               \/ (buy.step = "gated" /\ buy'.step = "traded"),
             sell' = sell \/ sell'.step = "idle"
      PROVE  CapInv'
  <2>1. OpenIds' = OpenIds /\ RowIds' = RowIds /\ Covered' = Covered
    BY <1>a DEF OpenIds, RowIds, Covered, Stray, Queued
  <2>0. misses' \in Nat /\ misses' >= misses
    BY <1>a
  <2>a. MaxOpen + misses' >= MaxOpen + misses /\ MaxOpen + misses' \in Nat
    BY <2>0, <1>m, MoreMisses
  <2>2. Cap' >= Cap /\ Cap' \in Nat
    BY <2>a, Zenon DEF Cap
  <2>3. Cardinality(Covered) <= Cap' /\ Cardinality(RowIds) <= Cap'
    BY <2>2, CapTyped DEF CapInv
  <2>4. sell'.step = "stored" /\ queue'[Len(queue')] = sell'.id
          => Cardinality((Covered \cup {sell.id})') <= Cap'
    <3> SUFFICES ASSUME sell'.step = "stored", queue'[Len(queue')] = sell'.id
                 PROVE  Cardinality((Covered \cup {sell.id})') <= Cap'
      OBVIOUS
    <3>1. sell' = sell
      BY <1>a
    <3>0. sell.step = "stored"
      BY <3>1
    <3>2. sell \in InHand
      BY <3>0 DEF BookInv, BookTypes, Idle
    <3>3. (Covered \cup {sell.id})' = Covered \cup {sell.id} /\ sell.id \in Ids
      BY <2>1, <3>1, <3>2 DEF InHand
    <3>4. Cardinality(Covered \cup {sell.id}) <= Cap
      BY <1>a, <3>0, <3>1 DEF CapInv
    <3>5. Cardinality(Covered \cup {sell.id}) \in Nat
      BY <3>3, CapTyped, CardsAdd
    <3>6. Cap \in Nat
      BY CapTyped
    <3>7. Cardinality(Covered \cup {sell.id}) <= Cap'
      BY <2>2, <3>4, <3>5, <3>6
    <3> QED BY <3>3, <3>7
  <2> QED BY <1>a, <2>1, <2>3, <2>4 DEF CapInv
<1>1. CASE PassGate
  <2>1. /\ buy'.step = "gated" /\ UNCHANGED <<size, rows, queue, sell, misses>>
        /\ Cardinality(OpenIds) < MaxOpen
    <3>1. buy'.step = "gated"
      BY <1>1 DEF PassGate
    <3>2. UNCHANGED <<size, rows, queue, sell, misses>>
      BY <1>1, Zenon DEF PassGate, books, count
    <3>3. Cardinality(OpenIds) < MaxOpen
      BY <1>1, Zenon DEF PassGate
    <3> QED BY <3>1, <3>2, <3>3
  <2>2. OpenIds' = OpenIds /\ RowIds' = RowIds /\ Covered' = Covered /\ Cap' = Cap
    BY <2>1 DEF OpenIds, RowIds, Covered, Stray, Queued, Cap
  <2> QED BY <2>1, <2>2 DEF CapInv
<1>2. CASE Buy
  <2>1. buy.step = "gated" /\ UNCHANGED <<size, rows, queue, sell, misses>>
    BY <1>2, Zenon DEF Buy, books, count
  <2>2. \/ buy' = Idle
        \/ \E n \in 1..MaxLot, p \in Asks :
             buy' = [buy EXCEPT !.step = "traded", !.n = n, !.price = p]
    BY <1>2, Zenon DEF Buy
  <2>3. buy \in InHand
    BY <2>1 DEF BookInv, BookTypes, Idle
  <2>4. ASSUME NEW n \in 1..MaxLot, NEW p \in Asks,
               buy' = [buy EXCEPT !.step = "traded", !.n = n, !.price = p]
        PROVE  buy'.step = "traded"
    BY <2>3, <2>4 DEF InHand, Steps
  <2>5. buy' = Idle => buy'.step = "idle"
    BY DEF Idle
  <2>6. buy'.step = "idle" \/ buy'.step = "traded"
    BY <2>2, <2>4, <2>5, Zenon
  <2> QED BY <2>1, <2>6, <1>a, <1>m
<1>3. CASE Open
  BY <1>3, CapOpen
<1>4. CASE \E i \in Ids : Sell(i)
  <2>1. PICK i \in Ids : Sell(i)
    BY <1>4
  <2>2. /\ sell'.step = "traded" /\ sell'.id = i
        /\ UNCHANGED <<size, rows, queue, buy, misses>> /\ size[i] > 0
    BY <2>1 DEF Sell, OpenIds, books, count
  <2>3. OpenIds' = OpenIds /\ RowIds' = RowIds /\ Covered' = Covered /\ Cap' = Cap
    BY <2>2 DEF OpenIds, RowIds, Covered, Stray, Queued, Cap
  <2> QED BY <2>2, <2>3 DEF CapInv
<1>5. CASE Close
  BY <1>5, CapClose
<1>6. CASE Commit
  BY <1>6, CapCommit
<1>7. CASE CommitFails
  BY <1>7, CapFails
<1>8. CASE OrdersFail
  <2>1. /\ UNCHANGED <<size, rows, queue>> /\ misses' = misses + 1
        /\ \/ buy' = Idle /\ sell' = sell
           \/ sell' = Idle /\ buy' = buy
    BY <1>8, Zenon DEF OrdersFail, Miss, books
  <2> QED BY <2>1, <1>a, <1>m DEF Idle
<1>9. CASE Restart \/ Crash
  <2>1. /\ size' = rows /\ rows' = rows /\ buy'.step = "idle" /\ sell'.step = "idle"
        /\ misses' = misses
    BY <1>9 DEF Restart, Crash, Hydrate, Idle
  <2>2. OpenIds' = RowIds /\ RowIds' = RowIds /\ Covered' = RowIds /\ Cap' = Cap
    BY <2>1 DEF OpenIds, RowIds, Covered, Stray, Cap
  <2> QED BY <2>1, <2>2 DEF CapInv
<1>10. CASE Tick \/ UNCHANGED vars \/ (\E i \in Ids : \E p \in Marks : Mark(i, p))
  <2>1. UNCHANGED <<size, rows, queue, buy, sell, misses>>
    BY <1>10 DEF Tick, NewWeek, Roll, SaveAnchor, Mark, vars, books, count
  <2> QED BY <2>1, <1>a, <1>m
<1> QED
  BY <1>1, <1>2, <1>3, <1>4, <1>5, <1>6, <1>7, <1>8, <1>9, <1>10
  DEF Next, EntryTask, ExitTask, Store

\* Neither memory nor the store ever holds more open positions than the cap and one
\* for each failed call, however entries, partial exits, crashes and failures overlap;
\* blind copies are out of it.
THEOREM CapHolds == Spec => []OpenCapHolds
<1>1. Init => Capped
  <2> SUFFICES ASSUME Init PROVE CapInv
    BY Zenon DEF Capped
  <2>1. OpenIds = {} /\ RowIds = {} /\ Covered = {}
    BY DEF Init, OpenIds, RowIds, Covered, Stray, Zero
  <2>2. Cardinality({}) = 0
    BY FS_EmptySet
  <2> QED BY <2>1, <2>2, PortfolioAssumption DEF Init, CapInv, Cap, Idle
<1>2. BookInv /\ BookInv' /\ Capped /\ RowsFollow /\ [Next]_vars => Capped'
  <2> SUFFICES ASSUME BookInv, BookInv', Capped, RowsFollow, [Next]_vars, ~blind
               PROVE  CapInv'
    BY BlindNext, Zenon DEF Capped
  <2>1. CapInv
    BY Zenon DEF Capped
  <2> QED BY <2>1, CapNext
<1>3. BookInv /\ Capped => OpenCapHolds
  <2> SUFFICES ASSUME BookInv, CapInv
               PROVE  /\ Cardinality(OpenIds) <= MaxOpen + misses
                      /\ Cardinality({i \in Ids : rows[i] > 0}) <= MaxOpen + misses
    BY Zenon DEF Capped, OpenCapHolds
  <2>1. OpenIds \subseteq Covered
    BY DEF Covered
  <2>2. Cardinality(OpenIds) <= Cardinality(Covered)
    BY <2>1, CapTyped, Cards
  <2>3. Cardinality(OpenIds) <= Cap /\ Cardinality(RowIds) <= Cap
    BY <2>2, CapTyped DEF CapInv
  <2> QED BY <2>3 DEF RowIds, Cap
<1> QED BY <1>1, <1>2, <1>3, BookHolds, RowsHold, PTL DEF Spec

----------------------------------------------------------------------------
(* What a fault tears apart.                                               *)

\* What differs from the exchange now, or would after a restart.
Bad == {i \in Ids : \/ shares[i] # size[i] + Pending(buy, i) - Pending(sell, i)
                    \/ i \notin Queued /\ rows[i] # size[i]}

LEMMA Sound ==
  \A i \in Ids : i \notin Bad <=>
    /\ shares[i] = size[i] + Pending(buy, i) - Pending(sell, i)
    /\ i \notin Queued => rows[i] = size[i]
BY Zenon DEF Bad

TearInv == Cardinality(Bad) <= 2 * crashes + misses

LEMMA TearLess ==
  ASSUME BookTypes, TearInv, UNCHANGED <<crashes, misses>>, Bad' \subseteq Bad
  PROVE  TearInv'
<1>1. Bad \in SUBSET Ids /\ Bad' \in SUBSET Bad
  BY DEF Bad
<1>2. /\ Cardinality(Bad') \in Nat /\ Cardinality(Bad) \in Nat
      /\ Cardinality(Bad') <= Cardinality(Bad)
  BY <1>1, Cards
<1> QED BY <1>2 DEF TearInv, BookTypes

LEMMA TearOne ==
  ASSUME BookTypes, TearInv, crashes' = crashes, misses' = misses + 1,
         NEW x \in Ids, Bad' \subseteq Bad \cup {x}
  PROVE  TearInv'
<1>1. Bad \in SUBSET Ids /\ Bad' \in SUBSET (Bad \cup {x})
  BY DEF Bad
<1>2. Cardinality(Bad') \in Nat /\ Cardinality(Bad') <= Cardinality(Bad) + 1
  BY <1>1, CardsAdd
<1>3. Cardinality(Bad) \in Nat
  BY <1>1, Cards
<1> QED BY <1>2, <1>3 DEF TearInv, BookTypes

\* The position a task has in hand.
Hand(t) == IF t = Idle THEN {} ELSE {t.id}

LEMMA HandGrows ==
  ASSUME NEW S \in SUBSET Ids, NEW t \in InHand \cup {Idle},
         NEW T \in SUBSET (S \cup Hand(t))
  PROVE  /\ S \cup Hand(t) \in SUBSET Ids /\ Cardinality(S) \in Nat
         /\ Cardinality(T) \in Nat /\ Cardinality(T) <= Cardinality(S) + 1
<1>1. Cardinality(S) \in Nat
  BY Cards
<1>2. CASE t = Idle
  BY <1>1, <1>2, Cards DEF Hand
<1>3. CASE t # Idle
  <2>1. t.id \in Ids /\ Hand(t) = {t.id}
    BY <1>3 DEF InHand, Hand
  <2>2. T \in SUBSET (S \cup {t.id})
    BY <2>1
  <2> QED BY <1>1, <2>1, <2>2, CardsAdd
<1> QED BY <1>2, <1>3

\* A position in no task's hands is in no task's pending trade either.
LEMMA NotInHand ==
  ASSUME NEW t \in InHand \cup {Idle}, NEW i \in Ids, i \notin Hand(t)
  PROVE  Pending(t, i) = 0 /\ (t.step = "stored" => t.id # i)
BY DEF Hand, Pending, Idle

LEMMA TearHydrate ==
  ASSUME BookInv, Hydrate
  PROVE  Bad' \subseteq Bad \cup Hand(buy) \cup Hand(sell)
<1>1. size' = rows /\ rows' = rows /\ shares' = shares /\ buy' = Idle /\ sell' = Idle
  BY DEF Hydrate, world
<1> SUFFICES ASSUME NEW i \in Ids, i \notin Bad, i \notin Hand(buy), i \notin Hand(sell)
             PROVE  i \notin Bad'
  BY DEF Bad
<1>2. /\ Pending(buy, i) = 0 /\ Pending(sell, i) = 0
      /\ buy.step = "stored" => buy.id # i
      /\ sell.step = "stored" => sell.id # i
  BY NotInHand DEF BookInv, BookTypes
<1>3. i \notin Queued
  BY <1>2 DEF BookInv, Hands
<1>4. shares[i] = size[i] /\ rows[i] = size[i]
  <2>1. /\ shares[i] = size[i] + Pending(buy, i) - Pending(sell, i)
        /\ rows[i] = size[i]
    BY <1>3, Sound, Zenon
  <2> QED BY <1>2, <2>1 DEF BookInv, BookTypes
<1>5. Pending(Idle, i) = 0
  BY DEF Pending, Idle
<1> QED BY <1>1, <1>4, <1>5 DEF Bad, BookInv, BookTypes

LEMMA TearCrash ==
  ASSUME BookInv, TearInv, Crash PROVE TearInv'
<1>1. /\ Hydrate /\ crashes' = crashes + 1 /\ misses' = misses
      /\ buy \in InHand \cup {Idle} /\ sell \in InHand \cup {Idle}
      /\ crashes \in Nat /\ misses \in Nat
  BY DEF Crash, Hydrate, BookInv, BookTypes
<1>2. Bad \in SUBSET Ids /\ Bad' \in SUBSET ((Bad \cup Hand(buy)) \cup Hand(sell))
  BY <1>1, TearHydrate DEF Bad
<1>3. /\ Cardinality(Bad) \in Nat /\ Bad \cup Hand(buy) \in SUBSET Ids
      /\ Cardinality(Bad \cup Hand(buy)) <= Cardinality(Bad) + 1
  BY <1>1, <1>2, HandGrows
<1>4. /\ Cardinality(Bad \cup Hand(buy)) \in Nat /\ Cardinality(Bad') \in Nat
      /\ Cardinality(Bad') <= Cardinality(Bad \cup Hand(buy)) + 1
  BY <1>1, <1>2, <1>3, HandGrows
<1>5. Cardinality(Bad) <= 2 * crashes + misses
  BY DEF TearInv
<1>6. Cardinality(Bad') <= 2 * (crashes + 1) + misses
  BY <1>1, <1>3, <1>4, <1>5
<1> QED BY <1>1, <1>6 DEF TearInv

LEMMA TearServed ==
  ASSUME BookInv, queue # <<>>, Resume(Head(queue)), UNCHANGED <<size, shares>>,
         \A i \in Ids : i # Head(queue) => rows'[i] = rows[i]
  PROVE  /\ Head(queue) \in Ids
         /\ Bad' \subseteq Bad \cup {Head(queue)}
         /\ rows'[Head(queue)] = size[Head(queue)] => Bad' \subseteq Bad
<1>1. Head(queue) \in Ids /\ Queued \subseteq Queued' \cup {Head(queue)}
  BY TailQueues DEF Resume, BookInv, BookTypes
<1>2. \A i \in Ids : Pending(buy', i) = Pending(buy, i) /\ Pending(sell', i) = Pending(sell, i)
  <2>1. Head(queue) \in Queued
    <3>1. Head(queue) = queue[1] /\ 1 \in DOMAIN queue
      BY DEF BookInv, BookTypes
    <3> QED BY <3>1 DEF Queued
  <2>2. \/ buy' = Idle /\ sell' = sell /\ buy.step = "stored"
        \/ buy' = buy /\ sell' = Idle /\ sell.step = "stored"
    BY <2>1 DEF Resume, BookInv, Hands
  <2> QED BY <2>2 DEF Pending, Idle
<1>3. ASSUME NEW i \in Ids, i \notin Bad, i # Head(queue)
      PROVE  i \notin Bad'
  <2>1. shares[i] = size[i] + Pending(buy, i) - Pending(sell, i)
        /\ (i \in Queued \/ rows[i] = size[i])
    BY <1>3, Sound, Zenon
  <2>2. i \in Queued => i \in Queued'
    BY <1>1, <1>3
  <2> QED BY <1>2, <1>3, <2>1, <2>2 DEF Bad
<1>4. Bad' \subseteq Bad \cup {Head(queue)}
  BY <1>3 DEF Bad
<1>5. ASSUME rows'[Head(queue)] = size[Head(queue)], Head(queue) \notin Bad
      PROVE  Head(queue) \notin Bad'
  <2>1. shares[Head(queue)] = size[Head(queue)] + Pending(buy, Head(queue))
                                - Pending(sell, Head(queue))
    BY <1>1, <1>5, Sound, Zenon
  <2>2. /\ shares'[Head(queue)] = size'[Head(queue)] + Pending(buy', Head(queue))
                                     - Pending(sell', Head(queue))
        /\ rows'[Head(queue)] = size'[Head(queue)]
    BY <1>1, <1>2, <1>5, <2>1
  <2> DEFINE h == Head(queue)
  <2>3. shares'[h] = size'[h] + Pending(buy', h) - Pending(sell', h) /\ rows'[h] = size'[h]
    BY <2>2
  <2> HIDE DEF h
  <2>4. h \notin Bad'
    BY <2>3 DEF Bad
  <2> QED BY <2>4 DEF h
<1> QED BY <1>1, <1>4, <1>5

\* What an execution changes at the exchange it has pending.
LEMMA TearTrade ==
  ASSUME BookInv, Buy \/ (\E i \in Ids : Sell(i))
  PROVE  Bad' \subseteq Bad
<1>0. UNCHANGED <<size, rows, queue>> /\ Queued' = Queued
  BY Zenon DEF Buy, Sell, books, Queued
<1> SUFFICES ASSUME NEW k \in Ids, k \notin Bad
             PROVE  shares'[k] = size[k] + Pending(buy', k) - Pending(sell', k)
  BY <1>0, Sound DEF Bad
<1>1. shares[k] = size[k] + Pending(buy, k) - Pending(sell, k)
  BY Sound, Zenon
<1>2. shares \in [Ids -> Int] /\ size \in [Ids -> Int]
  BY DEF BookInv, BookTypes
<1>3. CASE Buy
  <2>1. /\ buy.step = "gated" /\ sell' = sell
        /\ \/ buy' = Idle /\ shares' = shares
           \/ \E n \in 1..MaxLot, p \in Asks :
                /\ buy' = [buy EXCEPT !.step = "traded", !.n = n, !.price = p]
                /\ shares' = [shares EXCEPT ![buy.id] = @ + n]
    BY <1>3, Zenon DEF Buy, world
  <2>2. buy.step = "gated"
    BY <2>1
  <2>3. buy \in InHand /\ Pending(buy, k) = 0
    BY <2>2 DEF BookInv, BookTypes, Idle, Pending
  <2>4. Pending(Idle, k) = 0
    BY DEF Pending, Idle
  <2>5. ASSUME NEW n \in 1..MaxLot, NEW p \in Asks,
               buy' = [buy EXCEPT !.step = "traded", !.n = n, !.price = p],
               shares' = [shares EXCEPT ![buy.id] = @ + n]
        PROVE  shares'[k] = size[k] + Pending(buy', k) - Pending(sell, k)
    <3>1. n \in Int
      BY PortfolioAssumption
    <3>2. buy'.step = "traded" /\ buy'.id = buy.id /\ buy'.n = n
      BY <2>3, <2>5 DEF InHand, Steps
    <3>3. Pending(buy', k) = IF buy.id = k THEN n ELSE 0
      BY <3>2 DEF Pending
    <3>4. shares'[k] = shares[k] + (IF buy.id = k THEN n ELSE 0)
      BY <1>2, <2>5, <3>1
    <3>5. Pending(sell, k) \in Int
      BY DEF Pending, BookInv, BookTypes, InHand, Idle
    <3> QED BY <1>1, <1>2, <2>3, <3>1, <3>3, <3>4, <3>5
  <2>6. buy' = Idle /\ shares' = shares
          => shares'[k] = size[k] + Pending(buy', k) - Pending(sell, k)
    BY <1>1, <2>3, <2>4
  <2> QED BY <2>1, <2>5, <2>6, Zenon
<1>4. CASE \E i \in Ids : Sell(i)
  <2>1. PICK i \in Ids : Sell(i)
    BY <1>4
  <2>2. PICK n \in 1..size[i], p \in Bids :
          /\ sell' = [step |-> "traded", id |-> i, n |-> n, price |-> p]
          /\ shares' = [shares EXCEPT ![i] = @ - n]
    BY <2>1 DEF Sell
  <2>3. n \in Int
    BY <1>2
  <2>4. Pending(sell', k) = IF i = k THEN n ELSE 0
    BY <2>2 DEF Pending
  <2>5. Pending(sell, k) = 0 /\ buy' = buy
    BY <2>1 DEF Sell, Pending, Idle
  <2>6. shares'[k] = shares[k] - (IF i = k THEN n ELSE 0)
    BY <1>2, <2>2, <2>3
  <2>7. Pending(buy, k) \in Int
    BY DEF Pending, BookInv, BookTypes, InHand, Idle
  <2> QED BY <1>1, <1>2, <2>3, <2>4, <2>5, <2>6, <2>7
<1> QED BY <1>3, <1>4

\* What the books take in was pending; the row waits its turn.
LEMMA TearBook ==
  ASSUME BookInv, Open \/ Close PROVE Bad' \subseteq Bad
<1>1. CASE Open
  <2>1. /\ buy \in InHand /\ buy.step = "traded" /\ buy' = [buy EXCEPT !.step = "stored"]
        /\ size' = [size EXCEPT ![buy.id] = buy.n]
        /\ queue' = Append(queue, buy.id) /\ UNCHANGED <<rows, sell, shares>>
    BY <1>1 DEF Open, BookInv, BookTypes, Idle, world
  <2>2. buy'.step = "stored" /\ buy.id \in Ids /\ buy.n \in Int /\ size[buy.id] = 0
    BY <2>1 DEF InHand, BookInv, Fresh
  <2>3. Queued' = Queued \cup {buy.id}
    BY <2>1, <2>2, AppendQueues DEF BookInv, BookTypes
  <2>4. ASSUME NEW k \in Ids, k \notin Bad PROVE k \notin Bad'
    <3>1. /\ shares[k] = size[k] + Pending(buy, k) - Pending(sell, k)
          /\ k \notin Queued => rows[k] = size[k]
      BY <2>4, Sound, Zenon
    <3>2. /\ Pending(buy, k) = IF buy.id = k THEN buy.n ELSE 0
          /\ Pending(buy', k) = 0 /\ Pending(sell', k) = Pending(sell, k)
          /\ Pending(sell, k) \in Int
      BY <2>1, <2>2 DEF Pending, BookInv, BookTypes, InHand, Idle
    <3>3. size'[k] = IF k = buy.id THEN buy.n ELSE size[k]
      BY <2>1, <2>2 DEF BookInv, BookTypes
    <3>4. size[k] \in Int
      BY DEF BookInv, BookTypes
    <3>5. shares'[k] = size'[k] + Pending(buy', k) - Pending(sell', k)
      BY <2>1, <2>2, <3>1, <3>2, <3>3, <3>4
    <3>6. k \notin Queued' => rows'[k] = size'[k]
      BY <2>1, <2>3, <3>1, <3>3
    <3> QED BY <3>5, <3>6, Zenon DEF Bad
  <2> QED BY <2>4 DEF Bad
<1>2. CASE Close
  <2>1. /\ sell \in InHand /\ sell.step = "traded"
        /\ sell' = [sell EXCEPT !.step = "stored"]
        /\ size' = [size EXCEPT ![sell.id] = @ - sell.n]
        /\ queue' = Append(queue, sell.id) /\ UNCHANGED <<rows, buy, shares>>
    BY <1>2 DEF Close, BookInv, BookTypes, Idle, world
  <2>2. sell'.step = "stored" /\ sell.id \in Ids /\ sell.n \in Int
    BY <2>1 DEF InHand
  <2>3. Queued' = Queued \cup {sell.id}
    BY <2>1, <2>2, AppendQueues DEF BookInv, BookTypes
  <2>4. ASSUME NEW k \in Ids, k \notin Bad PROVE k \notin Bad'
    <3>1. /\ shares[k] = size[k] + Pending(buy, k) - Pending(sell, k)
          /\ k \notin Queued => rows[k] = size[k]
      BY <2>4, Sound, Zenon
    <3>2. /\ Pending(sell, k) = IF sell.id = k THEN sell.n ELSE 0
          /\ Pending(sell', k) = 0 /\ Pending(buy', k) = Pending(buy, k)
          /\ Pending(buy, k) \in Int
      BY <2>1, <2>2 DEF Pending, BookInv, BookTypes, InHand, Idle
    <3>3. size'[k] = IF k = sell.id THEN size[k] - sell.n ELSE size[k]
      BY <2>1, <2>2 DEF BookInv, BookTypes
    <3>4. size[k] \in Int
      BY DEF BookInv, BookTypes
    <3>5. shares'[k] = size'[k] + Pending(buy', k) - Pending(sell', k)
      BY <2>1, <2>2, <3>1, <3>2, <3>3, <3>4
    <3>6. k \notin Queued' => rows'[k] = size'[k]
      BY <2>1, <2>3, <3>1, <3>3
    <3> QED BY <3>5, <3>6, Zenon DEF Bad
  <2> QED BY <2>4 DEF Bad
<1> QED BY <1>1, <1>2

LEMMA TearDropped ==
  ASSUME BookInv, TearInv, OrdersFail PROVE TearInv'
<1>1. /\ misses' = misses + 1 /\ crashes' = crashes
      /\ UNCHANGED <<size, rows, queue, shares>> /\ Queued' = Queued
      /\ \/ buy.step = "traded" /\ buy' = Idle /\ sell' = sell
         \/ sell.step = "traded" /\ sell' = Idle /\ buy' = buy
  BY Zenon DEF OrdersFail, Miss, books, world, Queued
<1>2. ASSUME NEW x \in Ids,
             \A k \in Ids : k # x => /\ Pending(buy', k) = Pending(buy, k)
                                     /\ Pending(sell', k) = Pending(sell, k)
      PROVE  TearInv'
  <2>1. ASSUME NEW k \in Ids, k \notin Bad, k # x PROVE k \notin Bad'
    <3>1. /\ shares[k] = size[k] + Pending(buy, k) - Pending(sell, k)
          /\ k \notin Queued => rows[k] = size[k]
      BY <2>1, Sound, Zenon
    <3>2. /\ shares'[k] = size'[k] + Pending(buy', k) - Pending(sell', k)
          /\ k \notin Queued' => rows'[k] = size'[k]
      BY <1>1, <1>2, <2>1, <3>1
    <3> QED BY <3>2, Zenon DEF Bad
  <2>2. Bad' \subseteq Bad \cup {x}
    BY <2>1 DEF Bad
  <2> QED BY <1>1, <2>2, TearOne DEF BookInv
<1>3. CASE buy.step = "traded" /\ buy' = Idle /\ sell' = sell
  <2>1. buy \in InHand
    BY <1>3 DEF BookInv, BookTypes, Idle
  <2> QED BY <1>2, <1>3, <2>1 DEF InHand, Pending, Idle
<1>4. CASE sell.step = "traded" /\ sell' = Idle /\ buy' = buy
  <2>1. sell \in InHand
    BY <1>4 DEF BookInv, BookTypes, Idle
  <2> QED BY <1>2, <1>4, <2>1 DEF InHand, Pending, Idle
<1> QED BY <1>1, <1>3, <1>4

LEMMA TearNext == BookInv /\ TearInv /\ [Next]_vars => TearInv'
<1> SUFFICES ASSUME BookInv, TearInv, [Next]_vars PROVE TearInv'
  OBVIOUS
<1>a. ASSUME UNCHANGED <<crashes, misses>>, Bad' \subseteq Bad PROVE TearInv'
  BY <1>a, TearLess DEF BookInv
<1>1. CASE Buy \/ \E i \in Ids : Sell(i)
  <2>1. UNCHANGED <<crashes, misses>>
    BY <1>1, Zenon DEF Buy, Sell, count
  <2> QED BY <1>1, <2>1, <1>a, TearTrade
<1>2. CASE Open \/ Close
  <2>1. UNCHANGED <<crashes, misses>>
    BY <1>2, Zenon DEF Open, Close, count
  <2> QED BY <1>2, <2>1, <1>a, TearBook
<1>3. CASE Commit
  <2>1. /\ queue # <<>> /\ Resume(Head(queue)) /\ UNCHANGED <<size, shares, crashes, misses>>
        /\ rows' = [rows EXCEPT ![Head(queue)] = size[Head(queue)]]
    BY <1>3, Zenon DEF Commit, books, world, count
  <2>2. Head(queue) \in Ids
    BY <2>1, TailQueues DEF Resume, BookInv, BookTypes
  <2>3. /\ rows'[Head(queue)] = size[Head(queue)]
        /\ \A i \in Ids : i # Head(queue) => rows'[i] = rows[i]
    BY <2>1, <2>2 DEF BookInv, BookTypes
  <2> QED BY <2>1, <2>3, <1>a, TearServed
<1>4. CASE CommitFails
  <2>1. /\ queue # <<>> /\ Resume(Head(queue)) /\ UNCHANGED <<size, shares, rows, crashes>>
        /\ misses' = misses + 1
    BY <1>4, Zenon DEF CommitFails, Miss, books, world
  <2>2. Head(queue) \in Ids /\ Bad' \subseteq Bad \cup {Head(queue)}
    BY <2>1, TearServed
  <2> QED BY <2>1, <2>2, TearOne DEF BookInv
<1>5. CASE OrdersFail
  BY <1>5, TearDropped
<1>6. CASE Crash
  BY <1>6, TearCrash
<1>7. CASE Restart
  <2>1. Hydrate /\ buy = Idle /\ sell = Idle /\ UNCHANGED <<crashes, misses>>
    BY <1>7, Zenon DEF Restart, Hydrate
  <2>2. Bad' \subseteq Bad
    BY <2>1, TearHydrate DEF Hand
  <2> QED BY <2>1, <2>2, <1>a
<1>8. CASE PassGate
  <2>1. buy.step = "idle" /\ buy'.step = "gated"
        /\ UNCHANGED <<size, rows, queue, shares, sell, crashes, misses>>
    BY <1>8 DEF PassGate, Idle, books, world, count
  <2>2. Queued' = Queued /\ \A k \in Ids : Pending(buy', k) = Pending(buy, k)
    BY <2>1 DEF Queued, Pending
  <2>3. Bad' = Bad
    BY <2>1, <2>2 DEF Bad
  <2> QED BY <2>1, <2>3, <1>a
<1>9. CASE Tick \/ UNCHANGED vars \/ (\E i \in Ids : \E p \in Marks : Mark(i, p))
  <2>1. UNCHANGED <<size, rows, queue, shares, buy, sell, crashes, misses>>
    BY <1>9 DEF Tick, NewWeek, Roll, SaveAnchor, Mark, vars, books, world, count
  <2>2. Queued' = Queued
    BY <2>1 DEF Queued
  <2>3. Bad' = Bad
    BY <2>1, <2>2 DEF Bad
  <2> QED BY <2>1, <2>3, <1>a
<1> QED
  BY <1>1, <1>2, <1>3, <1>4, <1>5, <1>6, <1>7, <1>8, <1>9
  DEF Next, EntryTask, ExitTask, Store, OpenIds

\* A crash leaves at most two positions that differ from the shares held, a failed
\* store call one, however many of them there are and in whatever order.
THEOREM TearsHold == Spec => []TearsBounded
<1>1. Init => TearInv
  <2> SUFFICES ASSUME Init PROVE TearInv
    OBVIOUS
  <2>1. \A i \in Ids : Pending(buy, i) = 0 /\ Pending(sell, i) = 0
                        /\ shares[i] = 0 /\ size[i] = 0 /\ rows[i] = 0
    BY DEF Init, Pending, Idle, Zero
  <2>2. Bad = {}
    BY <2>1 DEF Bad
  <2>3. Cardinality({}) = 0
    BY FS_EmptySet
  <2> QED BY <2>2, <2>3 DEF Init, TearInv
<1>2. BookInv /\ TearInv => TearsBounded
  <2> SUFFICES ASSUME BookInv, TearInv PROVE TearsBounded
    OBVIOUS
  <2>1. Bad \in SUBSET Ids /\ Torn \in SUBSET Bad
    BY DEF Bad, Torn
  <2>2. /\ Cardinality(Torn) \in Nat /\ Cardinality(Bad) \in Nat
        /\ Cardinality(Torn) <= Cardinality(Bad)
    BY <2>1, Cards
  <2> QED BY <2>2 DEF TearInv, TearsBounded, BookInv, BookTypes
<1> QED BY <1>1, <1>2, TearNext, BookHolds, PTL DEF Spec

----------------------------------------------------------------------------
(* Types.                                                                  *)

\* The entry task buys what nobody holds, at an ask; the exit task has sold no more
\* than the position it flattens.
HandsOnly ==
  /\ buy.step = "gated" => shares[buy.id] = 0
  /\ buy.step = "traded" => buy.price \in Asks
  /\ sell.step = "traded" => sell.n <= size[sell.id]

\* TypeOK, but for the configuration.
Held ==
  /\ size \in [Ids -> 0..MaxLot] /\ rows \in [Ids -> 0..MaxLot]
  /\ entry \in [Ids -> Asks \cup {0}] /\ mark \in [Tokens -> Marks \cup {0}]
  /\ realized \in Int /\ cash \in Int
  /\ queue \in Seq(Ids) /\ Len(queue) <= 2
  /\ shares \in [Ids -> 0..MaxLot]
  /\ buy \in Trade \cup {Idle} /\ sell \in Trade \cup {Idle}
  /\ anchor \in [equity : Int, week : Int] /\ saved \in [equity : Int, week : Int]
  /\ week \in Nat /\ tick \in BOOLEAN
  /\ starts \in Nat /\ crashes \in Nat /\ misses \in Nat

TypeInv == Held /\ HandsOnly

LEMMA IdleStep == Idle.step = "idle"
BY DEF Idle

\* The sums over the positions are integers.
LEMMA SumsTyped == ASSUME Held PROVE Exposure \in Int /\ Equity \in Int
<1>1. IsFiniteSet(OpenIds) /\ OpenIds \subseteq Ids
  BY PortfolioAssumption, FS_Subset DEF OpenIds
<1>2. \A i \in Ids : entry[i] \in Int /\ size[i] \in Int /\ mark[TokenOf[i]] \in Int
  BY PortfolioAssumption DEF Held
<1>3. \A i \in OpenIds : Cost[i] \in Int /\ Gain[i] \in Int
  BY <1>1, <1>2 DEF Cost, Gain
<1>4. Exposure \in Int /\ Unrealized \in Int
  BY <1>1, <1>3, SumInt DEF Exposure, Unrealized
<1>5. Start \in Int /\ realized \in Int
  BY PortfolioAssumption DEF Held
<1> QED BY <1>4, <1>5 DEF Equity

LEMMA TypeInit == Init => TypeInv
<1> SUFFICES ASSUME Init PROVE TypeInv
  OBVIOUS
<1>1. Zero \in [Ids -> 0..MaxLot] /\ Zero \in [Ids -> Asks \cup {0}]
      /\ [t \in Tokens |-> 0] \in [Tokens -> Marks \cup {0}]
  BY PortfolioAssumption DEF Zero
<1>2. queue \in Seq(Ids) /\ Len(queue) <= 2
  BY EmptySeq DEF Init
<1>3. Start \in Int
  BY PortfolioAssumption
<1>4. anchor \in [equity : Int, week : Int] /\ saved \in [equity : Int, week : Int]
  BY <1>3 DEF Init
<1>5. /\ size \in [Ids -> 0..MaxLot] /\ rows \in [Ids -> 0..MaxLot]
      /\ entry \in [Ids -> Asks \cup {0}] /\ mark \in [Tokens -> Marks \cup {0}]
      /\ shares \in [Ids -> 0..MaxLot]
  BY <1>1 DEF Init
<1>6. /\ realized \in Int /\ cash \in Int /\ week \in Nat
      /\ starts \in Nat /\ crashes \in Nat /\ misses \in Nat
  BY <1>3 DEF Init
<1>9. /\ buy \in Trade \cup {Idle} /\ sell \in Trade \cup {Idle}
      /\ tick \in BOOLEAN
  BY Zenon DEF Init
<1>7. Held
  BY <1>2, <1>4, <1>5, <1>6, <1>9 DEF Held
<1>8. HandsOnly
  BY IdleStep DEF Init, HandsOnly
<1> QED BY <1>7, <1>8 DEF TypeInv

\* The queue is of two tasks.
LEMMA QueueTyped == ASSUME BookInv' PROVE queue' \in Seq(Ids) /\ Len(queue') <= 2
<1>1. queue' \in Seq(Ids)
  BY DEF BookInv, BookTypes
<1>2. Len(queue') = (IF buy'.step = "stored" THEN 1 ELSE 0)
                    + (IF sell'.step = "stored" THEN 1 ELSE 0)
  BY DEF BookInv, Hands
<1> QED BY <1>1, <1>2

\* An execution in hand is that of a task that is not idle.
LEMMA Working ==
  ASSUME NEW t \in Trade \cup {Idle}, t.step # "idle" PROVE t \in Trade
BY IdleStep

LEMMA TradeParts ==
  ASSUME NEW t \in Trade
  PROVE  /\ t.id \in Ids /\ t.n \in 0..MaxLot /\ t.n \in Int
         /\ t.price \in Asks \cup Bids \cup {0} /\ t.price \in Int
         /\ \A s \in Steps : [t EXCEPT !.step = s] \in Trade
BY PortfolioAssumption DEF Trade

\* The entry task.
LEMMA TypeEntry ==
  ASSUME BookInv, BookInv', TypeInv, EntryTask
  PROVE  TypeInv'
<1>0. queue' \in Seq(Ids) /\ Len(queue') <= 2
  BY QueueTyped
<1>1. CASE PassGate
  <2>0. UNCHANGED <<size, entry, mark, realized, rows, shares, cash, sell, anchor, saved,
                    week, tick, starts, crashes, misses>>
    BY <1>1 DEF PassGate, books, world, weeks, count
  <2>1. PICK i \in Unused : buy' = [step |-> "gated", id |-> i, n |-> 0, price |-> 0]
    BY <1>1 DEF PassGate
  <2>2. buy' \in Trade /\ shares[i] = 0 /\ buy'.step = "gated" /\ buy'.id = i
    BY <2>1, PortfolioAssumption DEF Unused, Trade, Steps
  <2>3. Held'
    BY <1>0, <2>0, <2>2 DEF TypeInv, Held
  <2> QED BY <2>0, <2>2, <2>3 DEF TypeInv, HandsOnly
<1>2. CASE Buy
  <2>0. UNCHANGED <<size, entry, mark, realized, rows, sell, anchor, saved, week, tick,
                    starts, crashes, misses>> /\ buy.step = "gated"
    BY <1>2 DEF Buy, books, weeks, count
  <2>1. CASE buy' = Idle /\ UNCHANGED world
    <3>1. Held'
      BY <1>0, <2>0, <2>1 DEF TypeInv, Held, world
    <3> QED BY <2>0, <2>1, <3>1, IdleStep DEF TypeInv, HandsOnly, world
  <2>2. ASSUME NEW n \in 1..MaxLot, NEW p \in Asks,
               buy' = [buy EXCEPT !.step = "traded", !.n = n, !.price = p],
               shares' = [shares EXCEPT ![buy.id] = @ + n], cash' = cash - n * p
        PROVE  TypeInv'
    <3>1. buy \in Trade
      BY <2>0, Working DEF TypeInv, Held
    <3>2. buy' \in Trade /\ buy'.step = "traded" /\ buy'.price = p
      <4>1. n \in 0..MaxLot
        BY PortfolioAssumption
      <4> QED BY <2>2, <3>1, <4>1 DEF Trade, Steps
    <3>3. shares' \in [Ids -> 0..MaxLot]
      <4>1. shares[buy.id] = 0 /\ buy.id \in Ids /\ shares \in [Ids -> 0..MaxLot]
        BY <2>0, <3>1, TradeParts DEF TypeInv, Held, HandsOnly
      <4>2. MaxLot \in Nat /\ 0 + n \in 0..MaxLot
        BY PortfolioAssumption
      <4> QED BY <2>2, <4>1, <4>2
    <3>4. cash' \in Int
      <4>1. n \in Int /\ p \in Int /\ cash \in Int
        BY PortfolioAssumption DEF TypeInv, Held
      <4> QED BY <2>2, <4>1
    <3>5. Held'
      BY <1>0, <2>0, <3>2, <3>3, <3>4 DEF TypeInv, Held
    <3> QED BY <2>0, <3>2, <3>5 DEF TypeInv, HandsOnly
  <2> QED BY <1>2, <2>1, <2>2 DEF Buy
<1>3. CASE Open
  <2>0. UNCHANGED <<mark, realized, rows, shares, cash, sell, anchor, saved, week, tick,
                    starts, crashes, misses>>
    BY <1>3 DEF Open, world, weeks, count
  <2>1. /\ buy.step = "traded" /\ buy \in Trade
        /\ size' = [size EXCEPT ![buy.id] = buy.n]
        /\ entry' = [entry EXCEPT ![buy.id] = buy.price]
        /\ buy' = [buy EXCEPT !.step = "stored"]
    BY <1>3, Working DEF Open, TypeInv, Held
  <2>2. buy' \in Trade /\ buy'.step = "stored"
    BY <2>1 DEF Trade, Steps
  <2>3. size' \in [Ids -> 0..MaxLot]
    BY <2>1, TradeParts DEF TypeInv, Held
  <2>4. entry' \in [Ids -> Asks \cup {0}]
    BY <2>1, TradeParts DEF TypeInv, Held, HandsOnly
  <2>5. sell.step = "traded" => sell.id # buy.id
    BY <2>1 DEF BookInv, Fresh
  <2>6. sell.step = "traded" => sell.id \in Ids
    BY Working, TradeParts DEF TypeInv, Held
  <2>7. HandsOnly'
    BY <2>0, <2>1, <2>2, <2>5, <2>6 DEF TypeInv, Held, HandsOnly
  <2>8. Held'
    BY <1>0, <2>0, <2>2, <2>3, <2>4 DEF TypeInv, Held
  <2> QED BY <2>7, <2>8 DEF TypeInv
<1> QED BY <1>1, <1>2, <1>3 DEF EntryTask

\* The exit task.
LEMMA TypeExit ==
  ASSUME BookInv, BookInv', TypeInv, ExitTask
  PROVE  TypeInv'
<1>0. queue' \in Seq(Ids) /\ Len(queue') <= 2
  BY QueueTyped
<1>1. ASSUME NEW i \in Ids, NEW p \in Marks, Mark(i, p)
      PROVE  TypeInv'
  <2>1. UNCHANGED <<size, entry, realized, rows, shares, cash, buy, sell, anchor, saved,
                    week, tick, starts, crashes, misses>>
        /\ mark' = [mark EXCEPT ![TokenOf[i]] = p]
    BY <1>1 DEF Mark, world, weeks, count
  <2>2. mark' \in [Tokens -> Marks \cup {0}]
    BY <2>1 DEF TypeInv, Held
  <2>3. Held'
    BY <1>0, <2>1, <2>2 DEF TypeInv, Held
  <2> QED BY <2>1, <2>3 DEF TypeInv, HandsOnly
<1>2. ASSUME NEW i \in Ids, Sell(i)
      PROVE  TypeInv'
  <2>0. UNCHANGED <<size, entry, mark, realized, rows, buy, anchor, saved, week, tick,
                    starts, crashes, misses>> /\ i \in OpenIds
    BY <1>2 DEF Sell, books, weeks, count
  <2>1. PICK n \in 1..size[i], p \in Bids :
          /\ n <= shares[i]
          /\ sell' = [step |-> "traded", id |-> i, n |-> n, price |-> p]
          /\ shares' = [shares EXCEPT ![i] = @ - n]
          /\ cash' = cash + n * p
    BY <1>2 DEF Sell
  <2>2. /\ size[i] \in 0..MaxLot /\ shares[i] \in 0..MaxLot /\ MaxLot \in Nat
        /\ shares \in [Ids -> 0..MaxLot]
    BY PortfolioAssumption DEF TypeInv, Held
  <2>3. n \in 0..MaxLot /\ n <= size[i] /\ shares[i] - n \in 0..MaxLot
    BY <2>1, <2>2
  <2>4. sell' \in Trade /\ sell'.step = "traded" /\ sell'.n = n /\ sell'.id = i
    BY <2>1, <2>3 DEF Trade, Steps
  <2>5. shares' \in [Ids -> 0..MaxLot]
    BY <2>1, <2>2, <2>3
  <2>6. cash' \in Int
    <3>1. n \in Int /\ p \in Int /\ cash \in Int
      BY PortfolioAssumption DEF TypeInv, Held
    <3> QED BY <2>1, <3>1
  <2>7. Held'
    BY <1>0, <2>0, <2>4, <2>5, <2>6 DEF TypeInv, Held
  <2>8. buy.step = "gated" => buy.id # i
    BY <2>0, <2>2 DEF BookInv, Fresh, OpenIds
  <2>9. buy.step = "gated" => buy.id \in Ids
    BY Working, TradeParts DEF TypeInv, Held
  <2>10. HandsOnly'
    BY <2>0, <2>1, <2>2, <2>3, <2>4, <2>8, <2>9 DEF TypeInv, HandsOnly
  <2> QED BY <2>7, <2>10 DEF TypeInv
<1>3. CASE Close
  <2>0. UNCHANGED <<entry, mark, rows, shares, cash, buy, anchor, saved, week, tick,
                    starts, crashes, misses>>
    BY <1>3 DEF Close, world, weeks, count
  <2>1. /\ sell.step = "traded" /\ sell \in Trade
        /\ realized' = realized + (sell.price - entry[sell.id]) * sell.n
        /\ size' = [size EXCEPT ![sell.id] = @ - sell.n]
        /\ sell' = [sell EXCEPT !.step = "stored"]
    BY <1>3, Working DEF Close, TypeInv, Held
  <2>2. sell' \in Trade /\ sell'.step = "stored"
    BY <2>1 DEF Trade, Steps
  <2>a. sell.id \in Ids /\ sell.n \in 0..MaxLot /\ sell.price \in Int
    BY <2>1, TradeParts
  <2>b. entry[sell.id] \in Int /\ realized \in Int
    BY <2>a, PortfolioAssumption DEF TypeInv, Held
  <2>c. /\ size \in [Ids -> 0..MaxLot] /\ size[sell.id] \in 0..MaxLot
        /\ sell.n <= size[sell.id]
    BY <2>1, <2>a DEF TypeInv, Held, HandsOnly
  <2>3. MaxLot \in Nat /\ sell.n \in Nat
    BY <2>a, PortfolioAssumption
  <2>4. size[sell.id] - sell.n \in 0..MaxLot
    BY <2>3, <2>c
  <2>5. size' \in [Ids -> 0..MaxLot] /\ realized' \in Int
    BY <2>1, <2>3, <2>4, <2>a, <2>b, <2>c
  <2>6. Held'
    BY <1>0, <2>0, <2>2, <2>5 DEF TypeInv, Held
  <2> QED BY <2>0, <2>2, <2>6 DEF TypeInv, HandsOnly
<1> QED BY <1>1, <1>2, <1>3 DEF ExitTask

\* The store.
LEMMA TypeStore ==
  ASSUME BookInv, BookInv', TypeInv, Store
  PROVE  TypeInv'
<1>0. queue' \in Seq(Ids) /\ Len(queue') <= 2
  BY QueueTyped
<1>1. UNCHANGED <<size, entry, mark, realized, shares, cash, anchor, saved, week, tick,
                  starts, crashes>>
  BY DEF Store, Commit, CommitFails, OrdersFail, Resume, books, world, weeks, count
<1>2. buy' \in {buy, Idle} /\ sell' \in {sell, Idle}
  BY DEF Store, Commit, CommitFails, OrdersFail, Resume
<1>3. misses' \in Nat
  BY DEF Store, Commit, CommitFails, OrdersFail, Miss, count, TypeInv, Held
<1>4. rows' \in [Ids -> 0..MaxLot]
  <2>1. CASE Commit
    <3>1. Head(queue) \in Ids
      BY <2>1 DEF Commit, TypeInv, Held
    <3> QED BY <2>1, <3>1 DEF Commit, TypeInv, Held
  <2>2. CASE CommitFails \/ OrdersFail
    BY <2>2 DEF CommitFails, OrdersFail, TypeInv, Held
  <2> QED BY <2>1, <2>2 DEF Store
<1>5. Held'
  BY <1>0, <1>1, <1>2, <1>3, <1>4 DEF TypeInv, Held
<1> QED BY <1>1, <1>2, <1>5, IdleStep DEF TypeInv, HandsOnly

\* The tick, the calendar and restarts.
LEMMA TypeRest ==
  ASSUME BookInv, BookInv', TypeInv, Tick \/ Restart \/ Crash \/ UNCHANGED vars
  PROVE  TypeInv'
<1>0. queue' \in Seq(Ids) /\ Len(queue') <= 2
  BY QueueTyped
<1>1. CASE Tick
  <2>1. UNCHANGED <<size, entry, mark, realized, rows, shares, cash, buy, sell, starts,
                    crashes, misses>>
    BY <1>1 DEF Tick, NewWeek, Roll, SaveAnchor, books, world, count
  <2>2. Equity \in Int
    BY SumsTyped DEF TypeInv
  <2>3. /\ anchor' \in [equity : Int, week : Int] /\ saved' \in [equity : Int, week : Int]
        /\ week' \in Nat /\ tick' \in BOOLEAN
    <3>1. CASE NewWeek
      BY <3>1 DEF NewWeek, TypeInv, Held
    <3>2. CASE Roll
      BY <2>2, <3>2 DEF Roll, Known, TypeInv, Held
    <3>3. CASE SaveAnchor
      BY <3>3 DEF SaveAnchor, TypeInv, Held
    <3> QED BY <1>1, <3>1, <3>2, <3>3 DEF Tick
  <2>4. Held'
    BY <1>0, <2>1, <2>3 DEF TypeInv, Held
  <2> QED BY <2>1, <2>4 DEF TypeInv, HandsOnly
<1>2. CASE Restart \/ Crash
  <2>1. Hydrate
    BY <1>2 DEF Restart, Crash
  <2>2. /\ size' = rows /\ mark' = [t \in Tokens |-> 0] /\ realized' = 0
        /\ buy' = Idle /\ sell' = Idle /\ tick' = FALSE
        /\ UNCHANGED <<entry, rows, shares, cash, saved, week, misses>>
    BY <2>1 DEF Hydrate, world
  <2>3. starts' \in Nat /\ crashes' \in Nat
    BY <1>2 DEF Restart, Crash, TypeInv, Held
  <2>4. Start \in Int
    BY PortfolioAssumption
  <2>5. anchor' \in [equity : Int, week : Int]
    BY <2>1, <2>4 DEF Hydrate, Known, TypeInv, Held
  <2>6. /\ mark' \in [Tokens -> Marks \cup {0}] /\ size' \in [Ids -> 0..MaxLot]
        /\ realized' \in Int
    BY <2>2 DEF TypeInv, Held
  <2>8. buy' \in Trade \cup {Idle} /\ sell' \in Trade \cup {Idle} /\ tick' \in BOOLEAN
    BY <2>2, Zenon
  <2>9. /\ entry' \in [Ids -> Asks \cup {0}] /\ rows' \in [Ids -> 0..MaxLot]
        /\ shares' \in [Ids -> 0..MaxLot] /\ cash' \in Int /\ week' \in Nat
        /\ saved' \in [equity : Int, week : Int] /\ misses' \in Nat
    BY <2>2 DEF TypeInv, Held
  <2>7. Held'
    BY <1>0, <2>3, <2>5, <2>6, <2>8, <2>9 DEF Held
  <2> QED BY <2>2, <2>7, IdleStep DEF TypeInv, HandsOnly
<1>3. CASE UNCHANGED vars
  BY <1>3 DEF vars, books, world, weeks, count, TypeInv, Held, HandsOnly
<1> QED BY <1>1, <1>2, <1>3

LEMMA TypeHolds == Spec => []TypeInv
<1>1. BookInv /\ BookInv' /\ TypeInv /\ [Next]_vars => TypeInv'
  BY TypeEntry, TypeExit, TypeStore, TypeRest DEF Next
<1> QED BY <1>1, TypeInit, BookHolds, PTL DEF Spec

\* The books are always of their types: no position is negative or greater than a lot,
\* whatever overlaps and fails.
THEOREM TypesHold == Spec => []TypeOK
<1>1. TypeInv /\ blind \in BOOLEAN => TypeOK
  BY Zenon DEF TypeInv, Held, TypeOK
<1>2. Init => blind \in BOOLEAN
  BY Zenon DEF Init
<1>3. blind \in BOOLEAN /\ [Next]_vars => (blind \in BOOLEAN)'
  BY BlindNext
<1> QED BY <1>1, <1>2, <1>3, TypeHolds, PTL DEF Spec

----------------------------------------------------------------------------
(* The bankroll.                                                           *)

Costs(e, z) == [i \in Ids |-> e[i] * z[i]]
Sized(z)    == {i \in Ids : z[i] > 0}

\* What has no size costs nothing.
LEMMA CostsAll ==
  ASSUME NEW e \in [Ids -> Int], NEW z \in [Ids -> Nat]
  PROVE  /\ SumFunctionOnSet(Costs(e, z), Sized(z)) = SumFunctionOnSet(Costs(e, z), Ids)
         /\ \A i \in Ids : Costs(e, z)[i] = e[i] * z[i] /\ Costs(e, z)[i] \in Int
         /\ SumFunctionOnSet(Costs(e, z), Ids) \in Int
<1>1. \A i \in Ids : Costs(e, z)[i] = e[i] * z[i] /\ Costs(e, z)[i] \in Int
  BY DEF Costs
<1>2. \A i \in Ids \ Sized(z) : Costs(e, z)[i] = 0
  <2> SUFFICES ASSUME NEW i \in Ids \ Sized(z) PROVE e[i] * z[i] = 0
    BY <1>1
  <2>1. z[i] = 0 /\ e[i] \in Int
    BY DEF Sized
  <2> QED BY <2>1
<1>3. IsFiniteSet(Ids) /\ Sized(z) \in SUBSET Ids
  BY PortfolioAssumption DEF Sized
<1> QED BY <1>1, <1>2, <1>3, SumZeros, SumInt

\* Where one position changes, the exposure changes by what it costs.
LEMMA CostsMove ==
  ASSUME NEW e \in [Ids -> Int], NEW z \in [Ids -> Nat],
         NEW d \in [Ids -> Int], NEW y \in [Ids -> Nat],
         NEW i \in Ids, \A j \in Ids \ {i} : d[j] = e[j] /\ y[j] = z[j]
  PROVE  SumFunctionOnSet(Costs(d, y), Sized(y)) =
           SumFunctionOnSet(Costs(e, z), Sized(z)) + d[i] * y[i] - e[i] * z[i]
<1>1. /\ \A j \in Ids : Costs(e, z)[j] = e[j] * z[j] /\ Costs(e, z)[j] \in Int
      /\ \A j \in Ids : Costs(d, y)[j] = d[j] * y[j] /\ Costs(d, y)[j] \in Int
  BY CostsAll
<1>2. \A j \in Ids \ {i} : Costs(e, z)[j] = Costs(d, y)[j]
  BY <1>1
<1>3. SumFunctionOnSet(Costs(d, y), Ids)
        = SumFunctionOnSet(Costs(e, z), Ids) + Costs(d, y)[i] - Costs(e, z)[i]
  BY <1>1, <1>2, PortfolioAssumption, SumChange
<1>4. /\ SumFunctionOnSet(Costs(d, y), Sized(y)) = SumFunctionOnSet(Costs(d, y), Ids)
      /\ SumFunctionOnSet(Costs(e, z), Sized(z)) = SumFunctionOnSet(Costs(e, z), Ids)
  BY CostsAll
<1> QED BY <1>1, <1>3, <1>4

LEMMA ExposureIs == Exposure = SumFunctionOnSet(Costs(entry, size), Sized(size))
BY DEF Exposure, Cost, Costs, OpenIds, Sized

LEMMA ExposureWas == Exposure' = SumFunctionOnSet(Costs(entry', size'), Sized(size'))
BY DEF Exposure, Cost, Costs, OpenIds, Sized

LEMMA BooksTyped ==
  ASSUME Held
  PROVE  entry \in [Ids -> Int] /\ size \in [Ids -> Nat]
BY PortfolioAssumption DEF Held

LEMMA BooksTypedNext ==
  ASSUME Held'
  PROVE  entry' \in [Ids -> Int] /\ size' \in [Ids -> Nat]
BY PortfolioAssumption DEF Held

LEMMA CashInit == Init => Gap = 0
<1> SUFFICES ASSUME Init PROVE Gap = 0
  OBVIOUS
<1>1. OpenIds = {}
  BY DEF Init, OpenIds, Zero
<1>2. Exposure = 0
  BY <1>1, SumEmpty DEF Exposure
<1>3. Value(buy) = 0 /\ Value(sell) = 0 /\ cash = Start /\ realized = 0
  BY IdleStep DEF Init, Value
<1> QED BY <1>2, <1>3, PortfolioAssumption DEF Gap, Bankroll

\* A step that leaves the books, and what is in flight, alone.
LEMMA CashStays ==
  ASSUME UNCHANGED <<size, entry, realized, cash>>, Value(buy)' = Value(buy),
         Value(sell)' = Value(sell)
  PROVE  Gap' = Gap
<1>1. Exposure' = Exposure
  BY ExposureIs, ExposureWas DEF Costs, Sized
<1> QED BY <1>1 DEF Gap, Bankroll

\* When an upsert is served, well or badly, nothing was in flight in its task.
LEMMA CashServed ==
  ASSUME BookInv, queue # <<>>, Resume(Head(queue))
  PROVE  Value(buy)' = Value(buy) /\ Value(sell)' = Value(sell)
<1>1. Value(buy)' = Value(buy)
  BY IdleStep DEF Resume, Value
<1>2. CASE buy.step = "stored" /\ buy.id = Head(queue)
  BY <1>1, <1>2 DEF Resume, Value
<1>3. CASE ~(buy.step = "stored" /\ buy.id = Head(queue))
  <2>1. Head(queue) \in Queued
    BY DEF Queued, BookInv, BookTypes
  <2>2. sell.step = "stored" /\ sell' = Idle
    BY <1>3, <2>1 DEF Resume, BookInv, Hands
  <2> QED BY <1>1, <2>2, IdleStep DEF Value
<1> QED BY <1>2, <1>3

LEMMA CashNext ==
  ASSUME BookInv, TypeInv, TypeInv', [Next]_vars,
         crashes' = crashes, starts' = starts, ~Unbooked
  PROVE  Gap' = Gap
<1>t. /\ crashes \in Nat /\ starts \in Nat
      /\ buy \in Trade \cup {Idle} /\ sell \in Trade \cup {Idle}
      /\ entry \in [Ids -> Int] /\ size \in [Ids -> Nat]
      /\ entry' \in [Ids -> Int] /\ size' \in [Ids -> Nat]
      /\ cash \in Int /\ realized \in Int /\ Start \in Int /\ Exposure \in Int
  <2>1. /\ crashes \in Nat /\ starts \in Nat
        /\ cash \in Int /\ realized \in Int
        /\ buy \in Trade \cup {Idle} /\ sell \in Trade \cup {Idle}
    BY DEF TypeInv, Held
  <2>3. Start \in Int /\ Exposure \in Int
    BY SumsTyped, PortfolioAssumption DEF TypeInv
  <2> QED BY <2>1, <2>3, BooksTyped, BooksTypedNext DEF TypeInv
<1>1. CASE PassGate \/ Tick \/ UNCHANGED vars
  <2>1. UNCHANGED <<size, entry, realized, cash, sell>>
    BY <1>1 DEF PassGate, Tick, NewWeek, Roll, SaveAnchor, vars, books, world
  <2>2. Value(buy)' = Value(buy)
    BY <1>1, IdleStep DEF PassGate, Tick, NewWeek, Roll, SaveAnchor, vars, Value
  <2>3. Value(sell)' = Value(sell)
    BY <2>1 DEF Value
  <2> QED BY <2>1, <2>2, <2>3, CashStays
<1>2. CASE Buy
  <2>1. UNCHANGED <<size, entry, realized, sell>> /\ buy.step = "gated"
    BY <1>2 DEF Buy, books
  <2>2. Value(buy) = 0 /\ Value(sell)' = Value(sell)
    BY <2>1 DEF Value
  <2>3. CASE buy' = Idle /\ UNCHANGED world
    <3>1. Value(buy)' = 0 /\ cash' = cash
      BY <2>3, IdleStep DEF Value, world
    <3> QED BY <2>1, <2>2, <3>1, CashStays
  <2>4. ASSUME NEW n \in 1..MaxLot, NEW p \in Asks,
               buy' = [buy EXCEPT !.step = "traded", !.n = n, !.price = p],
               cash' = cash - n * p
        PROVE  Gap' = Gap
    <3>1. buy \in Trade
      BY <1>t, <2>1, Working
    <3>2. Value(buy)' = n * p
      BY <2>4, <3>1 DEF Value, Trade
    <3>3. Bankroll' = Bankroll /\ Bankroll \in Int
      BY <1>t, <2>1, ExposureIs, ExposureWas DEF Bankroll
    <3>4. n * p \in Int
      BY PortfolioAssumption
    <3>5. Value(sell) \in Int
      <4>1. CASE sell.step = "traded"
        BY <1>t, <4>1, Working, TradeParts DEF Value
      <4> QED BY <4>1 DEF Value
    <3> QED BY <1>t, <2>1, <2>2, <2>4, <3>2, <3>3, <3>4, <3>5 DEF Gap
  <2> QED BY <1>2, <2>3, <2>4 DEF Buy
<1>3. CASE Open
  <2>1. /\ buy.step = "traded" /\ buy \in Trade
        /\ size' = [size EXCEPT ![buy.id] = buy.n]
        /\ entry' = [entry EXCEPT ![buy.id] = buy.price]
        /\ buy' = [buy EXCEPT !.step = "stored"]
        /\ UNCHANGED <<realized, cash, sell>>
    BY <1>3, <1>t, Working DEF Open, world
  <2>2. buy.id \in Ids /\ buy.n \in Nat /\ buy.price \in Int
    BY <2>1, TradeParts
  <2>3. /\ entry[buy.id] = 0 /\ size[buy.id] = 0
        /\ entry'[buy.id] = buy.price /\ size'[buy.id] = buy.n
        /\ \A j \in Ids \ {buy.id} : entry'[j] = entry[j] /\ size'[j] = size[j]
    BY <1>t, <2>1, <2>2 DEF BookInv, Fresh
  <2>4. Exposure' = Exposure + entry'[buy.id] * size'[buy.id] - entry[buy.id] * size[buy.id]
    <3>1. SumFunctionOnSet(Costs(entry', size'), Sized(size'))
            = SumFunctionOnSet(Costs(entry, size), Sized(size))
                + entry'[buy.id] * size'[buy.id] - entry[buy.id] * size[buy.id]
      <4>1. /\ entry \in [Ids -> Int] /\ size \in [Ids -> Nat]
            /\ entry' \in [Ids -> Int] /\ size' \in [Ids -> Nat]
        BY <1>t
      <4> QED BY <4>1, <2>2, <2>3, CostsMove, Zenon
    <3> QED BY <3>1, ExposureIs, ExposureWas, Zenon
  <2>5. Exposure' = Exposure + buy.price * buy.n
    BY <1>t, <2>2, <2>3, <2>4
  <2>6. /\ Value(buy) = buy.n * buy.price /\ Value(buy)' = 0
        /\ Value(sell)' = Value(sell)
    BY <2>1 DEF Value, Trade
  <2>7. Value(sell) \in Int
    <3>1. CASE sell.step = "traded"
      BY <1>t, <3>1, Working, TradeParts DEF Value
    <3> QED BY <3>1 DEF Value
  <2>8. buy.n * buy.price \in Int /\ buy.n * buy.price = buy.price * buy.n
    BY <2>2
  <2> QED BY <1>t, <2>1, <2>5, <2>6, <2>7, <2>8 DEF Gap, Bankroll
<1>4. ASSUME NEW i \in Ids, Sell(i)
      PROVE  Gap' = Gap
  <2>1. UNCHANGED <<size, entry, realized, buy>> /\ sell = Idle
    BY <1>4 DEF Sell, books
  <2>2. PICK n \in 1..size[i], p \in Bids :
          /\ sell' = [step |-> "traded", id |-> i, n |-> n, price |-> p]
          /\ cash' = cash + n * p
    BY <1>4 DEF Sell
  <2>3. Value(sell) = 0 /\ Value(sell)' = n * p /\ Value(buy)' = Value(buy)
    BY <2>1, <2>2, IdleStep DEF Value
  <2>4. Bankroll' = Bankroll /\ Bankroll \in Int
    BY <1>t, <2>1, ExposureIs, ExposureWas DEF Bankroll
  <2>5. n * p \in Int
    BY <1>t, PortfolioAssumption
  <2>6. Value(buy) \in Int
    <3>1. CASE buy.step = "traded"
      BY <1>t, <3>1, Working, TradeParts DEF Value
    <3> QED BY <3>1 DEF Value
  <2> QED BY <1>t, <2>1, <2>2, <2>3, <2>4, <2>5, <2>6 DEF Gap
<1>5. ASSUME NEW i \in Ids, NEW p \in Marks, Mark(i, p)
      PROVE  Gap' = Gap
  <2>1. UNCHANGED <<size, entry, realized, cash, buy, sell>>
    BY <1>5 DEF Mark, world
  <2> QED BY <2>1, CashStays DEF Value
<1>6. CASE Close
  <2>1. /\ sell.step = "traded" /\ sell \in Trade
        /\ realized' = realized + (sell.price - entry[sell.id]) * sell.n
        /\ size' = [size EXCEPT ![sell.id] = @ - sell.n]
        /\ sell' = [sell EXCEPT !.step = "stored"]
        /\ UNCHANGED <<entry, cash, buy>>
    BY <1>6, <1>t, Working DEF Close, world
  <2>2. sell.id \in Ids /\ sell.n \in Int /\ sell.price \in Int
    BY <2>1, TradeParts
  <2>3. /\ size'[sell.id] = size[sell.id] - sell.n
        /\ \A j \in Ids \ {sell.id} : entry'[j] = entry[j] /\ size'[j] = size[j]
    BY <1>t, <2>1, <2>2
  <2>4. Exposure' = Exposure + entry'[sell.id] * size'[sell.id]
                             - entry[sell.id] * size[sell.id]
    <3>1. SumFunctionOnSet(Costs(entry', size'), Sized(size'))
            = SumFunctionOnSet(Costs(entry, size), Sized(size))
                + entry'[sell.id] * size'[sell.id] - entry[sell.id] * size[sell.id]
      <4>1. /\ entry \in [Ids -> Int] /\ size \in [Ids -> Nat]
            /\ entry' \in [Ids -> Int] /\ size' \in [Ids -> Nat]
        BY <1>t
      <4> QED BY <4>1, <2>2, <2>3, CostsMove, Zenon
    <3> QED BY <3>1, ExposureIs, ExposureWas, Zenon
  <2> DEFINE a == entry[sell.id]  z == size[sell.id]  n == sell.n  p == sell.price
  <2>5. a \in Int /\ z \in Int /\ n \in Int /\ p \in Int
    BY <1>t, <2>2
  <2>6. Exposure' = Exposure + a * (z - n) - a * z /\ realized' = realized + (p - a) * n
    BY <2>1, <2>3, <2>4
  <2>7. /\ Value(sell) = n * p /\ Value(sell)' = 0 /\ Value(buy)' = Value(buy)
    BY <2>1 DEF Value, Trade
  <2> HIDE DEF a, z, n, p
  <2>8. a * (z - n) = a * z - a * n /\ (p - a) * n = n * p - a * n
        /\ a * z \in Int /\ a * n \in Int /\ n * p \in Int
    BY <2>5
  <2>9. Value(buy) \in Int
    <3>1. CASE buy.step = "traded"
      BY <1>t, <3>1, Working, TradeParts DEF Value
    <3> QED BY <3>1 DEF Value
  <2> QED BY <1>t, <2>1, <2>6, <2>7, <2>8, <2>9 DEF Gap, Bankroll
<1>7. CASE Commit \/ CommitFails
  <2>1. UNCHANGED <<size, entry, realized, cash>> /\ queue # <<>> /\ Resume(Head(queue))
    BY <1>7 DEF Commit, CommitFails, books, world
  <2> QED BY <2>1, CashServed, CashStays
<1>8. ~OrdersFail
  BY Zenon DEF OrdersFail, Unbooked
<1>9. ~Restart /\ ~Crash
  <2>1. starts' # starts + 1 /\ crashes' # crashes + 1
    BY <1>t
  <2> QED BY <2>1, Zenon DEF Restart, Crash
<1> QED
  BY <1>1, <1>2, <1>3, <1>4, <1>5, <1>6, <1>7, <1>8, <1>9 DEF Next, EntryTask, ExitTask, Store

\* Where every upsert was served, a restart takes the positions over as they were.
LEMMA CashRestart ==
  ASSUME BookInv, TypeInv, TypeInv', RowsFollow, misses = 0, Restart
  PROVE  Gap' = Gap + realized
<1>1. /\ buy = Idle /\ sell = Idle /\ buy' = Idle /\ sell' = Idle
      /\ size' = rows /\ realized' = 0 /\ UNCHANGED <<entry, cash>>
  BY DEF Restart, Hydrate, world
<1>2. Len(queue) = 0 /\ queue \in Seq(Ids)
  BY <1>1, IdleStep DEF BookInv, BookTypes, Hands
<1>3. Queued = {}
  BY <1>2 DEF Queued
<1>4. \A i \in Ids : rows[i] = size[i]
  BY <1>3, RowsExact DEF BookInv
<1>5. size' = size
  <2>1. size \in [Ids -> Int] /\ rows \in [Ids -> Int]
    BY DEF BookInv, BookTypes
  <2> QED BY <1>1, <1>4, <2>1
<1>6. Exposure' = Exposure
  BY <1>1, <1>5, ExposureIs, ExposureWas DEF Costs, Sized
<1>7. Value(buy) = 0 /\ Value(sell) = 0 /\ Value(buy)' = 0 /\ Value(sell)' = 0
  BY <1>1, IdleStep DEF Value
<1>8. cash \in Int /\ realized \in Int /\ Start \in Int /\ Exposure \in Int
  <2>1. cash \in Int /\ realized \in Int
    BY DEF TypeInv, Held
  <2>2. Start \in Int /\ Exposure \in Int
    BY SumsTyped, PortfolioAssumption DEF TypeInv
  <2> QED BY <2>1, <2>2
<1> QED BY <1>1, <1>6, <1>7, <1>8 DEF Gap, Bankroll

\* For any prices and sizes, however partial closes overlap entries and however often
\* the process is started, no step but an unbooked fill and a crash moves the bankroll
\* off the cash that is there; a restart forgets the realized PnL and no more.
THEOREM CashHolds == Spec => BankrollIsCash
<1>1. BookInv /\ TypeInv /\ TypeInv' /\ RowsFollow /\ [Next]_vars =>
        [/\ crashes' = crashes /\ starts' = starts /\ ~Unbooked => Gap' = Gap
         /\ starts' # starts /\ misses = 0 => Gap' = Gap + realized]_vars
  <2> SUFFICES ASSUME BookInv, TypeInv, TypeInv', RowsFollow, [Next]_vars
               PROVE  /\ crashes' = crashes /\ starts' = starts /\ ~Unbooked => Gap' = Gap
                      /\ starts' # starts /\ misses = 0 => Gap' = Gap + realized
    OBVIOUS
  <2>1. starts' # starts => Restart
    BY Zenon DEF Next, EntryTask, PassGate, Buy, Open, ExitTask, Close, Sell, Mark, Store,
       Commit, CommitFails, OrdersFail, Tick, NewWeek, Roll, SaveAnchor, Crash, count, vars
  <2> QED BY <2>1, CashNext, CashRestart
<1> QED
  BY <1>1, CashInit, TypeHolds, BookHolds, RowsHold, PTL DEF Spec, BankrollIsCash
=============================================================================
