-------------------------- MODULE ExecutionProofs ---------------------------
(***************************************************************************)
(* Proofs about Execution, for every target, tolerance, step and number of *)
(* reposts, with every fault: what execute accounts for is sound, and an   *)
(* overfill bounded; what is traded is within the slippage tolerance; what *)
(* rests on the exchange is bounded; and each step of the engine lowers    *)
(* the work left.                                                          *)
(***************************************************************************)
EXTENDS Execution, Sums, TLAPS, SequenceTheorems, FiniteSetTheorems

\* What execute accounts for is what was asked, at most, and was traded.
Accounts == total + remaining = Target /\ total <= Target /\ total <= bought

\* What the engine's numbers are worth while it waits for an order.
Sound ==
  /\ Accounts
  /\ pc \in {"poll", "cancel"} => Last > 0
  /\ pc = "poll" => /\ known.filled <= orders[Last].filled
                    /\ orders[Last].filled <= orders[Last].size
                    /\ orders[Last].size = remaining
                    /\ total + orders[Last].filled <= bought

IInv == TypeOK /\ Sound

----------------------------------------------------------------------------
(* Lemmas about the operators.                                             *)

\* A limit computed from the book is a number.
LEMMA LimitPriceType ==
  ASSUME NEW bid \in Prices, NEW ask \in Prices, NEW n \in Nat
  PROVE  LimitPrice(bid, ask, n) \in Int
BY ExecutionAssumption DEF LimitPrice, Min2, Max2, Prices

\* An order is well typed when it is posted.
LEMMA OrderTyped ==
  ASSUME TypeOK, NEW n \in Nat, NEW p \in Int
  PROVE  Order(n, p) \in OrderType
<1>1. n * p \in Int /\ OrderSize \in Nat /\ limit \in Int
  BY DEF TypeOK, OrderSize
<1>2. (n < OrderSize) \in BOOLEAN
  BY <1>1, SMT
<1> QED
  BY <1>1, <1>2, Zenon DEF Order, OrderType

\* An order stays well typed when some of it is traded.
LEMMA TradedTyped ==
  ASSUME NEW o \in OrderType, NEW n \in Nat, NEW p \in Int
  PROVE  /\ Traded(o, n, p) \in OrderType
         /\ Traded(o, n, p).filled = o.filled + n
         /\ Traded(o, n, p).size = o.size
         /\ Traded(o, n, p).limit = o.limit
         /\ Traded(o, n, p).cost = o.cost + n * p
<1>1. o.filled + n \in Nat /\ o.cost + n * p \in Int
  BY DEF OrderType
<1>2. (o.filled + n < o.size) \in BOOLEAN
  BY SMT DEF OrderType
<1> QED
  BY <1>1, <1>2 DEF Traded, OrderType

\* What the engine keeps of an order that it waits for.
Kept == [status : {"LIVE"}, filled : Nat, cost : Int, id : BOOLEAN]

\* A report repeats the order's numbers, with its id or without, and its status says
\* what is left of it.
LEMMA ReportTyped ==
  ASSUME NEW o \in OrderType
  PROVE  /\ Report(o) \in Reports(o)
         /\ \A r \in Reports(o) :
              /\ r.filled = o.filled /\ r.cost = o.cost
              /\ r.filled \in Nat /\ r.cost \in Int
              /\ r.status = Report(o).status
              /\ r.status = "LIVE" => r \in Kept
<1>1. o.filled \in Nat /\ o.cost \in Int
  BY DEF OrderType
<1> DEFINE c == Report(o).status
<1>2. \A b \in BOOLEAN :
        Told(o, b) = [status |-> c, filled |-> o.filled, cost |-> o.cost, id |-> b]
  BY DEF Report, Told
<1> HIDE DEF c
<1>3. ASSUME NEW b \in BOOLEAN
      PROVE  /\ Told(o, b).filled = o.filled /\ Told(o, b).cost = o.cost
             /\ Told(o, b).status = c
  BY <1>2
<1>a. ASSUME NEW b \in BOOLEAN, NEW d \in {"LIVE"}
      PROVE  [status |-> d, filled |-> o.filled, cost |-> o.cost, id |-> b] \in Kept
  BY <1>1, Zenon DEF Kept
<1>4. ASSUME NEW b \in BOOLEAN, c = "LIVE"
      PROVE  Told(o, b) \in Kept
  BY <1>2, <1>4, <1>a
<1>5. Report(o) \in Reports(o)
  BY Zenon DEF Report, Reports
<1> QED
  BY <1>1, <1>3, <1>4, <1>5 DEF Reports, c

\* An answer is a mishap if it lacks the id.
LEMMA AnswerCounts ==
  ASSUME TypeOK, NEW o, NEW r, Answer(o, r)
  PROVE  /\ mishaps' \in 0..MaxMishaps
         /\ mishaps' = mishaps + 1 \/ (mishaps' = mishaps /\ r = Report(o))
<1>1. \/ mishaps' = mishaps + 1 /\ mishaps < MaxMishaps
      \/ mishaps' = mishaps /\ r = Report(o)
  BY DEF Answer
<1>2. mishaps \in 0..MaxMishaps /\ MaxMishaps \in Nat
  BY ExecutionAssumption DEF TypeOK
<1> QED
  BY <1>1, <1>2

\* Fair costs add up.
LEMMA FairAdds ==
  ASSUME NEW a \in Int, NEW b \in Int, NEW m \in Int, NEW n \in Int,
         Fair(a, m), Fair(b, n)
  PROVE  Fair(a + b, m + n)
<1>1. High \in Int /\ Low \in Int
  BY ExecutionAssumption DEF High, Low
<1>2. (m + n) * High = m * High + n * High /\ (m + n) * Low = m * Low + n * Low
  BY <1>1
<1>3. m * High \in Int /\ n * High \in Int /\ m * Low \in Int /\ n * Low \in Int
  BY <1>1
<1> DEFINE mh == m * High
           nh == n * High
           ml == m * Low
           nl == n * Low
<1>4. side = "BUY" => a <= mh /\ b <= nh
  BY DEF Fair
<1>5. side # "BUY" => a >= ml /\ b >= nl
  BY DEF Fair
<1>6. mh \in Int /\ nh \in Int /\ ml \in Int /\ nl \in Int
  BY <1>3
<1>7. (m + n) * High = mh + nh /\ (m + n) * Low = ml + nl
  BY <1>2
<1> HIDE DEF mh, nh, ml, nl
<1>8. side = "BUY" => a + b <= mh + nh
  BY <1>4, <1>6
<1>9. side # "BUY" => a + b >= ml + nl
  BY <1>5, <1>6
<1> QED
  BY <1>7, <1>8, <1>9, Zenon DEF Fair

\* Shares traded at a tolerable price have a fair cost.
LEMMA FairTrade ==
  ASSUME NEW n \in Nat, NEW p \in Int, Tolerable(p)
  PROVE  Fair(n * p, n)
<1>1. High \in Int /\ Low \in Int
  BY ExecutionAssumption DEF High, Low
<1>2. ASSUME NEW q \in Int, NEW r \in Int, q <= r
      PROVE  n * q <= n * r
  BY <1>2
<1> QED
  BY <1>1, <1>2 DEF Fair, Tolerable

----------------------------------------------------------------------------
(* Type correctness and the engine's accounts.                             *)

LEMMA NothingKept == Nothing \in Kept
BY DEF Nothing, Kept

LEMMA KeptParts ==
  ASSUME NEW k \in Kept
  PROVE  k.status = "LIVE" /\ k.filled \in Nat /\ k.cost \in Int
BY DEF Kept

\* Crediting a report of no more than what is left, and than what was traded,
\* keeps the accounts sound.
LEMMA CreditSound ==
  ASSUME TypeOK, Accounts, NEW r, Credit(r), Last' > 0,
         r.filled \in Nat, r.cost \in Int, r.filled <= remaining,
         bought' \in Nat, bought' >= total + r.filled
  PROVE  /\ pc' \in {"done", "cancel", "loop"} /\ side' = side
         /\ attempts' \in 0..MaxPlaces /\ remaining' \in Nat /\ total' \in Nat
         /\ wsum' \in Int /\ limit' \in Int
         /\ known' \in Kept
         /\ Sound'
<1>1. pc' \in {"done", "cancel", "loop"} /\ side' = side
  BY Zenon DEF Credit
<1>2. /\ remaining' = remaining - r.filled /\ total' = total + r.filled
      /\ wsum' = wsum + r.cost /\ known' = Nothing
      /\ attempts' = attempts /\ limit' = limit
  BY DEF Credit
<1>3. remaining \in Nat /\ total \in Nat /\ wsum \in Int
  BY DEF TypeOK
<1> DEFINE f == r.filled
           c == r.cost
<1>4. f \in Nat /\ c \in Int /\ f <= remaining
  OBVIOUS
<1>5. /\ remaining' = remaining - f /\ total' = total + f /\ wsum' = wsum + c
      /\ bought' >= total + f
  BY <1>2
<1> HIDE DEF f, c
<1>6. remaining' \in Nat /\ total' \in Nat /\ wsum' \in Int
  BY <1>3, <1>4, <1>5
<1>7. Accounts'
  BY <1>3, <1>4, <1>5, <1>6, ExecutionAssumption DEF Accounts
<1>8. known' \in Kept
  BY <1>2, NothingKept
<1> QED
  BY <1>1, <1>2, <1>6, <1>7, <1>8 DEF Sound, TypeOK

LEMMA InitSound == Init => IInv
<1> SUFFICES ASSUME Init PROVE TypeOK /\ Sound
  BY DEF IInv
<1> USE ExecutionAssumption
<1>1. orders \in Seq(OrderType)
  BY DEF Init
<1>2. known \in Kept
  BY NothingKept DEF Init
<1>3. paper \in BOOLEAN
  BY DEF Init
<1>4. TypeOK
  BY <1>1, <1>2, <1>3 DEF Init, TypeOK, Kept
<1>5. Sound
  BY DEF Init, Sound, Accounts
<1> QED
  BY <1>4, <1>5

LEMMA NextSound == IInv /\ [Next]_vars => IInv'
<1> SUFFICES ASSUME TypeOK, Sound, [Next]_vars
             PROVE  TypeOK' /\ Sound'
  BY DEF IInv
<1> USE ExecutionAssumption
<1>a. Last \in Nat /\ orders \in Seq(OrderType)
  BY DEF Last, TypeOK
<1>b. Last > 0 => orders[Last] \in OrderType
  BY <1>a DEF Last
<1>1. CASE Quote
  <2>1. /\ attempts' = attempts + 1 /\ attempts' \in 0..MaxPlaces
        /\ pc' \in {"place", "done"}
    BY <1>1 DEF Quote, More, TypeOK
  <2>2. limit' \in Int
    <3>1. PICK bid \in Prices, ask \in Prices :
            limit' = LimitPrice(bid, ask, attempts') \/ limit' = limit
      BY <1>1 DEF Quote
    <3>2. attempts' \in Nat
      BY <2>1
    <3>3. LimitPrice(bid, ask, attempts') \in Int
      BY <3>2, LimitPriceType
    <3>4. limit \in Int
      BY DEF TypeOK
    <3> QED
      BY <3>1, <3>3, <3>4
  <2> QED
    BY <1>1, <2>1, <2>2 DEF Quote, TypeOK, Sound, Accounts
<1>2. CASE Exhausted
  BY <1>2 DEF Exhausted, engine, TypeOK, Sound, Accounts, Last
<1>3. CASE PlacePaper
  <2> DEFINE o == Order(OrderSize, limit)
  <2>1. OrderSize \in Nat /\ OrderSize = remaining /\ limit \in Int
    BY DEF OrderSize, TypeOK
  <2>2. o \in OrderType /\ o.filled = remaining
    BY <2>1, OrderTyped DEF Order
  <2>3. orders' = Append(orders, o) /\ bought' = bought + o.filled /\ Credit(Report(o))
        /\ UNCHANGED <<paper, mishaps>>
    BY <1>3, Zenon DEF PlacePaper
  <2> HIDE DEF o
  <2>4. orders' \in Seq(OrderType) /\ Last' > 0
    BY <2>2, <2>3, <1>a DEF Last
  <2>5. bought' \in Nat /\ bought' >= total + o.filled
    BY <2>2, <2>3 DEF TypeOK, Sound, Accounts
  <2> QED
    BY <2>2, <2>3, <2>4, <2>5, CreditSound, ReportTyped DEF TypeOK, Sound, Kept
<1>4. CASE Place
  <2>1. PICK n \in 0..OrderSize, p \in Prices \cup {limit} :
          LET o == Order(n, p) IN
            /\ orders' = Append(orders, o)
            /\ bought' = bought + n
            /\ IF n = OrderSize
               THEN Credit(Report(o)) /\ UNCHANGED mishaps
               ELSE /\ \E r \in Reports(o) : Answer(o, r) /\ known' = r
                    /\ pc' = "poll"
                    /\ UNCHANGED <<side, attempts, remaining, total, wsum, limit>>
    BY <1>4, Zenon DEF Place
  <2> DEFINE o == Order(n, p)
  <2>2. n \in Nat /\ p \in Int /\ OrderSize = remaining /\ n <= remaining
    BY DEF OrderSize, TypeOK, Prices
  <2>3. o \in OrderType /\ o.filled = n /\ o.size = remaining
    BY <2>2, OrderTyped DEF Order
  <2>4. n # OrderSize => Report(o).status = "LIVE"
    <3>1. OrderSize \in Nat /\ (n # OrderSize => n < OrderSize)
      BY <2>2 DEF TypeOK
    <3>2. o.filled = n /\ o.size = OrderSize /\ o.live = (n < OrderSize)
      BY DEF Order
    <3> HIDE DEF o
    <3> QED
      BY <3>1, <3>2 DEF Report, Told
  <2>5. orders' = Append(orders, o) /\ bought' = bought + n /\ UNCHANGED paper
    BY <1>4, <2>1, Zenon DEF Place
  <2>6. n = OrderSize => Credit(Report(o)) /\ UNCHANGED mishaps
    BY <2>1
  <2>7. n # OrderSize => /\ \E r \in Reports(o) : Answer(o, r) /\ known' = r
                         /\ pc' = "poll"
                         /\ UNCHANGED <<side, attempts, remaining, total, wsum, limit>>
    BY <2>1
  <2> HIDE DEF o
  <2>8. orders' \in Seq(OrderType) /\ Last' > 0 /\ orders'[Last'] = o
    BY <2>3, <2>5, <1>a DEF Last
  <2>9. bought' \in Nat /\ bought' >= total + n
    BY <2>2, <2>5 DEF TypeOK, Sound, Accounts
  <2>10. CASE n = OrderSize
    BY <2>10, <2>2, <2>3, <2>5, <2>6, <2>8, <2>9, CreditSound, ReportTyped
       DEF TypeOK, Sound, Kept
  <2>11. CASE n # OrderSize
    <3>0. PICK r \in Reports(o) : Answer(o, r) /\ known' = r
      BY <2>11, <2>7
    <3>1. known' \in Kept /\ known'.filled = n
      BY <2>11, <2>3, <2>4, <3>0, ReportTyped
    <3>a. mishaps' \in 0..MaxMishaps
      BY <3>0, AnswerCounts
    <3>2. TypeOK'
      BY <2>11, <2>5, <2>7, <2>8, <2>9, <3>1, <3>a DEF TypeOK, Kept
    <3>3. Accounts'
      BY <2>11, <2>2, <2>7, <2>9 DEF TypeOK, Sound, Accounts
    <3> QED
      BY <2>11, <2>2, <2>3, <2>7, <2>8, <2>9, <3>1, <3>2, <3>3 DEF Sound
  <2> QED
    BY <2>10, <2>11
<1>5. CASE Poll
  <2>1. orders' = orders /\ bought' = bought /\ paper' = paper
        /\ pc = "poll" /\ Last' = Last /\ Last > 0
    BY <1>5 DEF Poll, Last, Sound
  <2>2. CASE UNCHANGED <<pc, engine, mishaps>>
    BY <2>1, <2>2 DEF engine, TypeOK, Sound, Accounts
  <2>3. ASSUME NEW r \in Reports(orders[Last]), Answer(orders[Last], r),
               IF r.status = "LIVE"
               THEN known' = r
                    /\ UNCHANGED <<pc, side, attempts, remaining, total, wsum, limit>>
               ELSE Credit(r)
        PROVE  TypeOK' /\ Sound'
    <3>1. /\ r.filled = orders[Last].filled /\ r.filled \in Nat /\ r.cost \in Int
          /\ r.status = "LIVE" => r \in Kept
      BY <2>1, <1>b, ReportTyped
    <3>2. r.filled <= remaining /\ bought >= total + r.filled
      BY <2>1, <3>1, <1>b DEF Sound, TypeOK, OrderType
    <3>3. mishaps' \in 0..MaxMishaps
      BY <2>3, AnswerCounts
    <3>4. CASE r.status = "LIVE"
      BY <3>4, <2>1, <2>3, <3>1, <3>3, <1>b DEF TypeOK, Sound, Accounts, OrderType, Kept
    <3>5. CASE r.status # "LIVE"
      BY <3>5, <2>1, <2>3, <3>1, <3>2, <3>3, CreditSound DEF TypeOK, Sound, Kept
    <3> QED
      BY <3>4, <3>5
  <2> QED
    BY <1>5, <2>2, <2>3, Zenon DEF Poll
<1>6. CASE Expire
  <2>1. orders' = orders /\ bought' = bought /\ UNCHANGED <<paper, mishaps>>
        /\ pc = "poll" /\ Last' = Last /\ Last > 0 /\ Credit(known)
    BY <1>6 DEF Expire, Last, Sound
  <2>k. known \in Kept
    BY DEF TypeOK, Kept
  <2>2. /\ known.filled \in Nat /\ known.cost \in Int
        /\ orders[Last].filled \in Nat /\ total \in Nat
    BY <2>1, <2>k, <1>b, KeptParts DEF TypeOK, OrderType
  <2>3. /\ known.filled <= orders[Last].filled /\ orders[Last].filled <= remaining
        /\ total + orders[Last].filled <= bought /\ bought \in Nat /\ remaining \in Nat
    BY <2>1 DEF Sound, TypeOK
  <2> DEFINE g == orders[Last].filled
  <2>4. known.filled <= g /\ g <= remaining /\ total + g <= bought /\ g \in Nat
    BY <2>2, <2>3
  <2> HIDE DEF g
  <2>5. known.filled <= remaining /\ bought >= total + known.filled
    BY <2>2, <2>3, <2>4
  <2> QED
    BY <2>1, <2>2, <2>5, CreditSound DEF TypeOK, Sound, Kept
<1>7. CASE Cancel
  <2>1. Last > 0 /\ pc' = "loop" /\ UNCHANGED <<engine, bought, paper, mishaps>>
    BY <1>7 DEF Cancel, Sound
  <2>2. [orders[Last] EXCEPT !.live = FALSE] \in OrderType
    BY <2>1, <1>b DEF OrderType
  <2>3. orders' = IF paper THEN orders
                  ELSE [orders EXCEPT ![Last] = [orders[Last] EXCEPT !.live = FALSE]]
    BY <1>7 DEF Cancel
  <2>4. orders' \in Seq(OrderType)
    BY <2>1, <2>2, <2>3, <1>a, ExceptSeq DEF Last
  <2> QED
    BY <2>1, <2>4 DEF engine, TypeOK, Sound, Accounts
<1>8. CASE QuoteFails
  <2>1. attempts' \in 0..MaxPlaces
    BY <1>8 DEF QuoteFails, More, TypeOK
  <2> QED
    BY <1>8, <2>1 DEF QuoteFails, TypeOK, Sound, Accounts
<1>9. CASE PlaceRaises
  <2>1. Order(0, limit) \in OrderType
    BY OrderTyped DEF TypeOK
  <2>2. orders' \in Seq(OrderType)
    BY <1>9, <2>1, <1>a DEF PlaceRaises
  <2> QED
    BY <1>9, <2>2 DEF PlaceRaises, engine, TypeOK, Sound, Accounts
<1>10. CASE CancelFails
  BY <1>10 DEF CancelFails, engine, TypeOK, Sound, Accounts
<1>11. ASSUME NEW i \in 1..Last, Fill(i)
       PROVE  TypeOK' /\ Sound'
  <2>1. orders[i] \in OrderType
    BY <1>a DEF Last
  <2>2. PICK n \in 1..(orders[i].size - orders[i].filled), p \in Prices :
          /\ orders' = [orders EXCEPT ![i] = Traded(orders[i], n, p)]
          /\ bought' = bought + n
    BY <1>11 DEF Fill
  <2>3. n \in Nat /\ p \in Int /\ n <= orders[i].size - orders[i].filled
    BY <2>1 DEF Prices, OrderType
  <2> DEFINE o == Traded(orders[i], n, p)
  <2>4. o \in OrderType /\ o.filled = orders[i].filled + n /\ o.size = orders[i].size
    BY <2>1, <2>3, TradedTyped
  <2>5. orders' = [orders EXCEPT ![i] = o] /\ UNCHANGED <<pc, engine, paper, mishaps>>
    BY <1>11, <2>2 DEF Fill
  <2> HIDE DEF o
  <2>6. orders' \in Seq(OrderType) /\ Len(orders') = Len(orders) /\ orders'[i] = o
        /\ \A j \in 1..Len(orders) : j # i => orders'[j] = orders[j]
    BY <2>4, <2>5, <1>a, ExceptSeq DEF Last
  <2>7. bought' \in Nat /\ bought' = bought + n
    BY <2>2, <2>3 DEF TypeOK
  <2>8. TypeOK' /\ Accounts'
    BY <2>3, <2>5, <2>6, <2>7 DEF TypeOK, Sound, Accounts, engine
  <2> DEFINE g  == orders[Last].filled
             g2 == orders'[Last].filled
  <2>9. ASSUME pc = "poll"
        PROVE  /\ known.filled <= g2 /\ g2 <= orders'[Last].size
               /\ orders'[Last].size = remaining /\ total + g2 <= bought'
    <3>1. /\ known.filled <= g /\ g <= remaining /\ total + g <= bought
          /\ orders[Last].size = remaining /\ Last > 0
      BY <2>9 DEF Sound
    <3>2. /\ known.filled \in Nat /\ total \in Nat /\ bought \in Nat
          /\ remaining \in Nat
      BY DEF TypeOK
    <3>3. g \in Nat
      BY <3>1, <1>b DEF OrderType
    <3>4. \/ g2 = g + n /\ n <= remaining - g /\ orders'[Last].size = remaining
          \/ g2 = g /\ orders'[Last].size = remaining
      BY <3>1, <2>3, <2>4, <2>6, <1>a DEF Last
    <3> HIDE DEF g, g2
    <3> QED
      BY <3>1, <3>2, <3>3, <3>4, <2>3, <2>7
  <2> QED
    BY <2>5, <2>6, <2>8, <2>9 DEF Sound, engine, Last
<1>12. ASSUME NEW i \in 1..Last, Drop(i)
       PROVE  TypeOK' /\ Sound'
  <2>1. orders[i] \in OrderType
    BY <1>a DEF Last
  <2> DEFINE o == [orders[i] EXCEPT !.live = FALSE]
  <2>2. o \in OrderType /\ o.filled = orders[i].filled /\ o.size = orders[i].size
    BY <2>1 DEF OrderType
  <2>3. orders' = [orders EXCEPT ![i] = o]
        /\ UNCHANGED <<pc, engine, bought, paper, mishaps>>
    BY <1>12 DEF Drop
  <2> HIDE DEF o
  <2>4. orders' \in Seq(OrderType) /\ Len(orders') = Len(orders) /\ orders'[i] = o
        /\ \A j \in 1..Len(orders) : j # i => orders'[j] = orders[j]
    BY <2>2, <2>3, <1>a, ExceptSeq DEF Last
  <2>5. TypeOK' /\ Accounts'
    BY <2>3, <2>4 DEF TypeOK, Sound, Accounts, engine
  <2>6. Last > 0 => /\ orders'[Last].filled = orders[Last].filled
                    /\ orders'[Last].size = orders[Last].size
    BY <2>2, <2>4, <1>a DEF Last
  <2> QED
    BY <2>3, <2>4, <2>5, <2>6 DEF Sound, engine, Last
<1>13. CASE Flip
  <2>1. paper' \in BOOLEAN
    BY <1>13 DEF Flip
  <2> QED
    BY <1>13, <2>1 DEF Flip, engine, TypeOK, Sound, Accounts, Last
<1>14. CASE UNCHANGED vars
  BY <1>14 DEF vars, engine, TypeOK, Sound, Accounts, Last
<1> QED
  BY <1>1, <1>2, <1>3, <1>4, <1>5, <1>6, <1>7, <1>8, <1>9, <1>10, <1>11, <1>12, <1>13,
     <1>14
     DEF Next, Engine, Fault, World, Over

\* The variables keep their types, and the numbers the engine works with are sound
\* in every state.
THEOREM EngineSound == Spec => []IInv
<1> QED
  BY InitSound, NextSound, PTL DEF Spec

\* TypeOK holds in every state: no report makes the shares left negative, and no
\* more orders are posted than the repost budget.
THEOREM TypesHold == Spec => []TypeOK
<1>1. IInv => TypeOK
  BY DEF IInv
<1> QED
  BY <1>1, EngineSound, PTL

----------------------------------------------------------------------------
(* How much is traded.                                                     *)

Fills == [i \in 1..Last |-> orders[i].filled]

\* Each order asks for the target at most, an attempt posts one at most, and all
\* that is traded is the fills of the orders.
TradedInv ==
  /\ Last <= attempts /\ (pc = "place" => Last < attempts)
  /\ \A i \in 1..Last : orders[i].filled <= orders[i].size /\ orders[i].size <= Target
  /\ bought = SumFunctionOnSet(Fills, 1..Last)

LEMMA FillsTyped ==
  ASSUME TypeOK
  PROVE  /\ Last \in Nat /\ IsFiniteSet(1..Last) /\ Cardinality(1..Last) = Last
         /\ \A i \in 1..Last : orders[i] \in OrderType /\ Fills[i] \in Nat
                               /\ Fills[i] = orders[i].filled
<1>1. Last \in Nat /\ \A i \in 1..Last : orders[i] \in OrderType
  BY DEF TypeOK, Last
<1>2. IsFiniteSet(1..Last) /\ Cardinality(1..Last) = Last
  BY <1>1, FS_Interval
<1>3. \A i \in 1..Last : Fills[i] = orders[i].filled /\ orders[i].filled \in Nat
  BY <1>1 DEF Fills, OrderType
<1> QED
  BY <1>1, <1>2, <1>3

LEMMA FillsTypedNext ==
  ASSUME TypeOK'
  PROVE  \A i \in 1..Last' : Fills'[i] = orders'[i].filled /\ Fills'[i] \in Nat
<1>1. \A i \in 1..Last' : orders'[i] \in OrderType
  BY DEF TypeOK, Last
<1>2. \A i \in 1..Last' : Fills'[i] = orders'[i].filled
  BY DEF Fills
<1> QED
  BY <1>1, <1>2 DEF OrderType

\* A new order comes last and leaves the others as they are.
LEMMA Appended ==
  ASSUME NEW S, orders \in Seq(S), NEW o, orders' = Append(orders, o)
  PROVE  /\ Last \in Nat /\ Last' = Last + 1 /\ orders'[Last + 1] = o
         /\ \A i \in 1..Last : orders'[i] = orders[i]
<1>1. /\ Len(orders) \in Nat /\ Len(Append(orders, o)) = Len(orders) + 1
      /\ Append(orders, o)[Len(orders) + 1] = o
      /\ \A i \in 1..Len(orders) : Append(orders, o)[i] = orders[i]
  OBVIOUS
<1> QED
  BY <1>1 DEF Last

\* A new order of no more than the target, of which some is traded.
LEMMA TradedAppend ==
  ASSUME TypeOK, TypeOK', TradedInv, pc = "place", pc' # "place",
         NEW o \in OrderType, orders' = Append(orders, o),
         o.filled <= o.size, o.size <= Target,
         bought' = bought + o.filled, attempts' = attempts
  PROVE  TradedInv'
<1>1. /\ Last \in Nat /\ Last' = Last + 1 /\ orders'[Last + 1] = o
      /\ \A i \in 1..Last : orders'[i] = orders[i]
  <2>1. orders \in Seq(OrderType)
    BY DEF TypeOK
  <2> QED
    BY <2>1, Appended
<1>2. 1..Last' = 1..Last \cup {Last + 1} /\ Last + 1 \notin 1..Last
  BY <1>1
<1>3. IsFiniteSet(1..Last) /\ \A i \in 1..Last : Fills[i] = orders[i].filled
  BY FillsTyped
<1>4. \A i \in 1..Last' : Fills'[i] = orders'[i].filled /\ Fills'[i] \in Nat
  BY FillsTypedNext
<1>5. \A i \in 1..Last : Fills[i] = Fills'[i]
  BY <1>1, <1>2, <1>3, <1>4
<1>6. SumFunctionOnSet(Fills, 1..Last) = SumFunctionOnSet(Fills', 1..Last)
  BY <1>3, <1>5, SumSame
<1>7. SumFunctionOnSet(Fills', 1..Last')
        = Fills'[Last + 1] + SumFunctionOnSet(Fills', 1..Last)
  <2>1. \A y \in (1..Last) \cup {Last + 1} : Fills'[y] \in Int
    BY <1>2, <1>4
  <2>2. SumFunctionOnSet(Fills', (1..Last) \cup {Last + 1})
          = Fills'[Last + 1] + SumFunctionOnSet(Fills', 1..Last)
    BY <1>2, <1>3, <2>1, SumPut
  <2> QED
    BY <1>2, <2>2
<1>8. Fills'[Last + 1] = o.filled
  BY <1>1, <1>2, <1>4
<1>9. bought' = SumFunctionOnSet(Fills', 1..Last')
  <2>1. o.filled \in Int /\ bought \in Int
    BY DEF OrderType, TypeOK
  <2> QED
    BY <2>1, <1>6, <1>7, <1>8 DEF TradedInv
<1>10. Last' <= attempts'
  BY <1>1 DEF TradedInv, TypeOK
<1>11. \A i \in 1..Last' : orders'[i].filled <= orders'[i].size /\ orders'[i].size <= Target
  BY <1>1, <1>2 DEF TradedInv
<1> QED
  BY <1>9, <1>10, <1>11 DEF TradedInv

\* Some of an order is traded, no more than it asks for.
LEMMA TradedMore ==
  ASSUME TypeOK, TypeOK', TradedInv, NEW i \in 1..Last, NEW n \in Nat, NEW o \in OrderType,
         orders' = [orders EXCEPT ![i] = o], o.size = orders[i].size,
         o.filled = orders[i].filled + n, o.filled <= o.size,
         bought' = bought + n, attempts' = attempts, pc' = "place" => pc = "place"
  PROVE  TradedInv'
<1>1. /\ Last' = Last /\ orders'[i] = o
      /\ \A j \in 1..Last : j # i => orders'[j] = orders[j]
  BY DEF TypeOK, Last
<1>2. IsFiniteSet(1..Last) /\ \A j \in 1..Last : Fills[j] = orders[j].filled /\ Fills[j] \in Nat
  BY FillsTyped
<1>3. \A j \in 1..Last' : Fills'[j] = orders'[j].filled /\ Fills'[j] \in Nat
  BY FillsTypedNext
<1>4. \A j \in (1..Last) \ {i} : Fills[j] = Fills'[j]
  BY <1>1, <1>2, <1>3
<1>5. \A j \in 1..Last : Fills[j] \in Int /\ Fills'[j] \in Int
  BY <1>1, <1>2, <1>3
<1>6. SumFunctionOnSet(Fills', 1..Last)
        = SumFunctionOnSet(Fills, 1..Last) + Fills'[i] - Fills[i]
  <2> DEFINE S == 1..Last
  <2>1. IsFiniteSet(S) /\ i \in S
    BY <1>2
  <2>2. \A y \in S : Fills[y] \in Int /\ Fills'[y] \in Int
    BY <1>5
  <2>3. \A y \in S \ {i} : Fills[y] = Fills'[y]
    BY <1>4
  <2> HIDE DEF S
  <2>4. PICK f, g : f = Fills /\ g = Fills'
    OBVIOUS
  <2>5. SumFunctionOnSet(g, S) = SumFunctionOnSet(f, S) + g[i] - f[i]
    BY <2>1, <2>2, <2>3, <2>4, SumChange
  <2> QED
    BY <2>4, <2>5 DEF S
<1>7. Fills'[i] = Fills[i] + n
  BY <1>1, <1>2, <1>3
<1>8. SumFunctionOnSet(Fills, 1..Last) \in Int
  BY <1>2, <1>5, SumInt
<1>9. bought' = SumFunctionOnSet(Fills', 1..Last')
  BY <1>1, <1>5, <1>6, <1>7, <1>8 DEF TradedInv
<1>10. \A j \in 1..Last' : orders'[j].filled <= orders'[j].size /\ orders'[j].size <= Target
  BY <1>1 DEF TradedInv
<1> QED
  BY <1>1, <1>9, <1>10 DEF TradedInv

\* What trades nothing and posts nothing.
LEMMA TradedStays ==
  ASSUME TypeOK, TypeOK', TradedInv, attempts' \in {attempts, attempts + 1},
         pc' = "place" => pc = "place" \/ attempts' = attempts + 1,
         orders' = orders, bought' = bought
  PROVE  TradedInv'
<1>1. Last' = Last /\ Fills' = Fills
  BY DEF Last, Fills
<1>2. Last \in Nat /\ attempts \in Nat
  BY DEF TypeOK, Last
<1> QED
  BY <1>1, <1>2 DEF TradedInv

LEMMA InitTraded == Init => TradedInv
<1> SUFFICES ASSUME Init PROVE TradedInv
  OBVIOUS
<1>1. Last = 0 /\ attempts = 0 /\ bought = 0 /\ pc # "place"
  BY DEF Init, Last
<1>2. 1..Last = {}
  BY <1>1
<1> QED
  BY <1>1, <1>2, SumEmpty DEF TradedInv

LEMMA NextTraded == IInv /\ IInv' /\ TradedInv /\ [Next]_vars => TradedInv'
<1> SUFFICES ASSUME IInv, IInv', TradedInv, [Next]_vars
             PROVE  TradedInv'
  OBVIOUS
<1>a. TypeOK /\ TypeOK' /\ Sound /\ Last \in Nat /\ orders \in Seq(OrderType)
  BY DEF IInv, TypeOK, Last
<1>b. OrderSize \in Nat /\ OrderSize <= Target
  <2>1. total + remaining = Target /\ total \in Nat /\ remaining \in Nat
    BY <1>a DEF Sound, Accounts, TypeOK
  <2> QED
    BY <2>1, ExecutionAssumption DEF OrderSize
<1>1. CASE Quote \/ QuoteFails \/ Exhausted
  <2>1. /\ UNCHANGED <<orders, bought>> /\ attempts' \in {attempts, attempts + 1}
        /\ pc' = "place" => attempts' = attempts + 1
    BY <1>1 DEF Quote, QuoteFails, Exhausted, engine
  <2> QED
    BY <2>1, <1>a, TradedStays
<1>2. CASE PlacePaper
  <2> DEFINE o == Order(OrderSize, limit)
  <2>1. o \in OrderType /\ o.filled = OrderSize /\ o.size = OrderSize
    BY <1>a, <1>b, OrderTyped DEF Order, TypeOK
  <2>2. /\ pc = "place" /\ orders' = Append(orders, o) /\ bought' = bought + o.filled
        /\ Credit(Report(o))
    BY <1>2 DEF PlacePaper
  <2> HIDE DEF o
  <2>3. attempts' = attempts /\ pc' # "place"
    BY <2>2 DEF Credit
  <2> QED
    BY <2>1, <2>2, <2>3, <1>a, <1>b, TradedAppend
<1>3. CASE Place
  <2>1. PICK n \in 0..OrderSize, p \in Prices \cup {limit} :
          LET o == Order(n, p) IN
            /\ orders' = Append(orders, o)
            /\ bought' = bought + n
            /\ IF n = OrderSize
               THEN Credit(Report(o))
               ELSE /\ pc' = "poll"
                    /\ UNCHANGED <<side, attempts, remaining, total, wsum, limit>>
    BY <1>3 DEF Place
  <2> DEFINE o == Order(n, p)
  <2>2. n \in Nat /\ p \in Int /\ n <= OrderSize
    BY <1>a, <1>b DEF TypeOK, Prices
  <2>3. o \in OrderType /\ o.filled = n /\ o.size = OrderSize
    BY <2>2, <1>a, OrderTyped DEF Order
  <2>4. pc = "place" /\ orders' = Append(orders, o) /\ bought' = bought + n
    BY <1>3, <2>1 DEF Place
  <2>5. attempts' = attempts /\ pc' # "place"
    BY <2>1 DEF Credit
  <2> HIDE DEF o
  <2> QED
    BY <2>2, <2>3, <2>4, <2>5, <1>a, <1>b, TradedAppend
<1>4. CASE Poll \/ Expire
  <2>1. UNCHANGED <<orders, bought, attempts>> /\ pc' # "place"
    BY <1>4 DEF Poll, Expire, Credit, engine
  <2> QED
    BY <2>1, <1>a, TradedStays
<1>5. CASE CancelFails \/ Flip \/ UNCHANGED vars
  <2>1. UNCHANGED <<orders, bought, attempts>> /\ pc' \in {pc, "loop"}
    BY <1>5 DEF CancelFails, Flip, vars, engine
  <2> QED
    BY <2>1, <1>a, TradedStays
<1>6. CASE PlaceRaises
  <2>1. UNCHANGED <<bought, attempts>> /\ pc = "place" /\ pc' = "raised"
    BY <1>6 DEF PlaceRaises, engine
  <2>2. CASE orders' = orders
    BY <2>1, <2>2, <1>a, TradedStays
  <2>3. CASE orders' = Append(orders, Order(0, limit))
    <3> DEFINE o == Order(0, limit)
    <3>1. o \in OrderType /\ o.filled = 0 /\ o.size = OrderSize
      BY <1>a, OrderTyped DEF Order, TypeOK
    <3>2. bought' = bought + o.filled
      BY <2>1, <3>1, <1>a DEF TypeOK
    <3> HIDE DEF o
    <3> QED
      BY <2>1, <2>3, <3>1, <3>2, <1>a, <1>b, TradedAppend DEF o
  <2> QED
    BY <1>6, <2>2, <2>3 DEF PlaceRaises
<1>7. CASE Cancel
  <2>1. UNCHANGED <<bought, attempts>> /\ pc' = "loop" /\ Last > 0
    BY <1>7, <1>a DEF Cancel, engine, Sound
  <2>2. CASE paper
    BY <1>7, <2>1, <2>2, <1>a, TradedStays DEF Cancel
  <2>3. CASE ~paper
    <3> DEFINE o == [orders[Last] EXCEPT !.live = FALSE]
    <3>1. orders[Last] \in OrderType /\ Last \in 1..Last
      BY <2>1, <1>a DEF Last
    <3>2. o \in OrderType /\ o.filled = orders[Last].filled /\ o.size = orders[Last].size
      BY <3>1 DEF OrderType
    <3>3. orders' = [orders EXCEPT ![Last] = o]
      BY <1>7, <2>3 DEF Cancel
    <3> HIDE DEF o
    <3>4. o.filled <= o.size
      BY <3>1, <3>2 DEF TradedInv
    <3>5. bought \in Nat /\ orders[Last].filled \in Nat
      BY <3>1, <1>a DEF OrderType, TypeOK
    <3>6. bought' = bought + 0 /\ o.filled = orders[Last].filled + 0
      BY <2>1, <3>2, <3>5
    <3> QED
      BY <2>1, <3>1, <3>2, <3>3, <3>4, <3>6, <1>a, TradedMore
  <2> QED
    BY <2>2, <2>3
<1>8. ASSUME NEW i \in 1..Last, Fill(i)
      PROVE  TradedInv'
  <2>1. orders[i] \in OrderType
    BY <1>a DEF Last
  <2>2. PICK n \in 1..(orders[i].size - orders[i].filled), p \in Prices :
          /\ orders' = [orders EXCEPT ![i] = Traded(orders[i], n, p)]
          /\ bought' = bought + n
    BY <1>8 DEF Fill
  <2>3. n \in Nat /\ p \in Int /\ n <= orders[i].size - orders[i].filled
    BY <2>1 DEF Prices, OrderType
  <2> DEFINE o == Traded(orders[i], n, p)
  <2>4. o \in OrderType /\ o.filled = orders[i].filled + n /\ o.size = orders[i].size
    BY <2>1, <2>3, TradedTyped
  <2>5. orders' = [orders EXCEPT ![i] = o] /\ bought' = bought + n
    BY <2>2
  <2> HIDE DEF o
  <2>6. o.filled <= o.size
    BY <2>1, <2>3, <2>4 DEF OrderType
  <2>7. attempts' = attempts /\ pc' = pc
    BY <1>8 DEF Fill, engine
  <2> QED
    BY <2>3, <2>4, <2>5, <2>6, <2>7, <1>a, TradedMore
<1>9. ASSUME NEW i \in 1..Last, Drop(i)
      PROVE  TradedInv'
  <2>1. orders[i] \in OrderType
    BY <1>a DEF Last
  <2> DEFINE o == [orders[i] EXCEPT !.live = FALSE]
  <2>2. o \in OrderType /\ o.filled = orders[i].filled /\ o.size = orders[i].size
    BY <2>1 DEF OrderType
  <2>3. orders' = [orders EXCEPT ![i] = o] /\ UNCHANGED <<attempts, pc, bought>>
    BY <1>9 DEF Drop, engine
  <2> HIDE DEF o
  <2>4. o.filled <= o.size
    BY <2>2 DEF TradedInv
  <2>5. bought \in Nat /\ orders[i].filled \in Nat
    BY <2>1, <1>a DEF OrderType, TypeOK
  <2>6. bought' = bought + 0 /\ o.filled = orders[i].filled + 0
    BY <2>2, <2>3, <2>5
  <2> QED
    BY <2>2, <2>3, <2>4, <2>6, <1>a, TradedMore
<1> QED
  BY <1>1, <1>2, <1>3, <1>4, <1>5, <1>6, <1>7, <1>8, <1>9
     DEF Next, Engine, Fault, World, Over

\* Fills of at most the target for each order, and an order for each attempt.
LEMMA TradedBounded ==
  ASSUME TypeOK, TradedInv
  PROVE  bought <= attempts * Target
<1>1. /\ Last \in Nat /\ IsFiniteSet(1..Last) /\ Cardinality(1..Last) = Last
      /\ \A i \in 1..Last : orders[i] \in OrderType /\ Fills[i] \in Nat
                            /\ Fills[i] = orders[i].filled
  BY FillsTyped
<1>2. Target \in Nat /\ attempts \in Nat /\ Last <= attempts
  BY ExecutionAssumption DEF TypeOK, TradedInv
<1>3. \A i \in 1..Last : Fills[i] \in Int /\ Fills[i] <= Target
  BY <1>1, <1>2 DEF TradedInv, OrderType
<1>4. SumFunctionOnSet(Fills, 1..Last) <= Last * Target
  BY <1>1, <1>2, <1>3, SumAtMost
<1>5. Last * Target <= attempts * Target
  <2>1. ASSUME NEW a \in Nat, NEW b \in Nat, NEW k \in Nat, a <= b
        PROVE  a * k <= b * k
    BY <2>1
  <2> QED
    BY <1>1, <1>2, <2>1
<1>6. bought \in Int /\ Last * Target \in Int /\ attempts * Target \in Int
  BY <1>1, <1>2 DEF TypeOK
<1> DEFINE l == Last * Target
           t == attempts * Target
<1>7. bought <= l /\ l <= t /\ bought \in Int /\ l \in Int /\ t \in Int
  BY <1>4, <1>5, <1>6 DEF TradedInv
<1> HIDE DEF l, t
<1>8. bought <= t
  BY <1>7
<1> QED
  BY <1>8 DEF t

\* AccountedIsSound holds in every state: what execute accounts for is neither more
\* than was asked nor more than was traded, and each attempt trades the target once
\* more at most.
THEOREM AccountedHolds == Spec => []AccountedIsSound
<1>1. IInv /\ TradedInv => AccountedIsSound
  BY TradedBounded DEF IInv, Sound, Accounts, AccountedIsSound
<1>2. Spec => []TradedInv
  BY EngineSound, InitTraded, NextTraded, PTL DEF Spec
<1> QED
  BY <1>1, <1>2, EngineSound, PTL
----------------------------------------------------------------------------
(* The slippage tolerance.                                                 *)

\* What the engine accounts for is fair, and so is what it goes by.
AccountPriced ==
  /\ Fair(wsum, total)
  /\ pc \in {"place", "poll"} => Tolerable(limit)
  /\ pc = "poll" => Fair(known.cost, known.filled)

\* Each order was posted at a tolerable limit, and its trades cost no more.
OrdersPriced ==
  \A i \in 1..Last : Tolerable(orders[i].limit) /\ Fair(orders[i].cost, orders[i].filled)

\* Nothing has a fair cost.
LEMMA FairNothing == Fair(0, 0)
<1>1. High \in Int /\ Low \in Int
  BY ExecutionAssumption DEF High, Low
<1> QED
  BY <1>1 DEF Fair

\* An exchange that respects a tolerable limit trades at tolerable prices.
LEMMA CrossesTolerable ==
  ASSUME NEW p \in Int, NEW l \in Int, Crosses(p, l), Tolerable(l)
  PROVE  Tolerable(p)
<1>1. High \in Int /\ Low \in Int
  BY ExecutionAssumption DEF High, Low
<1> QED
  BY <1>1 DEF Crosses, Tolerable

\* The limit of an order is a price it may trade at.
LEMMA CrossesItself == ASSUME NEW l \in Int PROVE Crosses(l, l)
BY DEF Crosses

\* The side of the call is not changed, and with it the tolerance.
LEMMA SideStays == [Next]_vars => side' = side
BY DEF Next, Engine, Fault, World, Over, vars, engine, Quote, QuoteFails, Exhausted,
       PlacePaper, Place, PlaceRaises, Poll, Expire, Credit, Cancel, CancelFails,
       Fill, Drop, Flip

LEMMA FairStays ==
  ASSUME side' = side, NEW cost, NEW n
  PROVE  Fair(cost, n)' <=> Fair(cost, n)
BY Zenon DEF Fair, High, Low

LEMMA TolerableStays ==
  ASSUME side' = side, NEW p
  PROVE  Tolerable(p)' <=> Tolerable(p)
BY Zenon DEF Tolerable, High, Low

\* The orders stay priced when one is posted at a tolerable limit.
LEMMA PricedAppend ==
  ASSUME TypeOK, OrdersPriced, side' = side, NEW o, orders' = Append(orders, o),
         Tolerable(o.limit), Fair(o.cost, o.filled)
  PROVE  OrdersPriced'
<1>1. /\ Last \in Nat /\ Last' = Last + 1 /\ orders'[Last + 1] = o
      /\ \A i \in 1..Last : orders'[i] = orders[i]
  <2>1. orders \in Seq(OrderType)
    BY DEF TypeOK
  <2> QED
    BY <2>1, Appended
<1>2. ASSUME NEW i \in 1..Last'
      PROVE  (Tolerable(orders[i].limit) /\ Fair(orders[i].cost, orders[i].filled))'
  <2>1. PICK q : q = orders'[i]
    OBVIOUS
  <2>2. Tolerable(q.limit) /\ Fair(q.cost, q.filled)
    <3>1. CASE i \in 1..Last
      BY <3>1, <2>1, <1>1 DEF OrdersPriced
    <3>2. CASE i \notin 1..Last
      <4>1. i = Last + 1
        BY <3>2, <1>1
      <4> QED
        BY <4>1, <2>1, <1>1
    <3> QED
      BY <3>1, <3>2
  <2>3. Tolerable(q.limit)' /\ Fair(q.cost, q.filled)'
    BY <2>2, FairStays, TolerableStays
  <2> QED
    BY <2>1, <2>3, Zenon DEF Tolerable, Fair, High, Low
<1> QED
  BY <1>2 DEF OrdersPriced

\* And when one of them trades at a fair cost, or not at all.
LEMMA PricedChange ==
  ASSUME TypeOK, OrdersPriced, side' = side, NEW i \in 1..Last, NEW o,
         orders' = [orders EXCEPT ![i] = o],
         o.limit = orders[i].limit, Fair(o.cost, o.filled)
  PROVE  OrdersPriced'
<1>1. /\ Last' = Last /\ orders'[i] = o
      /\ \A j \in 1..Last : j # i => orders'[j] = orders[j]
  BY DEF TypeOK, Last
<1>2. ASSUME NEW j \in 1..Last'
      PROVE  (Tolerable(orders[j].limit) /\ Fair(orders[j].cost, orders[j].filled))'
  <2>1. PICK q : q = orders'[j]
    OBVIOUS
  <2>2. Tolerable(q.limit) /\ Fair(q.cost, q.filled)
    <3>1. CASE j = i
      BY <3>1, <2>1, <1>1 DEF OrdersPriced
    <3>2. CASE j # i
      BY <3>2, <2>1, <1>1 DEF OrdersPriced
    <3> QED
      BY <3>1, <3>2
  <2>3. Tolerable(q.limit)' /\ Fair(q.cost, q.filled)'
    BY <2>2, FairStays, TolerableStays
  <2> QED
    BY <2>1, <2>3, Zenon DEF Tolerable, Fair, High, Low
<1> QED
  BY <1>2 DEF OrdersPriced

LEMMA PricedSame ==
  ASSUME OrdersPriced, side' = side, orders' = orders
  PROVE  OrdersPriced'
<1>1. Last' = Last
  BY DEF Last
<1>2. ASSUME NEW j \in 1..Last
      PROVE  (Tolerable(orders[j].limit) /\ Fair(orders[j].cost, orders[j].filled))'
  <2>1. PICK q : q = orders[j] /\ q = orders'[j]
    OBVIOUS
  <2>2. Tolerable(q.limit) /\ Fair(q.cost, q.filled)
    BY <2>1 DEF OrdersPriced
  <2>3. Tolerable(q.limit)' /\ Fair(q.cost, q.filled)'
    BY <2>2, FairStays, TolerableStays
  <2> QED
    BY <2>1, <2>3, Zenon DEF Tolerable, Fair, High, Low
<1> QED
  BY <1>1, <1>2 DEF OrdersPriced

LEMMA NextOrdersPriced ==
  IInv /\ AccountPriced /\ OrdersPriced /\ [Next]_vars => OrdersPriced'
<1> SUFFICES ASSUME IInv, AccountPriced, OrdersPriced, [Next]_vars
             PROVE  OrdersPriced'
  OBVIOUS
<1>a. TypeOK /\ Sound /\ Last \in Nat /\ orders \in Seq(OrderType) /\ limit \in Int
  BY DEF IInv, TypeOK, Last
<1>b. side' = side
  BY SideStays
<1>c. orders' = orders => OrdersPriced'
  BY <1>b, PricedSame
<1>1. CASE PlacePaper
  <2> DEFINE o == Order(OrderSize, limit)
  <2>1. OrderSize \in Nat /\ Tolerable(limit) /\ orders' = Append(orders, o)
    BY <1>1, <1>a DEF OrderSize, TypeOK, AccountPriced, PlacePaper
  <2>2. o.filled = OrderSize /\ o.cost = OrderSize * limit /\ o.limit = limit
    BY DEF Order
  <2> HIDE DEF o
  <2>3. Fair(o.cost, o.filled)
    BY <2>1, <2>2, <1>a, FairTrade
  <2> QED
    BY <2>1, <2>2, <2>3, <1>a, <1>b, PricedAppend
<1>2. CASE Place
  <2>1. PICK n \in 0..OrderSize, p \in Prices \cup {limit} :
          Crosses(p, limit) /\ orders' = Append(orders, Order(n, p))
    BY <1>2 DEF Place
  <2> DEFINE o == Order(n, p)
  <2>2. n \in Nat /\ p \in Int /\ Tolerable(limit)
    BY <1>2, <1>a DEF Place, OrderSize, TypeOK, Prices, AccountPriced
  <2>3. o.filled = n /\ o.cost = n * p /\ o.limit = limit
    BY DEF Order
  <2>4. orders' = Append(orders, o)
    BY <2>1
  <2> HIDE DEF o
  <2>5. Fair(o.cost, o.filled)
    BY <2>1, <2>2, <2>3, <1>a, CrossesTolerable, FairTrade
  <2> QED
    BY <2>2, <2>3, <2>4, <2>5, <1>a, <1>b, PricedAppend
<1>3. CASE PlaceRaises
  <2>1. CASE orders' = orders
    BY <2>1, <1>c
  <2>2. CASE orders' = Append(orders, Order(0, limit))
    <3> DEFINE o == Order(0, limit)
    <3>1. o.filled = 0 /\ o.cost = 0 * limit /\ o.limit = limit
      BY DEF Order
    <3>2. Tolerable(limit)
      BY <1>3 DEF PlaceRaises, AccountPriced
    <3> HIDE DEF o
    <3>3. Fair(o.cost, o.filled)
      BY <3>1, <3>2, <1>a, FairTrade
    <3> QED
      BY <2>2, <3>1, <3>2, <3>3, <1>a, <1>b, PricedAppend DEF o
  <2> QED
    BY <1>3, <2>1, <2>2 DEF PlaceRaises
<1>4. CASE Cancel
  <2>1. CASE paper
    BY <1>4, <2>1, <1>c DEF Cancel
  <2>2. CASE ~paper
    <3> DEFINE o == [orders[Last] EXCEPT !.live = FALSE]
    <3>1. Last \in 1..Last /\ orders[Last] \in OrderType
      BY <1>4, <1>a DEF Cancel, Sound, Last
    <3>2. /\ o.filled = orders[Last].filled /\ o.limit = orders[Last].limit
          /\ o.cost = orders[Last].cost
      BY <3>1 DEF OrderType
    <3>3. orders' = [orders EXCEPT ![Last] = o]
      BY <1>4, <2>2 DEF Cancel
    <3> HIDE DEF o
    <3>4. Fair(o.cost, o.filled)
      BY <3>1, <3>2 DEF OrdersPriced
    <3> QED
      BY <3>1, <3>2, <3>3, <3>4, <1>a, <1>b, PricedChange
  <2> QED
    BY <2>1, <2>2
<1>5. ASSUME NEW i \in 1..Last, Fill(i)
      PROVE  OrdersPriced'
  <2>1. orders[i] \in OrderType
    BY <1>a DEF Last
  <2>2. PICK n \in 1..(orders[i].size - orders[i].filled), p \in Prices :
          /\ Crosses(p, orders[i].limit)
          /\ orders' = [orders EXCEPT ![i] = Traded(orders[i], n, p)]
    BY <1>5 DEF Fill
  <2>3. n \in Nat /\ p \in Int
    BY <2>1 DEF Prices, OrderType
  <2> DEFINE o == Traded(orders[i], n, p)
  <2>4. /\ o.filled = orders[i].filled + n /\ o.limit = orders[i].limit
        /\ o.cost = orders[i].cost + n * p
    BY <2>1, <2>3, TradedTyped
  <2>5. orders' = [orders EXCEPT ![i] = o]
    BY <2>2
  <2> HIDE DEF o
  <2>6. Fair(n * p, n)
    <3>1. orders[i].limit \in Int /\ Tolerable(orders[i].limit)
      BY <2>1 DEF OrderType, OrdersPriced
    <3> QED
      BY <3>1, <2>2, <2>3, CrossesTolerable, FairTrade
  <2>7. orders[i].cost \in Int /\ orders[i].filled \in Int /\ n * p \in Int /\ n \in Int
    BY <2>1, <2>3 DEF OrderType
  <2>8. Fair(orders[i].cost + n * p, orders[i].filled + n)
    BY <2>6, <2>7, FairAdds DEF OrdersPriced
  <2> QED
    BY <2>4, <2>5, <2>8, <1>a, <1>b, PricedChange
<1>6. ASSUME NEW i \in 1..Last, Drop(i)
      PROVE  OrdersPriced'
  <2>1. orders[i] \in OrderType
    BY <1>a DEF Last
  <2> DEFINE o == [orders[i] EXCEPT !.live = FALSE]
  <2>2. /\ o.filled = orders[i].filled /\ o.limit = orders[i].limit
        /\ o.cost = orders[i].cost
    BY <2>1 DEF OrderType
  <2>3. orders' = [orders EXCEPT ![i] = o]
    BY <1>6 DEF Drop
  <2> HIDE DEF o
  <2>4. Fair(o.cost, o.filled)
    BY <2>2 DEF OrdersPriced
  <2> QED
    BY <2>2, <2>3, <2>4, <1>a, <1>b, PricedChange
<1>7. CASE Quote \/ QuoteFails \/ Exhausted \/ Poll \/ Expire \/ CancelFails \/ Flip
           \/ UNCHANGED vars
  BY <1>7, <1>c DEF Quote, QuoteFails, Exhausted, Poll, Expire, CancelFails, Flip, vars
<1> QED
  BY <1>1, <1>2, <1>3, <1>4, <1>5, <1>6, <1>7 DEF Next, Engine, Fault, World, Over

\* Crediting a fair report keeps the average within the tolerance.
LEMMA CreditPriced ==
  ASSUME TypeOK, AccountPriced, NEW r, Credit(r),
         r.filled \in Nat, r.cost \in Int, Fair(r.cost, r.filled)
  PROVE  AccountPriced'
<1>1. /\ total' = total + r.filled /\ wsum' = wsum + r.cost
      /\ pc' \in {"done", "cancel", "loop"} /\ side' = side
  BY Zenon DEF Credit
<1>2. total \in Int /\ wsum \in Int /\ r.filled \in Int
  BY DEF TypeOK
<1>3. Fair(wsum + r.cost, total + r.filled)
  BY <1>2, FairAdds DEF AccountPriced
<1>4. Fair(wsum, total)'
  BY <1>1, <1>3, Zenon DEF Fair, High, Low
<1> QED
  BY <1>1, <1>4 DEF AccountPriced

LEMMA NextAccountPriced ==
  IInv /\ AccountPriced /\ OrdersPriced /\ [Next]_vars => AccountPriced'
<1> SUFFICES ASSUME IInv, AccountPriced, OrdersPriced, [Next]_vars
             PROVE  AccountPriced'
  OBVIOUS
<1>a. TypeOK /\ Sound /\ Last \in Nat /\ orders \in Seq(OrderType) /\ limit \in Int
  BY DEF IInv, TypeOK, Last
<1>b. side' = side
  BY SideStays
<1>c. UNCHANGED <<wsum, total>> => Fair(wsum, total)'
  BY <1>b, Zenon DEF AccountPriced, Fair, High, Low
<1>d. UNCHANGED limit => (Tolerable(limit)' <=> Tolerable(limit))
  BY <1>b, Zenon DEF Tolerable, High, Low
<1>1. CASE Quote
  <2>1. UNCHANGED <<wsum, total>> /\ pc' \in {"place", "done"}
    BY <1>1 DEF Quote
  <2>2. pc' = "place" => Tolerable(limit)'
    BY <1>1, <2>1 DEF Quote, Tolerable, High, Low
  <2> QED
    BY <1>c, <2>1, <2>2 DEF AccountPriced
<1>2. CASE Exhausted \/ QuoteFails \/ Cancel \/ CancelFails \/ PlaceRaises
  <2>1. UNCHANGED <<wsum, total>> /\ pc' \in {"done", "loop", "raised"}
    BY <1>2 DEF Exhausted, QuoteFails, Cancel, CancelFails, PlaceRaises, engine
  <2> QED
    BY <2>1, <1>c DEF AccountPriced
<1>3. CASE PlacePaper
  <2> DEFINE o == Order(OrderSize, limit)
  <2>1. OrderSize \in Nat /\ Tolerable(limit) /\ Credit(Report(o))
    BY <1>3, <1>a DEF OrderSize, TypeOK, AccountPriced, PlacePaper
  <2>2. o \in OrderType /\ o.filled = OrderSize /\ o.cost = OrderSize * limit
    BY <2>1, <1>a, OrderTyped DEF Order
  <2> HIDE DEF o
  <2>3. Fair(o.cost, o.filled)
    BY <2>1, <2>2, <1>a, FairTrade
  <2> QED
    BY <2>1, <2>2, <2>3, <1>a, CreditPriced, ReportTyped
<1>4. CASE Place
  <2>1. PICK n \in 0..OrderSize, p \in Prices \cup {limit} :
          LET o == Order(n, p) IN
            /\ Crosses(p, limit)
            /\ IF n = OrderSize
               THEN Credit(Report(o)) /\ UNCHANGED mishaps
               ELSE /\ \E r \in Reports(o) : Answer(o, r) /\ known' = r
                    /\ pc' = "poll"
                    /\ UNCHANGED <<side, attempts, remaining, total, wsum, limit>>
    BY <1>4, Zenon DEF Place
  <2> DEFINE o == Order(n, p)
  <2>2. n \in Nat /\ p \in Int /\ Tolerable(limit)
    BY <1>4, <1>a DEF Place, OrderSize, TypeOK, Prices, AccountPriced
  <2>3. o \in OrderType /\ o.filled = n /\ o.cost = n * p
    BY <2>2, <1>a, OrderTyped DEF Order
  <2>4. n = OrderSize => Credit(Report(o))
    BY <2>1
  <2>5. n # OrderSize => /\ \E r \in Reports(o) : known' = r
                         /\ pc' = "poll"
                         /\ UNCHANGED <<total, wsum, limit>>
    BY <2>1
  <2> HIDE DEF o
  <2>6. Fair(o.cost, o.filled)
    BY <2>1, <2>2, <2>3, <1>a, CrossesTolerable, FairTrade
  <2>7. CASE n = OrderSize
    BY <2>7, <2>3, <2>4, <2>6, <1>a, CreditPriced, ReportTyped
  <2>8. CASE n # OrderSize
    <3>1. known'.cost = o.cost /\ known'.filled = o.filled
      BY <2>8, <2>3, <2>5, ReportTyped
    <3>2. Fair(wsum, total)' /\ Tolerable(limit)'
      BY <2>8, <2>2, <2>5, <1>c, <1>d
    <3>3. Fair(known.cost, known.filled)'
      BY <3>1, <2>6, <1>b, Zenon DEF Fair, High, Low
    <3> QED
      BY <3>2, <3>3, <2>5, <2>8 DEF AccountPriced
  <2> QED
    BY <2>7, <2>8
<1>5. CASE Poll
  <2>1. pc = "poll" /\ Last \in 1..Last /\ orders[Last] \in OrderType
    BY <1>5, <1>a DEF Poll, Last, Sound
  <2>2. CASE UNCHANGED <<pc, engine, mishaps>>
    <3>1. Fair(wsum, total)' /\ Tolerable(limit)'
      BY <2>1, <2>2, <1>c, <1>d DEF engine, AccountPriced
    <3>2. Fair(known.cost, known.filled)'
      BY <2>1, <2>2, <1>b, Zenon DEF AccountPriced, Fair, High, Low, engine
    <3> QED
      BY <3>1, <3>2 DEF AccountPriced
  <2>3. ASSUME NEW r \in Reports(orders[Last]),
               IF r.status = "LIVE"
               THEN known' = r
                    /\ UNCHANGED <<pc, side, attempts, remaining, total, wsum, limit>>
               ELSE Credit(r)
        PROVE  AccountPriced'
    <3>1. /\ r.filled = orders[Last].filled /\ r.cost = orders[Last].cost
          /\ r.filled \in Nat /\ r.cost \in Int
      BY <2>1, ReportTyped
    <3>2. Fair(r.cost, r.filled) /\ Tolerable(limit)
      BY <2>1, <3>1 DEF OrdersPriced, AccountPriced
    <3>3. CASE r.status = "LIVE"
      <4>1. Fair(wsum, total)' /\ Tolerable(limit)'
        BY <2>3, <3>2, <3>3, <1>c, <1>d
      <4>2. Fair(known.cost, known.filled)'
        BY <2>3, <3>2, <3>3, <1>b, Zenon DEF Fair, High, Low
      <4> QED
        BY <4>1, <4>2 DEF AccountPriced
    <3>4. CASE r.status # "LIVE"
      BY <3>4, <2>3, <3>1, <3>2, <1>a, CreditPriced
    <3> QED
      BY <3>3, <3>4
  <2> QED
    BY <1>5, <2>2, <2>3, Zenon DEF Poll
<1>6. CASE Expire
  <2>1. pc = "poll" /\ Credit(known) /\ known.filled \in Nat /\ known.cost \in Int
    BY <1>6, <1>a DEF Expire, TypeOK
  <2> QED
    BY <2>1, <1>a, CreditPriced DEF AccountPriced
<1>7. CASE Flip \/ UNCHANGED vars \/ \E i \in 1..Last : Fill(i) \/ Drop(i)
  <2>1. UNCHANGED <<pc, wsum, total, limit, known>>
    BY <1>7 DEF Flip, vars, Fill, Drop, engine
  <2>2. pc = "poll" => Fair(known.cost, known.filled)'
    BY <2>1, <1>b, Zenon DEF AccountPriced, Fair, High, Low
  <2> QED
    BY <2>1, <2>2, <1>c, <1>d DEF AccountPriced
<1> QED
  BY <1>1, <1>2, <1>3, <1>4, <1>5, <1>6, <1>7 DEF Next, Engine, Fault, World, Over

LEMMA InitPriced == Init => AccountPriced /\ OrdersPriced
<1> SUFFICES ASSUME Init PROVE AccountPriced /\ OrdersPriced
  OBVIOUS
<1>1. AccountPriced
  BY FairNothing DEF Init, AccountPriced
<1>2. 1..Last = {}
  BY DEF Init, Last
<1> QED
  BY <1>1, <1>2 DEF OrdersPriced

\* WithinSlippage holds in every state: the average price execute accounts for
\* respects the tolerance, and so does the cost of each order with the fills no
\* report told, over reposts, partial fills and mode mishaps.
THEOREM SlippageHolds == Spec => []WithinSlippage
<1>1. AccountPriced /\ OrdersPriced => WithinSlippage
  BY DEF AccountPriced, OrdersPriced, WithinSlippage
<1>2. Spec => [](AccountPriced /\ OrdersPriced)
  BY EngineSound, InitPriced, NextOrdersPriced, NextAccountPriced, PTL DEF Spec
<1> QED
  BY <1>1, <1>2, PTL

----------------------------------------------------------------------------
(* What rests on the exchange.                                             *)

Resting == {i \in 1..Last : orders[i].live}

\* The engine will see to the last order, or has left the call with it.
Expects == \/ pc = "raised"
           \/ pc = "poll" /\ known.id /\ ~paper
           \/ pc = "cancel" /\ ~paper

\* Each order that rests beside the last is the doing of a mishap, and so is the
\* last unless the engine still can cancel it.
RestInv ==
  /\ \A i \in 1..Last : orders[i].live => orders[i].filled < orders[i].size
  /\ Cardinality(Resting \ {Last}) <= mishaps
  /\ ~Expects => Cardinality(Resting) <= mishaps

\* The cardinalities are numbers, and the last order counts for one.
LEMMA RestCounts ==
  ASSUME TypeOK
  PROVE  /\ IsFiniteSet(Resting) /\ Cardinality(Resting) \in Nat
         /\ Cardinality(Resting \ {Last}) \in Nat
         /\ Cardinality(Resting) <= Cardinality(Resting \ {Last}) + 1
         /\ Cardinality(Resting \ {Last}) <= Cardinality(Resting)
         /\ Last \notin Resting => Resting \ {Last} = Resting
<1>1. IsFiniteSet(1..Last)
  BY FS_Interval DEF TypeOK, Last
<1>2. IsFiniteSet(Resting)
  BY <1>1, FS_Subset DEF Resting
<1>3. IsFiniteSet(Resting \ {Last})
  BY <1>2, FS_RemoveElement
<1>4. Cardinality(Resting) \in Nat /\ Cardinality(Resting \ {Last}) \in Nat
  BY <1>2, <1>3, FS_CardinalityType
<1>5. Cardinality(Resting \ {Last})
        = IF Last \in Resting THEN Cardinality(Resting) - 1 ELSE Cardinality(Resting)
  BY <1>2, FS_RemoveElement
<1> QED
  BY <1>2, <1>4, <1>5

\* A step that brings no mishap, lets nothing more rest and leaves the last order
\* to the engine keeps the count.
LEMMA RestLess ==
  ASSUME IInv, RestInv, mishaps' \in Nat, mishaps' >= mishaps, Last' = Last,
         Resting' \subseteq Resting, Expects => Expects' \/ Last \notin Resting',
         \A i \in 1..Last : orders'[i].live => orders'[i].filled < orders'[i].size
  PROVE  RestInv'
<1>1. TypeOK /\ mishaps \in Nat
  BY DEF IInv, TypeOK
<1>2. IsFiniteSet(Resting) /\ IsFiniteSet(Resting \ {Last})
  BY <1>1, RestCounts, FS_RemoveElement
<1>3. Resting' \ {Last} \in SUBSET (Resting \ {Last}) /\ Resting' \in SUBSET Resting
  OBVIOUS
<1>4. /\ IsFiniteSet(Resting') /\ IsFiniteSet(Resting' \ {Last})
      /\ Cardinality(Resting' \ {Last}) <= Cardinality(Resting \ {Last})
      /\ Cardinality(Resting') <= Cardinality(Resting)
  BY <1>2, <1>3, FS_Subset
<1>5. /\ Cardinality(Resting') \in Nat /\ Cardinality(Resting' \ {Last}) \in Nat
      /\ Cardinality(Resting) \in Nat /\ Cardinality(Resting \ {Last}) \in Nat
  BY <1>2, <1>4, FS_CardinalityType
<1>6. Cardinality(Resting' \ {Last'}) <= mishaps'
  BY <1>1, <1>4, <1>5 DEF RestInv
<1>7. ASSUME ~Expects' PROVE Cardinality(Resting') <= mishaps'
  <2>1. CASE Expects
    <3>1. Resting' = Resting' \ {Last}
      BY <1>7, <2>1
    <3> QED
      BY <3>1, <1>6
  <2>2. CASE ~Expects
    BY <2>2, <1>1, <1>4, <1>5 DEF RestInv
  <2> QED
    BY <2>1, <2>2
<1> QED
  BY <1>6, <1>7 DEF RestInv

\* A mishap allows for the last order.
LEMMA RestMishap ==
  ASSUME IInv, RestInv, mishaps' = mishaps + 1, orders' = orders
  PROVE  RestInv'
<1>1. TypeOK /\ mishaps \in Nat
  BY DEF IInv, TypeOK
<1>2. Resting' = Resting /\ Last' = Last
  BY DEF Resting, Last
<1> QED
  BY <1>1, <1>2, RestCounts DEF RestInv

\* A new order, which the engine waits for unless it is not live or its id is lost.
LEMMA RestAppend ==
  ASSUME IInv, RestInv, pc = "place", NEW o \in OrderType, orders' = Append(orders, o),
         o.live => o.filled < o.size,
         (mishaps' = mishaps /\ (Expects' \/ ~o.live)) \/ mishaps' = mishaps + 1
  PROVE  RestInv'
<1>1. TypeOK /\ mishaps \in Nat /\ Cardinality(Resting) <= mishaps
  BY DEF IInv, TypeOK, RestInv, Expects
<1>2. /\ Last \in Nat /\ Last' = Last + 1 /\ orders'[Last + 1] = o
      /\ \A i \in 1..Last : orders'[i] = orders[i]
  <2>1. orders \in Seq(OrderType)
    BY <1>1 DEF TypeOK
  <2> QED
    BY <2>1, Appended
<1>a. 1..Last' = 1..Last \cup {Last + 1}
  BY <1>2
<1>3. Resting' = IF o.live THEN Resting \cup {Last + 1} ELSE Resting
  <2>1. Resting' = {i \in 1..Last' : orders'[i].live}
    BY DEF Resting
  <2>2. Resting = {i \in 1..Last : orders[i].live}
    BY DEF Resting
  <2>3. Resting' = {i \in 1..Last : orders'[i].live} \cup {i \in {Last + 1} : orders'[i].live}
    BY <2>1, <1>a
  <2>4. {i \in 1..Last : orders'[i].live} = Resting
    BY <2>2, <1>2
  <2>5. {i \in {Last + 1} : orders'[i].live} = IF o.live THEN {Last + 1} ELSE {}
    BY <1>2
  <2> QED
    BY <2>3, <2>4, <2>5
<1>4. Last + 1 \notin Resting
  BY <1>2 DEF Resting
<1>7. /\ Cardinality(Resting) \in Nat /\ Cardinality(Resting') \in Nat
      /\ Cardinality(Resting') <= Cardinality(Resting) + 1
  <2>1. IsFiniteSet(Resting) /\ Cardinality(Resting) \in Nat
    BY <1>1, RestCounts
  <2>2. Cardinality(Resting \cup {Last + 1}) = Cardinality(Resting) + 1
    BY <2>1, <1>4, FS_AddElement
  <2> QED
    BY <2>1, <2>2, <1>3
<1>5. Resting' \ {Last'} = Resting
  BY <1>2, <1>3, <1>4
<1>6. \A i \in 1..Last' : orders'[i].live => orders'[i].filled < orders'[i].size
  <2>1. \A i \in 1..Last : orders[i].live => orders[i].filled < orders[i].size
    BY DEF RestInv
  <2> QED
    BY <2>1, <1>2, <1>a
<1>8. Cardinality(Resting' \ {Last'}) <= mishaps'
  <2>1. mishaps' = mishaps \/ mishaps' = mishaps + 1
    BY Zenon
  <2>2. Cardinality(Resting) <= mishaps'
    BY <2>1, <1>1, <1>7
  <2> QED
    BY <2>2, <1>5, Zenon
<1>9. ASSUME ~Expects' PROVE Cardinality(Resting') <= mishaps'
  <2>1. CASE mishaps' = mishaps /\ ~o.live
    <3>1. Resting' = Resting
      BY <1>3, <2>1, Zenon
    <3> QED
      BY <1>1, <2>1, <3>1
  <2>2. CASE mishaps' = mishaps + 1
    BY <1>1, <1>7, <2>2
  <2>3. (mishaps' = mishaps /\ ~o.live) \/ mishaps' = mishaps + 1
    BY <1>9, Zenon
  <2> QED
    BY <2>1, <2>2, <2>3
<1> QED
  BY <1>6, <1>8, <1>9, Zenon DEF RestInv

\* An attempt ends: what it leaves to be done with the last order is to cancel it.
LEMMA RestCredit ==
  ASSUME IInv, RestInv, pc = "poll", NEW r, Credit(r), UNCHANGED <<orders, paper, mishaps>>,
         r.filled \in Nat, r.filled <= orders[Last].filled,
         r.status = "FILLED" => orders[Last].filled = orders[Last].size,
         known.id => r.id
  PROVE  RestInv'
<1>1. /\ TypeOK /\ mishaps \in Nat /\ Last \in Nat \ {0} /\ orders[Last] \in OrderType
      /\ orders[Last].size = remaining /\ remaining \in Nat
  BY DEF IInv, TypeOK, Sound, Last
<1>2. Resting' = Resting /\ Last' = Last
  BY DEF Resting, Last
<1>3. /\ pc' = "done" => r.status = "FILLED" \/ remaining - r.filled <= 0
      /\ pc' # "done" => pc' = IF r.id THEN "cancel" ELSE "loop"
  <2>1. remaining' = remaining - r.filled
    BY DEF Credit
  <2>2. pc' = IF r.status = "FILLED" \/ remaining' <= 0 THEN "done"
              ELSE IF r.id THEN "cancel" ELSE "loop"
    BY Zenon DEF Credit
  <2>3. pc' = "done" \/ pc' = (IF r.id THEN "cancel" ELSE "loop")
    BY <2>2, Zenon
  <2>4. (IF r.id THEN "cancel" ELSE "loop") # "done"
    OBVIOUS
  <2>5. pc' = "done" => r.status = "FILLED" \/ remaining' <= 0
    BY <2>2, <2>4, Zenon
  <2> QED
    BY <2>1, <2>3, <2>5
<1>4. pc' = "done" => ~(orders[Last].filled < orders[Last].size)
  BY <1>1, <1>3 DEF OrderType
<1>5. pc' = "done" => Last \notin Resting
  BY <1>1, <1>4 DEF RestInv, Resting
<1>6. Expects => Expects' \/ Last \notin Resting'
  <2>1. Expects => r.id /\ ~paper
    BY Zenon DEF Expects
  <2>2. pc' # "done" /\ r.id => pc' = "cancel"
    BY <1>3
  <2>3. Expects => pc' = "done" \/ Expects'
    BY <2>1, <2>2, Zenon DEF Expects
  <2> QED
    BY <1>2, <1>5, <2>3, Zenon
<1> QED
  BY <1>1, <1>2, <1>6, RestLess DEF RestInv

LEMMA NextRests == IInv /\ RestInv /\ [Next]_vars => RestInv'
<1> SUFFICES ASSUME IInv, RestInv, [Next]_vars
             PROVE  RestInv'
  OBVIOUS
<1>a. /\ TypeOK /\ Sound /\ mishaps \in Nat /\ mishaps >= mishaps
      /\ Last \in Nat /\ orders \in Seq(OrderType)
  BY DEF IInv, TypeOK, Last
<1>b. orders' = orders => Resting' = Resting /\ Last' = Last
  BY DEF Resting, Last
<1>c. ASSUME orders' = orders, mishaps' = mishaps, Expects => Expects'
      PROVE  RestInv'
  BY <1>a, <1>b, <1>c, RestLess DEF RestInv
<1>1. CASE Quote \/ QuoteFails \/ Exhausted
  <2>1. UNCHANGED <<orders, mishaps>> /\ ~Expects
    BY <1>1 DEF Quote, QuoteFails, Exhausted, Expects
  <2> QED
    BY <2>1, <1>c
<1>2. CASE PlacePaper
  <2> DEFINE o == Order(OrderSize, limit)
  <2>1. OrderSize \in Nat /\ limit \in Int
    BY <1>a DEF OrderSize, TypeOK
  <2>2. o \in OrderType /\ ~o.live
    <3>1. ~(OrderSize < OrderSize)
      BY <2>1
    <3> QED
      BY <2>1, <3>1, <1>a, OrderTyped DEF Order
  <2>3. orders' = Append(orders, o) /\ mishaps' = mishaps /\ pc = "place"
    BY <1>2 DEF PlacePaper
  <2> HIDE DEF o
  <2> QED
    BY <2>2, <2>3, RestAppend
<1>3. CASE Place
  <2>1. PICK n \in 0..OrderSize, p \in Prices \cup {limit} :
          /\ orders' = Append(orders, Order(n, p))
          /\ n = OrderSize => UNCHANGED mishaps
          /\ n # OrderSize =>
               /\ pc' = "poll"
               /\ \E r \in Reports(Order(n, p)) : Answer(Order(n, p), r) /\ known' = r
    BY <1>3, Zenon DEF Place
  <2> DEFINE o == Order(n, p)
  <2>2. n \in Nat /\ p \in Int /\ OrderSize \in Nat
    BY <1>a DEF OrderSize, TypeOK, Prices
  <2>3. o \in OrderType
    BY <2>2, <1>a, OrderTyped
  <2>4. o.live = (n < OrderSize) /\ o.filled = n /\ o.size = OrderSize
    BY DEF Order
  <2>5. orders' = Append(orders, o) /\ pc = "place" /\ ~paper'
    BY <1>3, <2>1, Zenon DEF Place
  <2>8. n # OrderSize => /\ pc' = "poll"
                         /\ \E r \in Reports(o) : Answer(o, r) /\ known' = r
    BY <2>1
  <2>9. Report(o).id
    BY DEF Report, Told
  <2> HIDE DEF o
  <2>6. (mishaps' = mishaps /\ (Expects' \/ ~o.live)) \/ mishaps' = mishaps + 1
    <3>1. CASE n = OrderSize
      <4>1. ~(n < OrderSize)
        BY <3>1, <2>2
      <4> QED
        BY <4>1, <2>1, <2>4, <3>1
    <3>2. CASE n # OrderSize
      <4>1. PICK r \in Reports(o) : Answer(o, r) /\ known' = r
        BY <2>8, <3>2
      <4>2. mishaps' = mishaps + 1 \/ (mishaps' = mishaps /\ r = Report(o))
        BY <4>1, <1>a, AnswerCounts
      <4>3. r = Report(o) => Expects'
        BY <2>5, <2>8, <2>9, <3>2, <4>1, Zenon DEF Expects
      <4> QED
        BY <4>2, <4>3, Zenon
    <3> QED
      BY <3>1, <3>2
  <2>7. o.live => o.filled < o.size
    BY <2>4
  <2> QED
    BY <2>3, <2>5, <2>6, <2>7, RestAppend
<1>4. CASE Poll
  <2>1. pc = "poll" /\ UNCHANGED <<orders, paper>> /\ Last > 0
    BY <1>4, <1>a DEF Poll, Sound
  <2>2. orders[Last] \in OrderType
    BY <2>1, <1>a DEF Last
  <2>3. CASE UNCHANGED <<pc, engine, mishaps>>
    <3>1. Expects => Expects'
      BY <2>1, <2>3, Zenon DEF Expects, engine
    <3> QED
      BY <2>1, <2>3, <3>1, <1>c
  <2>4. ASSUME known.id, NEW r \in Reports(orders[Last]), Answer(orders[Last], r),
               IF r.status = "LIVE"
               THEN known' = r
                    /\ UNCHANGED <<pc, side, attempts, remaining, total, wsum, limit>>
               ELSE Credit(r)
        PROVE  RestInv'
    <3>1. mishaps' = mishaps + 1 \/ (mishaps' = mishaps /\ r = Report(orders[Last]))
      BY <2>4, <1>a, AnswerCounts
    <3>2. CASE mishaps' = mishaps + 1
      BY <3>2, <2>1, RestMishap
    <3>3. CASE mishaps' = mishaps /\ r = Report(orders[Last])
      <4>1. r.filled = orders[Last].filled /\ r.filled \in Nat /\ r.filled <= r.filled
        BY <2>2, ReportTyped
      <4>2. r.id /\ (r.status = "FILLED" => orders[Last].filled = orders[Last].size)
        BY <3>3 DEF Report, Told
      <4>3. CASE r.status = "LIVE"
        <5>1. Expects => Expects'
          BY <2>1, <2>4, <4>2, <4>3, Zenon DEF Expects
        <5> QED
          BY <2>1, <3>3, <5>1, <1>c
      <4>4. CASE r.status # "LIVE"
        BY <2>1, <2>4, <3>3, <4>1, <4>2, <4>4, RestCredit
      <4> QED
        BY <4>3, <4>4
    <3> QED
      BY <3>1, <3>2, <3>3
  <2> QED
    BY <1>4, <2>3, <2>4, Zenon DEF Poll
<1>5. CASE Expire
  <2>1. pc = "poll" /\ Credit(known) /\ UNCHANGED <<orders, paper, mishaps>>
    BY <1>5 DEF Expire
  <2>2. known.filled \in Nat /\ known.filled <= orders[Last].filled /\ known.status = "LIVE"
    <3>1. known \in Kept
      BY <1>a DEF TypeOK, Kept
    <3> QED
      BY <2>1, <3>1, <1>a, KeptParts DEF Sound
  <2> QED
    BY <2>1, <2>2, RestCredit
<1>6. CASE Cancel
  <2>1. pc = "cancel" /\ pc' = "loop" /\ Last > 0 /\ UNCHANGED <<paper, mishaps>>
    BY <1>6, <1>a DEF Cancel, Sound
  <2>2. CASE paper
    <3>1. orders' = orders /\ ~Expects
      BY <1>6, <2>1, <2>2 DEF Cancel, Expects
    <3> QED
      BY <2>1, <3>1, <1>c
  <2>3. CASE ~paper
    <3>1. orders' = [orders EXCEPT ![Last].live = FALSE]
      BY <1>6, <2>3 DEF Cancel
    <3>2. orders[Last] \in OrderType
      BY <2>1, <1>a DEF Last
    <3>3. /\ Last' = Last /\ orders'[Last].live = FALSE
          /\ \A i \in 1..Last : i # Last => orders'[i] = orders[i]
      BY <3>1, <3>2, <2>1, <1>a DEF Last, OrderType
    <3>4. Resting' \subseteq Resting /\ Last \notin Resting'
      BY <3>3 DEF Resting
    <3>5. \A i \in 1..Last : orders'[i].live => orders'[i].filled < orders'[i].size
      BY <3>3 DEF RestInv
    <3> QED
      BY <2>1, <3>3, <3>4, <3>5, <1>a, RestLess
  <2> QED
    BY <2>2, <2>3
<1>7. CASE CancelFails \/ Flip
  <2>1. mishaps' = mishaps + 1 /\ orders' = orders
    BY <1>7 DEF CancelFails, Flip
  <2> QED
    BY <2>1, RestMishap
<1>8. CASE PlaceRaises
  <2>1. pc = "place" /\ pc' = "raised" /\ mishaps' = mishaps /\ Expects'
    BY <1>8 DEF PlaceRaises, Expects
  <2>2. CASE orders' = orders
    BY <2>1, <2>2, <1>c
  <2>3. CASE orders' = Append(orders, Order(0, limit))
    <3>1. Order(0, limit) \in OrderType
      BY <1>a, OrderTyped DEF TypeOK
    <3>2. Order(0, limit).live => Order(0, limit).filled < Order(0, limit).size
      BY DEF Order
    <3> QED
      BY <2>1, <2>3, <3>1, <3>2, RestAppend
  <2> QED
    BY <1>8, <2>2, <2>3 DEF PlaceRaises
<1>9. ASSUME NEW i \in 1..Last, Fill(i) \/ Drop(i)
      PROVE  RestInv'
  <2>1. orders[i] \in OrderType /\ orders[i].live
    BY <1>9, <1>a DEF Last, Fill, Drop
  <2>2. UNCHANGED <<pc, paper, mishaps, known>>
    BY <1>9 DEF Fill, Drop, engine
  <2>3. \E o \in OrderType : /\ orders' = [orders EXCEPT ![i] = o]
                             /\ o.live => o.filled < o.size
    <3>1. CASE Fill(i)
      <4>1. PICK n \in 1..(orders[i].size - orders[i].filled), p \in Prices :
              orders' = [orders EXCEPT ![i] = Traded(orders[i], n, p)]
        BY <3>1 DEF Fill
      <4>2. n \in Nat /\ p \in Int
        BY <2>1 DEF Prices, OrderType
      <4> DEFINE o == Traded(orders[i], n, p)
      <4>3. o \in OrderType /\ o.filled = orders[i].filled + n /\ o.size = orders[i].size
        BY <2>1, <4>2, TradedTyped
      <4>4. o.live = (orders[i].filled + n < orders[i].size)
        BY <2>1 DEF Traded, OrderType
      <4> HIDE DEF o
      <4>5. o.live => o.filled < o.size
        BY <4>3, <4>4
      <4> QED
        BY <4>1, <4>3, <4>5 DEF o
    <3>2. CASE Drop(i)
      <4> DEFINE o == [orders[i] EXCEPT !.live = FALSE]
      <4>1. o \in OrderType /\ ~o.live
        BY <2>1 DEF OrderType
      <4>2. orders' = [orders EXCEPT ![i] = o]
        BY <3>2 DEF Drop
      <4> HIDE DEF o
      <4> QED
        BY <4>1, <4>2
    <3> QED
      BY <1>9, <3>1, <3>2
  <2>4. PICK o \in OrderType : orders' = [orders EXCEPT ![i] = o] /\ (o.live => o.filled < o.size)
    BY <2>3
  <2>5. Last' = Last /\ orders'[i] = o /\ \A j \in 1..Last : j # i => orders'[j] = orders[j]
    BY <2>4, <1>a DEF Last
  <2>6. Resting' \subseteq Resting
    BY <2>1, <2>5 DEF Resting
  <2>7. \A j \in 1..Last : orders'[j].live => orders'[j].filled < orders'[j].size
    BY <2>4, <2>5 DEF RestInv
  <2>8. Expects => Expects'
    BY <2>2, Zenon DEF Expects
  <2> QED
    BY <2>2, <2>5, <2>6, <2>7, <2>8, <1>a, RestLess
<1>10. CASE UNCHANGED vars
  <2>1. UNCHANGED <<orders, mishaps, pc, known, paper>>
    BY <1>10 DEF vars, engine
  <2>2. Expects => Expects'
    BY <2>1, Zenon DEF Expects
  <2> QED
    BY <2>1, <2>2, <1>c
<1> QED
  BY <1>1, <1>2, <1>3, <1>4, <1>5, <1>6, <1>7, <1>8, <1>9, <1>10
     DEF Next, Engine, Fault, World, Over

LEMMA InitRests == Init => RestInv
<1> SUFFICES ASSUME Init PROVE RestInv
  OBVIOUS
<1>1. Last = 0 /\ mishaps = 0
  BY DEF Init, Last
<1>2. Resting = {} /\ Resting \ {Last} = {}
  BY <1>1 DEF Resting
<1>3. Cardinality(Resting) = 0 /\ Cardinality(Resting \ {Last}) = 0
  BY <1>2, FS_EmptySet
<1> QED
  BY <1>1, <1>3 DEF RestInv

\* Beside the order in hand nothing rests on the exchange but for mode changes, lost
\* cancels and answers without an id, one each, for any number of reposts.
THEOREM RestsHold == Spec => []OneOrderAtATime
<1>1. IInv /\ RestInv => OneOrderAtATime
  <2> SUFFICES ASSUME IInv, RestInv PROVE OneOrderAtATime
    OBVIOUS
  <2>1. TypeOK /\ mishaps \in Nat
    BY DEF IInv, TypeOK
  <2>2. pc \notin {"poll", "cancel", "raised"} => Cardinality(Resting) <= mishaps
    BY DEF RestInv, Expects
  <2>3. Cardinality(Resting) <= 1 + mishaps
    BY <2>1, RestCounts DEF RestInv
  <2> QED
    BY <2>1, <2>2, <2>3 DEF OneOrderAtATime, Resting
<1>2. Spec => []RestInv
  BY EngineSound, InitRests, NextRests, PTL DEF Spec
<1> QED
  BY <1>1, <1>2, EngineSound, PTL
----------------------------------------------------------------------------
(* The work left in a call.                                                *)

\* How many more steps of the engine there can be, polls of an order that is still
\* live aside.
Work == IF pc \in {"done", "raised"} THEN 0
        ELSE 4 * (MaxPlaces - attempts)
             + (IF pc = "loop" THEN 1 ELSE IF pc = "cancel" THEN 2
                ELSE IF pc = "poll" THEN 3 ELSE 4)

\* A step lowers the work left, or leaves execute where it is.
RunsDown == Work \in Nat /\ (Work' < Work \/ UNCHANGED <<pc, attempts>>)

LEMMA NextRunsDown == TypeOK /\ [Next]_vars => RunsDown
<1> SUFFICES ASSUME TypeOK, [Next]_vars PROVE RunsDown
  OBVIOUS
<1>1. /\ attempts \in Nat /\ attempts <= MaxPlaces /\ MaxPlaces \in Nat
      /\ pc \in {"loop", "place", "poll", "cancel", "done", "raised"}
  BY ExecutionAssumption DEF TypeOK
<1>2. Work \in Nat
  BY <1>1 DEF Work
<1>3. CASE Quote \/ QuoteFails
  <2>1. /\ pc = "loop" /\ attempts < MaxPlaces /\ attempts' = attempts + 1
        /\ pc' \in {"place", "done", "raised"}
    BY <1>3 DEF Quote, QuoteFails, More
  <2> QED
    BY <2>1, <1>1, <1>2 DEF Work, RunsDown
<1>4. CASE Exhausted
  <2>1. pc = "loop" /\ pc' = "done"
    BY <1>4 DEF Exhausted
  <2> QED
    BY <2>1, <1>1, <1>2 DEF Work, RunsDown
<1>5. CASE PlacePaper \/ Place \/ PlaceRaises
  <2>1. /\ pc = "place" /\ attempts' = attempts
        /\ pc' \in {"poll", "cancel", "loop", "done", "raised"}
    BY <1>5 DEF PlacePaper, Place, PlaceRaises, Credit, engine
  <2> QED
    BY <2>1, <1>1, <1>2 DEF Work, RunsDown
<1>6. CASE Poll \/ Expire
  <2>1. /\ pc = "poll" /\ attempts' = attempts
        /\ pc' = pc \/ pc' \in {"cancel", "loop", "done"}
    BY <1>6 DEF Poll, Expire, Credit, engine
  <2> QED
    BY <2>1, <1>1, <1>2 DEF Work, RunsDown
<1>7. CASE Cancel \/ CancelFails
  <2>1. pc = "cancel" /\ attempts' = attempts /\ pc' = "loop"
    BY <1>7 DEF Cancel, CancelFails, engine
  <2> QED
    BY <2>1, <1>1, <1>2 DEF Work, RunsDown
<1>8. CASE World \/ UNCHANGED vars
  <2>1. UNCHANGED <<pc, attempts>>
    BY <1>8 DEF World, Flip, Fill, Drop, vars, engine
  <2> QED
    BY <2>1, <1>2 DEF RunsDown
<1> QED
  BY <1>3, <1>4, <1>5, <1>6, <1>7, <1>8 DEF Next, Engine, Fault, Over

LEMMA WorkAtStart == Init => Work = 4 * MaxPlaces + 1
BY ExecutionAssumption DEF Init, Work

\* Every step runs the work down from what a call starts with: whatever the exchange
\* does, a call is over after 4 * MaxPlaces + 1 steps of the engine beside its polls
\* of a live order, which the time to live ends (execution_engine.py:189).
THEOREM CallRunsDown == Spec => Work = 4 * MaxPlaces + 1 /\ [][RunsDown]_vars
<1> QED
  BY TypesHold, NextRunsDown, WorkAtStart, PTL DEF Spec
=============================================================================
