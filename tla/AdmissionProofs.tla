-------------------------- MODULE AdmissionProofs ---------------------------
(***************************************************************************)
(* Admission for any traders, tokens, prices, caps and bounds: records and *)
(* cutoffs first (how far a drawdown can grow, who is cut off, who is      *)
(* never copied), then the money, which is sums over the positions and the *)
(* traders: types, gains, closes, the reserve and the caps.                *)
(***************************************************************************)
EXTENDS Admission, Sums, TLAPS, FiniteSetTheorems, SequenceTheorems

----------------------------------------------------------------------------
(* Least elements, and what a record keeps.                                *)

\* A finite set of integers that is not empty has a least element.
LEMMA LeastExists ==
  ASSUME NEW S, S \subseteq Int, IsFiniteSet(S), S # {}
  PROVE  \E x \in S : \A y \in S : x <= y
<1> DEFINE Bad == {T \in FiniteSubsetsOf(Int) : T # {} /\ ~ \E x \in T : \A y \in T : x <= y}
<1> SUFFICES ASSUME Bad # {} PROVE FALSE
  <2>1. S \in FiniteSubsetsOf(Int)
    BY DEF FiniteSubsetsOf
  <2> QED BY <2>1
<1>1. PICK T \in Bad : \A U \in Bad : ~(<<U, T>> \in StrictSubsetOrdering(Int))
  <2>1. IsWellFoundedOn(StrictSubsetOrdering(Int), FiniteSubsetsOf(Int))
    BY FS_StrictSubsetOrderingWellFounded
  <2>2. Bad \subseteq FiniteSubsetsOf(Int)
    OBVIOUS
  <2> HIDE DEF Bad
  <2> QED BY <2>1, <2>2, WFMin
<1>2. /\ T \subseteq Int /\ IsFiniteSet(T) /\ T # {}
      /\ ~ \E x \in T : \A y \in T : x <= y
  BY DEF FiniteSubsetsOf
<1>3. PICK a \in T : TRUE
  BY <1>2
<1> DEFINE U == T \ {a}
<1>4. U \subseteq Int /\ IsFiniteSet(U) /\ U \subseteq T /\ U # T
  BY <1>2, <1>3, FS_RemoveElement
<1>5. U # {}
  BY <1>2, <1>3
<1>6. <<U, T>> \in StrictSubsetOrdering(Int)
  BY <1>2, <1>4 DEF StrictSubsetOrdering
<1>7. PICK m \in U : \A y \in U : m <= y
  <2>1. U \notin Bad
    BY <1>1, <1>6
  <2> QED BY <2>1, <1>4, <1>5 DEF FiniteSubsetsOf
<1>8. a \in Int /\ m \in Int /\ m \in T /\ \A y \in T : y = a \/ m <= y
  BY <1>2, <1>3, <1>4, <1>7
<1>9. CASE a <= m
  BY <1>2, <1>8, <1>9
<1>10. CASE ~(a <= m)
  BY <1>2, <1>8, <1>10
<1> QED BY <1>8, <1>9, <1>10

\* The largest of two and of three integers.
LEMMA MaxOfTwo ==
  ASSUME NEW a \in Int, NEW b \in Int
  PROVE  /\ Max({a, b}) \in {a, b}
         /\ Max({a, b}) >= a /\ Max({a, b}) >= b
<1>1. \E x \in {a, b} : \A y \in {a, b} : x >= y
  <2>1. CASE a >= b
    BY <2>1
  <2>2. CASE ~(a >= b)
    BY <2>2
  <2> QED BY <2>1, <2>2
<1>2. Max({a, b}) \in {a, b} /\ \A y \in {a, b} : Max({a, b}) >= y
  BY <1>1 DEF Max
<1> QED BY <1>2

LEMMA MaxOfThree ==
  ASSUME NEW a \in Int, NEW b \in Int, NEW c \in Int
  PROVE  /\ Max({a, b, c}) \in {a, b, c}
         /\ Max({a, b, c}) >= a /\ Max({a, b, c}) >= b /\ Max({a, b, c}) >= c
<1>1. \E x \in {a, b, c} : \A y \in {a, b, c} : x >= y
  <2>1. CASE a >= b /\ a >= c
    BY <2>1
  <2>2. CASE b >= a /\ b >= c
    BY <2>2
  <2>3. CASE c >= a /\ c >= b
    BY <2>3
  <2> QED BY <2>1, <2>2, <2>3
<1>2. Max({a, b, c}) \in {a, b, c} /\ \A y \in {a, b, c} : Max({a, b, c}) >= y
  BY <1>1 DEF Max
<1> QED BY <1>2

\* The trough of a curve is none of its points' better.
LEMMA TroughBelow ==
  ASSUME NEW curve \in Seq(Int)
  PROVE  Trough(curve) \in Int /\ \A i \in DOMAIN curve : Trough(curve) <= curve[i]
<1> DEFINE S == {curve[i] : i \in DOMAIN curve} \cup {0}
<1>1. DOMAIN curve = 1..Len(curve) /\ Len(curve) \in Nat
  BY LenProperties
<1>2. IsFiniteSet({curve[i] : i \in DOMAIN curve})
  <2>1. IsFiniteSet(DOMAIN curve)
    BY <1>1, FS_Interval
  <2>2. curve \in Surjection(DOMAIN curve, {curve[i] : i \in DOMAIN curve})
    <3>1. curve \in [1..Len(curve) -> Int]
      BY LenProperties
    <3> QED BY <1>1, <3>1 DEF Surjection
  <2> QED BY <2>1, <2>2, FS_Surjection
<1>3. S \subseteq Int /\ IsFiniteSet(S) /\ S # {}
  <2>1. \A i \in DOMAIN curve : curve[i] \in Int
    BY <1>1, ElementOfSeq
  <2>2. IsFiniteSet(S)
    BY <1>2, FS_AddElement
  <2> QED BY <2>1, <2>2
<1>4. \E x \in S : \A y \in S : x <= y
  <2> HIDE DEF S
  <2> QED BY <1>3, LeastExists
<1>5. Min(S) \in S /\ \A y \in S : Min(S) <= y
  BY <1>4 DEF Min
<1>6. Trough(curve) = Min(S)
  BY DEF Trough
<1> QED BY <1>3, <1>5, <1>6

\* A curve that lost its oldest point still ends with the newest.
LEMMA CappedKeeps ==
  ASSUME NEW curve \in Seq(Int), NEW e \in Int
  PROVE  LET c == Capped(Append(curve, e))
         IN  c \in Seq(Int) /\ \E i \in DOMAIN c : c[i] = e
<1> DEFINE a == Append(curve, e)
<1>1. /\ a \in Seq(Int) /\ Len(a) = Len(curve) + 1 /\ a[Len(a)] = e
      /\ Len(curve) \in Nat /\ DOMAIN a = 1..Len(a) /\ a # <<>>
  BY AppendProperties, LenProperties, EmptySeq
<1>2. CASE Len(a) <= CurveSize
  <2>1. Capped(a) = a /\ Len(a) \in DOMAIN a
    BY <1>1, <1>2 DEF Capped
  <2> QED BY <1>1, <2>1
<1>3. CASE ~(Len(a) <= CurveSize)
  <2>1. Capped(a) = Tail(a)
    BY <1>3 DEF Capped
  <2>2. Len(a) - 1 \in Nat \ {0}
    BY <1>1, <1>3, RecordAssumption
  <2>3. /\ Tail(a) \in Seq(Int) /\ Len(Tail(a)) = Len(a) - 1
        /\ \A i \in 1..Len(Tail(a)) : Tail(a)[i] = a[i + 1]
    BY <1>1, HeadTailProperties
  <2>4. Len(a) - 1 \in DOMAIN Tail(a) /\ Tail(a)[Len(a) - 1] = e
    <3>1. Len(a) - 1 \in 1..Len(Tail(a)) /\ (Len(a) - 1) + 1 = Len(a)
      BY <1>1, <2>2, <2>3
    <3>2. DOMAIN Tail(a) = 1..Len(Tail(a))
      BY <2>3, LenProperties
    <3> QED BY <1>1, <2>3, <3>1, <3>2
  <2> QED BY <2>1, <2>3, <2>4
<1> QED BY <1>2, <1>3

\* A fall from the peak against the widest of the peak, the trough and a unit.
LEMMA FallBounded ==
  ASSUME NEW peak \in Nat, NEW equity \in Int, equity <= peak,
         NEW trough \in Int, trough <= equity
  PROVE  LET low == Max({peak, -trough, Unit})
         IN  /\ low \in Nat \ {0} /\ peak - equity \in Nat
             /\ peak - equity <= 2 * low
             /\ peak = 0 => peak - equity <= low
<1> DEFINE low == Max({peak, -trough, Unit})
<1>1. -trough \in Int /\ Unit \in Nat \ {0} /\ Unit \in Int /\ peak \in Int
  BY RecordAssumption
<1>2. low \in {peak, -trough, Unit} /\ low >= peak /\ low >= -trough /\ low >= Unit
  BY <1>1, MaxOfThree
<1> HIDE DEF low
<1>3. low \in Int
  BY <1>1, <1>2
<1> QED
  <2>1. low \in Nat \ {0} /\ peak - equity \in Nat
    BY <1>1, <1>2, <1>3
  <2>2. peak - equity <= 2 * low
    BY <1>1, <1>2, <1>3
  <2>3. peak = 0 => peak - equity <= low
    BY <1>1, <1>2, <1>3
  <2> QED BY <2>1, <2>2, <2>3 DEF low

\* The bound, with what it rests on: who never won has never been above zero.
Bounded(s) ==
  /\ s \in RecordType
  /\ s.drawdown[1] <= 2 * s.drawdown[2]
  /\ s.wins = 0 => s.drawdown[1] <= s.drawdown[2] /\ s.pnl <= 0 /\ s.peak = 0

LEMMA FreshBounded == Bounded(Fresh)
BY EmptySeq DEF Bounded, Fresh, RecordType

\* A close keeps the bound.
LEMMA RecordBounded ==
  ASSUME NEW s, Bounded(s), NEW pnl \in Int
  PROVE  Bounded(RecordClose(s, pnl))
<1> DEFINE equity == s.pnl + pnl
           curve  == Capped(Append(s.curve, equity))
           peak   == Max({s.peak, equity})
           won    == IF pnl > 0 THEN 1 ELSE 0
           low    == Max({peak, -Trough(curve), Unit})
           r      == RecordClose(s, pnl)
<1>1. /\ s \in RecordType /\ equity \in Int /\ s.peak \in Nat /\ s.curve \in Seq(Int)
      /\ s.pnl \in Int /\ s.wins \in Nat /\ s.drawdown \in Nat \X (Nat \ {0})
      /\ s.trades \in Nat /\ s.losses \in Nat /\ s.streak \in Nat
  BY DEF Bounded, RecordType
<1>2. curve \in Seq(Int) /\ \E i \in DOMAIN curve : curve[i] = equity
  BY <1>1, CappedKeeps
<1>3. Trough(curve) \in Int /\ Trough(curve) <= equity
  <2> HIDE DEF curve, equity
  <2> QED BY <1>2, TroughBelow
<1>4. peak \in Nat /\ peak >= equity /\ (peak = s.peak \/ peak = equity)
  <2>1. s.peak \in Int
    BY <1>1
  <2> HIDE DEF equity
  <2>2. peak \in {s.peak, equity} /\ peak >= s.peak /\ peak >= equity
    BY <1>1, <2>1, MaxOfTwo
  <2> HIDE DEF peak
  <2> QED BY <1>1, <2>1, <2>2
<1>5. /\ low \in Nat \ {0} /\ peak - equity \in Nat /\ peak - equity <= 2 * low
      /\ peak = 0 => peak - equity <= low
  <2> HIDE DEF equity, peak, curve
  <2> QED BY <1>1, <1>3, <1>4, FallBounded
<1>6. /\ r.trades = s.trades + 1 /\ r.wins = s.wins + won /\ r.losses = s.losses + 1 - won
      /\ r.streak = (IF pnl > 0 THEN 0 ELSE s.streak + 1)
      /\ r.pnl = equity /\ r.curve = curve /\ r.peak = peak
      /\ r.drawdown = Larger(s.drawdown, <<peak - equity, low>>)
      /\ r \in [trades : {r.trades}, wins : {r.wins}, losses : {r.losses},
                streak : {r.streak}, pnl : {r.pnl}, curve : {r.curve}, peak : {r.peak},
                drawdown : {r.drawdown}]
  BY DEF RecordClose, Fall
<1>7. r.drawdown = s.drawdown \/ r.drawdown = <<peak - equity, low>>
  BY <1>6 DEF Larger
<1> HIDE DEF low, curve, peak, r
<1>9. r.drawdown \in Nat \X (Nat \ {0}) /\ r.drawdown[1] <= 2 * r.drawdown[2]
  <2>1. CASE r.drawdown = s.drawdown
    BY <1>1, <2>1 DEF Bounded
  <2>2. CASE r.drawdown = <<peak - equity, low>>
    BY <1>5, <2>2
  <2> QED BY <1>7, <2>1, <2>2
<1>10. r \in RecordType
  <2>1. won \in {0, 1} /\ r.streak \in Nat
    BY <1>1, <1>6
  <2>2. r.losses \in Nat
    <3>1. 1 - won \in {0, 1} /\ s.losses + 1 - won = s.losses + (1 - won)
      BY <1>1
    <3> QED BY <1>1, <1>6, <3>1
  <2> HIDE DEF equity, won
  <2>3. r.trades \in Nat /\ r.wins \in Nat
    BY <1>1, <1>6, <2>1
  <2>4. r.pnl \in Int /\ r.curve \in Seq(Int) /\ r.peak \in Nat
    BY <1>1, <1>2, <1>4, <1>6
  <2> QED BY <1>6, <1>9, <2>1, <2>2, <2>3, <2>4 DEF RecordType
<1>11. ASSUME r.wins = 0
       PROVE  r.drawdown[1] <= r.drawdown[2] /\ r.pnl <= 0 /\ r.peak = 0
  <2>1. s.wins = 0 /\ ~(pnl > 0)
    BY <1>1, <1>6, <1>11
  <2>2. s.drawdown[1] <= s.drawdown[2] /\ s.pnl <= 0 /\ s.peak = 0
    BY <2>1 DEF Bounded
  <2>3. equity <= 0 /\ peak = 0
    BY <1>1, <1>4, <2>1, <2>2
  <2>4. peak - equity <= low
    BY <1>5, <2>3
  <2> QED BY <1>6, <1>7, <2>2, <2>3, <2>4
<1> HIDE DEF equity
<1>12. r = RecordClose(s, pnl)
  BY DEF r
<1> QED BY <1>9, <1>10, <1>11, <1>12 DEF Bounded

----------------------------------------------------------------------------
(* Drawdowns.                                                              *)

\* Sells carry what their positions gained, positions belong to traders, and every
\* record, in memory and in the store, is bounded.
SellType == [step : {"closed", "recorded", "judged"}, id : Ids, who : Wallets, pnl : Int]

BooksInv ==
  /\ pos \in [Ids -> [who : Wallets, tok : Tokens, price : Nat, size : Nat, pnl : Int]]
  /\ disk \in [Ids -> [who : Wallets, tok : Tokens, price : Nat, size : Nat, pnl : Int]]
  /\ buy = Idle \/ (buy.who \in Wallets /\ buy.tok \in Tokens)
  /\ sell = Idle \/ sell \in SellType
  /\ record \in [Wallets -> RecordType] /\ rows \in [Wallets -> RecordType]
  /\ \A w \in Wallets : Bounded(record[w]) /\ Bounded(rows[w])

LEMMA NoPositionTyped ==
  NoPosition \in [who : Wallets, tok : Tokens, price : Nat, size : Nat, pnl : Int]
<1>1. (CHOOSE w \in Wallets : TRUE) \in Wallets /\ (CHOOSE t \in Tokens : TRUE) \in Tokens
  BY AdmissionAssumption
<1> QED BY <1>1 DEF NoPosition

LEMMA IdleStep == Idle.step = "idle"
BY DEF Idle

LEMMA BooksInit == Init => BooksInv
<1> SUFFICES ASSUME Init PROVE BooksInv
  OBVIOUS
<1>1. \A w \in Wallets : Bounded(was[w])
  <2> SUFFICES ASSUME NEW w \in Wallets PROVE Bounded(was[w])
    OBVIOUS
  <2>1. was[w] = Fresh \/ \E g \in Pasts : was[w] = RecordClose(Fresh, g)
    BY DEF Init
  <2>2. Pasts \subseteq Int
    BY AdmissionAssumption
  <2> QED BY <2>1, <2>2, FreshBounded, RecordBounded
<1>2. was \in [Wallets -> RecordType] /\ record = was /\ rows = was
  BY <1>1 DEF Init, Bounded
<1>3. disk = pos
  BY DEF Init
<1> QED BY <1>1, <1>2, <1>3, NoPositionTyped DEF Init, BooksInv

LEMMA BooksStep == BooksInv /\ [Next]_vars => BooksInv'
<1> SUFFICES ASSUME BooksInv, [Next]_vars PROVE BooksInv'
  OBVIOUS
<1> USE DEF money, stats, limit, tasks, count, SellType
<1>a. /\ pos \in [Ids -> [who : Wallets, tok : Tokens, price : Nat, size : Nat, pnl : Int]]
      /\ disk \in [Ids -> [who : Wallets, tok : Tokens, price : Nat, size : Nat, pnl : Int]]
      /\ buy = Idle \/ (buy.who \in Wallets /\ buy.tok \in Tokens)
      /\ sell = Idle \/ sell \in SellType
      /\ record \in [Wallets -> RecordType] /\ rows \in [Wallets -> RecordType]
      /\ \A w \in Wallets : Bounded(record[w]) /\ Bounded(rows[w])
  BY DEF BooksInv
<1>b. Idle.step = "idle"
  BY DEF Idle
<1>c. Prices \subseteq Nat /\ MaxShares \in Nat
  BY AdmissionAssumption
<1>1. ASSUME NEW w \in Wallets, NEW t \in Tokens, NEW px \in Prices, NEW ask \in Prices,
             NEW n \in 1..MaxShares, Admit(w, t, px, ask, n)
      PROVE  BooksInv'
  <2>1. buy'.who = w /\ buy'.tok = t
    BY <1>1 DEF Admit
  <2>2. UNCHANGED <<pos, disk, record, rows, sell>>
    BY <1>1 DEF Admit
  <2> QED BY <1>a, <2>1, <2>2 DEF BooksInv
<1>2. CASE NotFilled
  BY <1>a, <1>2 DEF NotFilled, BooksInv
<1>3. ASSUME NEW k \in 1..MaxShares, NEW p \in Prices, Open(k, p)
      PROVE  BooksInv'
  <2> DEFINE row == [who |-> buy.who, tok |-> buy.tok, price |-> p, size |-> k, pnl |-> 0]
  <2>1. PICK i \in Free : pos' = [pos EXCEPT ![i] = row] /\ Upsert(i, pos'[i])
    BY <1>3 DEF Open
  <2>2. buy.who \in Wallets /\ buy.tok \in Tokens /\ p \in Nat /\ k \in Nat
    BY <1>a, <1>c, <1>3 DEF Open
  <2>3. pos' \in [Ids -> [who : Wallets, tok : Tokens, price : Nat, size : Nat, pnl : Int]]
        /\ disk' \in [Ids -> [who : Wallets, tok : Tokens, price : Nat, size : Nat, pnl : Int]]
    <3>1. row \in [who : Wallets, tok : Tokens, price : Nat, size : Nat, pnl : Int]
      BY <2>2
    <3> HIDE DEF row
    <3>2. pos'[i] = row /\ i \in Ids
      BY <1>a, <2>1 DEF Free
    <3> QED BY <1>a, <2>1, <3>1, <3>2 DEF Upsert
  <2>4. buy' = Idle /\ UNCHANGED <<record, rows, sell>>
    BY <1>3 DEF Open
  <2> QED BY <1>a, <2>3, <2>4 DEF BooksInv
<1>4. ASSUME NEW i \in Ids, NEW n \in 1..MaxShares, NEW p \in Prices, Close(i, n, p)
      PROVE  BooksInv'
  <2> DEFINE gain == (p - pos[i].price) * n
             left == [pos[i] EXCEPT !.size = @ - n, !.pnl = @ + gain]
  <2>1. /\ n <= pos[i].size
        /\ UNCHANGED <<buy, record, rows>>
        /\ IF left.size = 0
           THEN /\ pos' = [pos EXCEPT ![i] = NoPosition]
                /\ sell' = [step |-> "closed", id |-> i, who |-> left.who, pnl |-> left.pnl]
                /\ UNCHANGED disk
           ELSE pos' = [pos EXCEPT ![i] = left] /\ Upsert(i, left) /\ UNCHANGED sell
    BY <1>4 DEF Close
  <2>2. pos[i] \in [who : Wallets, tok : Tokens, price : Nat, size : Nat, pnl : Int]
    BY <1>a
  <2>3. gain \in Int
    <3>1. p - pos[i].price \in Int /\ n \in Int
      BY <1>c, <2>2
    <3> QED BY <3>1
  <2>4. left \in [who : Wallets, tok : Tokens, price : Nat, size : Nat, pnl : Int]
    <3> HIDE DEF gain
    <3>1. pos[i].size - n \in Nat /\ pos[i].pnl + gain \in Int
      BY <1>c, <2>1, <2>2, <2>3
    <3> QED BY <2>2, <3>1
  <2> HIDE DEF left, gain
  <2>5. pos' \in [Ids -> [who : Wallets, tok : Tokens, price : Nat, size : Nat, pnl : Int]]
        /\ disk' \in [Ids -> [who : Wallets, tok : Tokens, price : Nat, size : Nat, pnl : Int]]
    BY <1>a, <2>1, <2>4, NoPositionTyped DEF Upsert
  <2>6. sell' = sell \/ sell' \in SellType
    BY <2>1, <2>4
  <2> QED BY <1>a, <2>1, <2>5, <2>6 DEF BooksInv
<1>5. CASE Record
  <2>1. sell \in SellType
    BY <1>a, <1>b, <1>5 DEF Record
  <2> DEFINE r == RecordClose(record[sell.who], sell.pnl)
  <2>2. Bounded(r)
    BY <1>a, <2>1, RecordBounded
  <2>3. record' = [record EXCEPT ![sell.who] = r]
    BY <1>5 DEF Record
  <2> HIDE DEF r
  <2>4. record' \in [Wallets -> RecordType] /\ \A w \in Wallets : Bounded(record'[w])
    BY <1>a, <2>1, <2>2, <2>3 DEF Bounded
  <2>5. UNCHANGED <<pos, buy, rows>> /\ sell' = [sell EXCEPT !.step = "recorded"]
        /\ disk' = [disk EXCEPT ![sell.id] = NoPosition]
    BY <1>5 DEF Record
  <2>6. disk' \in [Ids -> [who : Wallets, tok : Tokens, price : Nat, size : Nat, pnl : Int]]
    BY <1>a, <2>5, NoPositionTyped
  <2> QED BY <1>a, <2>1, <2>4, <2>5, <2>6 DEF BooksInv
<1>6. CASE Save
  <2>1. sell \in SellType
    BY <1>a, <1>b, <1>6 DEF Save
  <2>2. /\ UNCHANGED <<pos, disk, buy, record>>
        /\ rows' = [rows EXCEPT ![sell.who] = record[sell.who]]
        /\ sell' = Idle \/ sell' = [sell EXCEPT !.step = "judged"]
    BY <1>6 DEF Save
  <2>3. rows' \in [Wallets -> RecordType] /\ \A w \in Wallets : Bounded(rows'[w])
    BY <1>a, <2>1, <2>2
  <2> QED BY <1>a, <2>1, <2>2, <2>3 DEF BooksInv
<1>7. CASE CutOff \/ CloseFails
  BY <1>a, <1>7 DEF CutOff, CloseFails, BooksInv
<1>8. CASE Restart
  BY <1>a, <1>8 DEF Restart, BooksInv
<1>9. ASSUME NEW w \in Wallets, Uncutoff(w)
      PROVE  BooksInv'
  BY <1>a, <1>9 DEF Uncutoff, BooksInv
<1>10. CASE UNCHANGED vars
  BY <1>a, <1>10 DEF vars, BooksInv
<1> QED
  BY <1>1, <1>2, <1>3, <1>4, <1>5, <1>6, <1>7, <1>8, <1>9, <1>10
  DEF Next, EntryTask, ExitTask

LEMMA BooksAlways == Spec => []BooksInv
BY BooksInit, BooksStep, PTL DEF Spec

\* Whatever the prices, the closes, the restarts and the length kept of a curve, a
\* drawdown is at most twice its base, and at most the whole for who never won.
THEOREM DrawdownHolds == Spec => []DrawdownBounded
<1>1. BooksInv => DrawdownBounded
  BY DEF BooksInv, Bounded, DrawdownBounded
<1> QED BY <1>1, BooksAlways, PTL

----------------------------------------------------------------------------
(* Cutoffs.                                                                *)

\* The close in hand whose trader is about to be cut off, if there is one.
Judged(w) == sell # Idle /\ sell.step = "judged" /\ sell.who = w

\* Traders over a limit whom nothing but a fault kept in.
Missed == {w \in Wallets \ (cut \cup restored) :
             rows[w] # was[w] /\ OverLimit(rows[w]) /\ ~Judged(w)}

MissInv == crashes \in Nat /\ misses \in Nat /\ Cardinality(Missed) <= crashes + misses

LEMMA MissedFinite ==
  /\ IsFiniteSet(Missed) /\ Cardinality(Missed) \in Nat
  /\ \A w : IsFiniteSet(Missed \cup {w})
            /\ Cardinality(Missed \cup {w}) <= Cardinality(Missed) + 1
<1>1. IsFiniteSet(Missed)
  BY AdmissionAssumption, FS_Subset DEF Missed
<1> QED BY <1>1, FS_CardinalityType, FS_AddElement

\* A step that misses nobody else, and one that loses a close to a fault.
LEMMA MissesNobody ==
  ASSUME MissInv, Missed' \subseteq Missed, crashes' = crashes, misses' \in {misses, misses + 1}
  PROVE  MissInv'
<1>1. /\ IsFiniteSet(Missed) /\ Cardinality(Missed) \in Nat
      /\ crashes \in Nat /\ misses \in Nat /\ Cardinality(Missed) <= crashes + misses
  BY MissedFinite DEF MissInv
<1>2. IsFiniteSet(Missed') /\ Cardinality(Missed') <= Cardinality(Missed)
  BY <1>1, FS_Subset
<1>3. Cardinality(Missed') \in Nat
  BY <1>2, FS_CardinalityType
<1> QED BY <1>1, <1>2, <1>3 DEF MissInv

LEMMA MissesOne ==
  ASSUME MissInv, NEW w, Missed' \subseteq Missed \cup {w},
         crashes' \in Nat, misses' \in Nat, crashes' + misses' = crashes + misses + 1
  PROVE  MissInv'
<1>1. /\ IsFiniteSet(Missed \cup {w}) /\ Cardinality(Missed) \in Nat
      /\ Cardinality(Missed \cup {w}) <= Cardinality(Missed) + 1
      /\ crashes \in Nat /\ misses \in Nat /\ Cardinality(Missed) <= crashes + misses
  BY MissedFinite DEF MissInv
<1>2. IsFiniteSet(Missed') /\ Cardinality(Missed') <= Cardinality(Missed \cup {w})
  BY <1>1, FS_Subset
<1>3. Cardinality(Missed') \in Nat /\ Cardinality(Missed \cup {w}) \in Nat
  BY <1>1, <1>2, FS_CardinalityType
<1>4. Cardinality(Missed') <= crashes + misses + 1
  BY <1>1, <1>2, <1>3
<1>5. Cardinality(Missed') <= crashes' + misses'
  BY <1>4
<1> QED BY <1>5 DEF MissInv

LEMMA MissInit == Init => MissInv
<1> SUFFICES ASSUME Init PROVE MissInv
  OBVIOUS
<1>1. rows = was
  BY DEF Init
<1>2. Missed = {}
  BY <1>1 DEF Missed
<1>3. Cardinality(Missed) = 0
  BY <1>2, FS_EmptySet
<1>4. crashes = 0 /\ misses = 0
  BY DEF Init
<1> QED BY <1>3, <1>4 DEF MissInv

LEMMA MissStep == BooksInv /\ MissInv /\ [Next]_vars => MissInv'
<1> SUFFICES ASSUME BooksInv, MissInv, [Next]_vars PROVE MissInv'
  OBVIOUS
<1> USE DEF money, stats, limit, tasks, count, SellType
<1>a. /\ sell = Idle \/ sell \in SellType
      /\ rows \in [Wallets -> RecordType] /\ crashes \in Nat /\ misses \in Nat
  BY DEF BooksInv, MissInv
<1>b. Idle.step = "idle"
  BY DEF Idle
<1>c. UNCHANGED <<rows, was, cut, restored, sell, crashes, misses>> => MissInv'
  <2> HAVE UNCHANGED <<rows, was, cut, restored, sell, crashes, misses>>
  <2>1. Missed' = Missed
    BY DEF Missed, Judged
  <2> QED BY <2>1, MissesNobody
<1>1. CASE \E i \in Ids, n \in 1..MaxShares, p \in Prices : Close(i, n, p)
  <2>1. PICK i \in Ids, n \in 1..MaxShares, p \in Prices : Close(i, n, p)
    BY <1>1
  <2>2. /\ UNCHANGED <<rows, was, cut, restored, crashes>> /\ sell = Idle
        /\ misses' \in {misses, misses + 1}
    BY <2>1 DEF Close, Upsert
  <2>3. Missed' \subseteq Missed
    BY <2>2 DEF Missed, Judged
  <2> QED BY <2>2, <2>3, MissesNobody
<1>2. CASE Record
  <2>1. /\ UNCHANGED <<rows, was, cut, restored, crashes, misses>>
        /\ sell.step = "closed"
    BY <1>2 DEF Record
  <2>2. Missed' \subseteq Missed
    BY <2>1 DEF Missed, Judged
  <2> QED BY <2>1, <2>2, MissesNobody
<1>3. CASE Save
  <2>1. /\ UNCHANGED <<was, cut, crashes, misses>>
        /\ sell.step = "recorded"
        /\ rows' = [rows EXCEPT ![sell.who] = record[sell.who]]
        /\ restored' = restored \ {sell.who}
        /\ sell' = IF OverLimit(record[sell.who]) THEN [sell EXCEPT !.step = "judged"] ELSE Idle
    BY <1>3 DEF Save
  <2>2. sell \in SellType
    BY <1>a, <1>b, <2>1
  <2>3. sell.who \notin Missed'
    <3>1. rows'[sell.who] = record[sell.who]
      BY <1>a, <2>1, <2>2
    <3>2. CASE OverLimit(record[sell.who])
      <4>1. sell' = [sell EXCEPT !.step = "judged"]
        BY <2>1, <3>2
      <4>2. sell'.step = "judged" /\ sell'.who = sell.who
        BY <2>2, <4>1
      <4> QED BY <1>b, <4>2 DEF Missed, Judged
    <3>3. CASE ~OverLimit(record[sell.who])
      BY <3>1, <3>3 DEF Missed
    <3> QED BY <3>2, <3>3
  <2>4. \A w \in Wallets \ {sell.who} : rows'[w] = rows[w] /\ ~Judged(w)
    BY <1>a, <2>1, <2>2 DEF Judged
  <2>5. Missed' \subseteq Missed
    BY <2>1, <2>3, <2>4 DEF Missed
  <2> QED BY <2>1, <2>5, MissesNobody
<1>4. CASE CutOff
  <2>1. /\ UNCHANGED <<rows, was, restored, crashes, misses>>
        /\ cut' = cut \cup {sell.who}
    BY <1>4 DEF CutOff
  <2>2. Missed' \subseteq Missed
    BY <2>1 DEF Missed, Judged
  <2> QED BY <2>1, <2>2, MissesNobody
<1>5. CASE CloseFails
  <2>1. /\ UNCHANGED <<rows, was, cut, restored, crashes>> /\ misses' = misses + 1
    BY <1>5 DEF CloseFails
  <2>2. Missed' \subseteq Missed \cup {sell.who}
    BY <2>1 DEF Missed, Judged
  <2> QED BY <1>a, <2>1, <2>2, MissesOne
<1>6. CASE Restart
  <2>1. /\ UNCHANGED <<rows, was, cut, restored, misses>> /\ crashes' = crashes + 1
    BY <1>6 DEF Restart
  <2>2. Missed' \subseteq Missed \cup {sell.who}
    BY <2>1 DEF Missed, Judged
  <2> QED BY <1>a, <2>1, <2>2, MissesOne
<1>7. CASE \E w \in Wallets : Uncutoff(w)
  <2>1. PICK w \in Wallets : Uncutoff(w)
    BY <1>7
  <2>2. /\ UNCHANGED <<rows, was, sell, crashes, misses>>
        /\ cut' = cut \ {w} /\ restored' = restored \cup {w}
    BY <2>1 DEF Uncutoff
  <2>3. Missed' \subseteq Missed
    BY <2>2 DEF Missed, Judged
  <2> QED BY <2>2, <2>3, MissesNobody
<1>8. CASE UNCHANGED <<rows, was, cut, restored, sell, crashes, misses>>
  BY <1>8, <1>c
<1>9. CASE EntryTask
  <2>1. UNCHANGED <<rows, was, cut, restored, sell, crashes>> /\ misses' \in {misses, misses + 1}
    BY <1>9 DEF EntryTask, Admit, NotFilled, Open, Upsert
  <2>2. Missed' = Missed
    BY <2>1 DEF Missed, Judged
  <2> QED BY <2>1, <2>2, MissesNobody
<1> QED
  BY <1>1, <1>2, <1>3, <1>4, <1>5, <1>6, <1>7, <1>8, <1>9 DEF Next, ExitTask, vars

\* However many traders, closes, restores and faults, each fault keeps in at most
\* one trader whose saved record is over its limits.
THEOREM CutoffHolds == Spec => []OverLimitIsOut
<1>1. MissInv => OverLimitIsOut
  BY DEF MissInv, Missed, Judged, OverLimitIsOut
<1>2. BooksInv /\ MissInv /\ [Next]_vars => MissInv'
  BY MissStep
<1> QED BY <1>1, <1>2, MissInit, BooksAlways, PTL DEF Spec

----------------------------------------------------------------------------
(* A drawdown never shrinks.                                               *)

\* A fraction that is over a percentage stays over it when it grows.
LEMMA FractionOver ==
  ASSUME NEW a \in Nat, NEW b \in Nat \ {0}, NEW c \in Nat, NEW d \in Nat \ {0},
         NEW pct \in Nat, 100 * a >= pct * b, c * b > a * d
  PROVE  100 * c >= pct * d
<1> SUFFICES ASSUME 100 * c < pct * d PROVE FALSE
  <2>1. 100 * c \in Int /\ pct * d \in Int
    OBVIOUS
  <2> QED BY <2>1
<1>1. \A x, y \in Nat : x * y \in Nat
  OBVIOUS
<1>2. \A x, y \in Nat \ {0} : x * y \in Nat \ {0}
  OBVIOUS
<1>3. pct * d - 100 * c \in Nat \ {0}
  OBVIOUS
<1>4. 100 * a - pct * b \in Nat
  OBVIOUS
<1>5. (pct * d - 100 * c) * b \in Nat \ {0}
  BY <1>2, <1>3
<1>6. (100 * a - pct * b) * d \in Nat
  BY <1>1, <1>4
<1>7. /\ (pct * d - 100 * c) * b = pct * d * b - 100 * (c * b)
      /\ (100 * a - pct * b) * d = 100 * (a * d) - pct * d * b
  OBVIOUS
<1>8. a * d \in Nat /\ c * b \in Nat /\ pct * d * b \in Nat
  BY <1>1
<1> QED BY <1>5, <1>6, <1>7, <1>8

\* A close, a winning one included, leaves a drawdown over the limit where it is.
LEMMA DrawnStays ==
  ASSUME NEW s, Bounded(s), NEW pnl \in Int, DrawnDown(s)
  PROVE  DrawnDown(RecordClose(s, pnl))
<1> DEFINE r == RecordClose(s, pnl)
<1>1. s.drawdown \in Nat \X (Nat \ {0}) /\ r.drawdown \in Nat \X (Nat \ {0})
  BY RecordBounded DEF Bounded, RecordType
<1>2. PICK g : r.drawdown = Larger(s.drawdown, g)
  BY DEF RecordClose
<1> HIDE DEF r
<1>3. CASE r.drawdown = s.drawdown
  BY <1>3 DEF DrawnDown, r
<1>4. CASE r.drawdown # s.drawdown
  <2>1. r.drawdown[1] * s.drawdown[2] > s.drawdown[1] * r.drawdown[2]
    BY <1>2, <1>4 DEF Larger
  <2>2. /\ s.drawdown[1] \in Nat /\ s.drawdown[2] \in Nat \ {0}
        /\ r.drawdown[1] \in Nat /\ r.drawdown[2] \in Nat \ {0}
    BY <1>1
  <2>3. DrawdownPct \in Nat
    BY AdmissionAssumption DEF Validated
  <2>4. 100 * s.drawdown[1] >= DrawdownPct * s.drawdown[2]
    BY DEF DrawnDown
  <2>5. 100 * r.drawdown[1] >= DrawdownPct * r.drawdown[2]
    BY <2>1, <2>2, <2>3, <2>4, FractionOver
  <2> QED BY <2>5 DEF DrawnDown, r
<1> QED BY <1>3, <1>4

\* Who is drawn down in the store is so in memory.
DrawnInv == \A w \in Wallets : DrawnDown(rows[w]) => DrawnDown(record[w])

\* A row that was over the drawdown limit changes only to be judged over it again.
JudgedAgain ==
  \A w \in Wallets : DrawnDown(rows[w]) =>
    /\ DrawnDown(rows'[w])
    /\ rows'[w] # rows[w] => sell'.step = "judged" /\ sell'.who = w

LEMMA DrawnStep ==
  BooksInv /\ DrawnInv /\ [Next]_vars => DrawnInv' /\ JudgedAgain
<1> SUFFICES ASSUME BooksInv, DrawnInv, [Next]_vars PROVE DrawnInv' /\ JudgedAgain
  OBVIOUS
<1> USE DEF money, stats, limit, tasks, count, SellType
<1>1. ASSUME UNCHANGED <<record, rows>> PROVE DrawnInv' /\ JudgedAgain
  BY <1>1 DEF DrawnInv, JudgedAgain
<1>2. CASE EntryTask
  BY <1>1, <1>2 DEF EntryTask, Admit, NotFilled, Open
<1>3. ASSUME NEW i \in Ids, NEW n \in 1..MaxShares, NEW p \in Prices, Close(i, n, p)
      PROVE  DrawnInv' /\ JudgedAgain
  BY <1>1, <1>3 DEF Close
<1>4. CASE Record
  <2>1. /\ sell # Idle /\ rows' = rows
        /\ record' = [record EXCEPT ![sell.who] = RecordClose(@, sell.pnl)]
    BY <1>4, IdleStep DEF Record
  <2>2. /\ sell.who \in Wallets /\ sell.pnl \in Int /\ record \in [Wallets -> RecordType]
        /\ \A w \in Wallets : Bounded(record[w])
    BY <2>1 DEF BooksInv
  <2>3. /\ record'[sell.who] = RecordClose(record[sell.who], sell.pnl)
        /\ \A w \in Wallets \ {sell.who} : record'[w] = record[w]
    BY <2>1, <2>2
  <2>4. \A w \in Wallets : DrawnDown(record[w]) => DrawnDown(record'[w])
    BY <2>2, <2>3, DrawnStays
  <2> QED BY <2>1, <2>4 DEF DrawnInv, JudgedAgain
<1>5. CASE Save
  <2>1. /\ sell # Idle /\ record' = record
        /\ rows' = [rows EXCEPT ![sell.who] = record[sell.who]]
        /\ sell' = IF OverLimit(record[sell.who]) THEN [sell EXCEPT !.step = "judged"] ELSE Idle
    BY <1>5, IdleStep DEF Save
  <2>2. /\ sell \in SellType
        /\ rows \in [Wallets -> RecordType]
    BY <2>1 DEF BooksInv
  <2>3. /\ rows'[sell.who] = record[sell.who]
        /\ \A w \in Wallets \ {sell.who} : rows'[w] = rows[w]
    BY <2>1, <2>2
  <2>4. DrawnInv'
    BY <2>1, <2>3 DEF DrawnInv
  <2>5. ASSUME NEW w \in Wallets, DrawnDown(rows[w]), rows'[w] # rows[w]
        PROVE  sell'.step = "judged" /\ sell'.who = w
    <3>1. w = sell.who /\ OverLimit(record[w])
      BY <2>3, <2>5 DEF DrawnInv, DrawnDown, OverLimit
    <3>2. sell'.step = "judged" /\ sell'.who = w
      BY <2>1, <2>2, <3>1
    <3> QED BY <3>2, IdleStep
  <2>6. \A w \in Wallets : DrawnDown(rows[w]) => DrawnDown(rows'[w])
    BY <2>3 DEF DrawnInv
  <2> QED BY <2>4, <2>5, <2>6 DEF JudgedAgain
<1>6. CASE CutOff \/ CloseFails
  BY <1>1, <1>6 DEF CutOff, CloseFails
<1>7. CASE Restart
  BY <1>7 DEF Restart, DrawnInv, JudgedAgain
<1>8. ASSUME NEW w \in Wallets, Uncutoff(w) PROVE DrawnInv' /\ JudgedAgain
  BY <1>1, <1>8 DEF Uncutoff
<1>9. CASE UNCHANGED vars
  BY <1>1, <1>9 DEF vars
<1> QED
  BY <1>2, <1>3, <1>4, <1>5, <1>6, <1>7, <1>8, <1>9 DEF Next, ExitTask

\* A trader whose saved drawdown is over the limit stays over it for good, and every
\* later close that is saved, a winning one included, is judged over it and cuts him
\* off again, whoever restored him (trader_scorer.py:86-94, risk_manager.py:162).
THEOREM DrawnDownForGood == Spec => RestoredIsCutAgain
<1>1. Init => DrawnInv
  BY DEF Init, DrawnInv
<1>2. BooksInv /\ DrawnInv /\ [Next]_vars => DrawnInv' /\ [JudgedAgain]_vars
  BY DrawnStep
<1> QED BY <1>1, <1>2, BooksAlways, PTL DEF Spec, RestoredIsCutAgain, JudgedAgain

----------------------------------------------------------------------------
(* Strangers.                                                              *)

Stranger(w) == Neutral(was[w]) /\ ~(was[w].pnl > 0)

\* Whoever is copied had an edge, and a neutral score alone is none.
StrangersStayOut ==
  \A w \in Wallets : Neutral(was[w]) /\ was[w].pnl <= 0 => record[w] = was[w]

\* Nothing is in hand for a stranger, and nothing is known of him that was not.
OutInv == \A w \in Wallets : Stranger(w) =>
  /\ record[w] = was[w] /\ rows[w] = was[w]
  /\ \A i \in Held : pos[i].who # w
  /\ \A i \in Ids : disk[i].size > 0 => disk[i].who # w
  /\ buy # Idle => buy.who # w
  /\ sell # Idle => sell.who # w

LEMMA WasStays == [Next]_vars => was' = was
<1> SUFFICES ASSUME [Next]_vars PROVE was' = was
  OBVIOUS
<1> USE DEF money, stats, limit, tasks, count
<1>1. EntryTask => was' = was
  BY DEF EntryTask, Admit, NotFilled, Open
<1>2. ASSUME NEW i, NEW n, NEW p, Close(i, n, p) PROVE was' = was
  BY <1>2 DEF Close
<1>3. Record \/ Save \/ CutOff \/ CloseFails => was' = was
  BY DEF Record, Save, CutOff, CloseFails
<1>4. Restart => was' = was
  BY DEF Restart
<1>5. ASSUME NEW w, Uncutoff(w) PROVE was' = was
  BY <1>5 DEF Uncutoff
<1>6. UNCHANGED vars => was' = was
  BY DEF vars
<1> QED BY <1>1, <1>2, <1>3, <1>4, <1>5, <1>6 DEF Next, ExitTask

\* The record of before was a record.
PastTyped == was \in [Wallets -> RecordType]

LEMMA PastAlways == Spec => []PastTyped
<1>1. Init => PastTyped
  <2>1. Init => BooksInv /\ record = was
    BY BooksInit DEF Init
  <2> QED BY <2>1 DEF BooksInv, PastTyped
<1>2. PastTyped /\ [Next]_vars => PastTyped'
  BY WasStays DEF PastTyped
<1> QED BY <1>1, <1>2, PTL DEF Spec

LEMMA OutInit == Init => OutInv
<1> SUFFICES ASSUME Init PROVE OutInv
  OBVIOUS
<1>1. \A i \in Ids : ~(pos[i].size > 0)
  BY DEF Init, NoPosition
<1>2. disk = pos
  BY DEF Init
<1> QED BY <1>1, <1>2 DEF Init, OutInv, Held

LEMMA OutStep == BooksInv /\ OutInv /\ [Next]_vars => OutInv'
<1> SUFFICES ASSUME BooksInv, OutInv, [Next]_vars, NEW w \in Wallets, Stranger(w)'
             PROVE  /\ record'[w] = was'[w] /\ rows'[w] = was'[w]
                    /\ \A i \in Held' : pos'[i].who # w
                    /\ \A i \in Ids : disk'[i].size > 0 => disk'[i].who # w
                    /\ buy' # Idle => buy'.who # w
                    /\ sell' # Idle => sell'.who # w
  BY DEF OutInv
<1> USE DEF money, stats, limit, tasks, count, SellType
<1>0. was' = was
  BY WasStays
<1>a. /\ Stranger(w) /\ ~HasEdge(record[w])
      /\ record[w] = was[w] /\ rows[w] = was[w]
      /\ \A i \in Held : pos[i].who # w
      /\ \A i \in Ids : disk[i].size > 0 => disk[i].who # w
      /\ buy # Idle => buy.who # w
      /\ sell # Idle => sell.who # w
  BY <1>0 DEF OutInv, Stranger, HasEdge
<1>b. /\ pos \in [Ids -> [who : Wallets, tok : Tokens, price : Nat, size : Nat, pnl : Int]]
      /\ disk \in [Ids -> [who : Wallets, tok : Tokens, price : Nat, size : Nat, pnl : Int]]
      /\ sell = Idle \/ sell \in SellType
      /\ record \in [Wallets -> RecordType] /\ rows \in [Wallets -> RecordType]
  BY DEF BooksInv
<1>c. Idle.step = "idle"
  BY DEF Idle
<1>d. /\ pos' = pos => \A i \in Held' : pos'[i].who # w
      /\ disk' = disk => \A i \in Ids : disk'[i].size > 0 => disk'[i].who # w
  BY <1>a DEF Held
<1>e. ASSUME NEW i \in Ids, NEW row, row.who # w, Upsert(i, row)
      PROVE  \A j \in Ids : disk'[j].size > 0 => disk'[j].who # w
  BY <1>a, <1>b, <1>e DEF Upsert
<1>1. ASSUME NEW v \in Wallets, NEW t \in Tokens, NEW px \in Prices, NEW ask \in Prices,
             NEW n \in 1..MaxShares, Admit(v, t, px, ask, n)
      PROVE  /\ UNCHANGED <<pos, disk, record, rows, sell>>
             /\ buy'.who # w
  BY <1>1, <1>a DEF Admit
<1>2. CASE NotFilled
  BY <1>2, <1>0, <1>a, <1>d DEF NotFilled
<1>3. ASSUME NEW k \in 1..MaxShares, NEW p \in Prices, Open(k, p)
      PROVE  /\ \A i \in Held' : pos'[i].who # w
             /\ \A i \in Ids : disk'[i].size > 0 => disk'[i].who # w
             /\ UNCHANGED <<record, rows, sell>> /\ buy' = Idle
  <2>1. /\ buy # Idle /\ buy' = Idle
        /\ UNCHANGED <<record, rows, sell>>
    BY <1>3 DEF Open
  <2>2. PICK i \in Free :
          /\ pos' = [pos EXCEPT ![i] = [who |-> buy.who, tok |-> buy.tok, price |-> p,
                                        size |-> k, pnl |-> 0]]
          /\ Upsert(i, pos'[i])
    BY <1>3 DEF Open
  <2>3. pos'[i].who # w
    BY <1>a, <1>b, <2>1, <2>2 DEF Free
  <2>5. \A j \in Ids : disk'[j].size > 0 => disk'[j].who # w
    BY <1>e, <2>2, <2>3 DEF Free
  <2>4. \A j \in Ids \ {i} : pos'[j] = pos[j]
    BY <1>b, <2>2
  <2> QED BY <1>a, <2>1, <2>3, <2>4, <2>5 DEF Held
<1>4. ASSUME NEW i \in Ids, NEW n \in 1..MaxShares, NEW p \in Prices, Close(i, n, p)
      PROVE  /\ \A j \in Held' : pos'[j].who # w
             /\ \A j \in Ids : disk'[j].size > 0 => disk'[j].who # w
             /\ UNCHANGED <<record, rows, buy>>
             /\ sell' # Idle => sell'.who # w
  <2> DEFINE gain == (p - pos[i].price) * n
             left == [pos[i] EXCEPT !.size = @ - n, !.pnl = @ + gain]
  <2>1. /\ i \in Held /\ UNCHANGED <<buy, record, rows>>
        /\ IF left.size = 0
           THEN /\ pos' = [pos EXCEPT ![i] = NoPosition]
                /\ sell' = [step |-> "closed", id |-> i, who |-> left.who, pnl |-> left.pnl]
                /\ UNCHANGED disk
           ELSE pos' = [pos EXCEPT ![i] = left] /\ Upsert(i, left) /\ UNCHANGED sell
    BY <1>4 DEF Close
  <2>2. pos[i].who # w /\ left.who = pos[i].who
    BY <1>a, <1>b, <2>1
  <2>3. \A j \in Ids \ {i} : pos'[j] = pos[j]
    BY <1>b, <2>1
  <2> HIDE DEF left
  <2>4. i \in Held' => pos'[i].who # w
    <3>1. CASE left.size = 0
      <4>1. pos'[i] = NoPosition
        BY <1>b, <2>1, <3>1
      <4> QED BY <4>1 DEF Held, NoPosition
    <3>2. CASE left.size # 0
      <4>1. pos'[i] = left
        BY <1>b, <2>1, <3>2
      <4> QED BY <4>1, <2>2
    <3> QED BY <3>1, <3>2
  <2>5. \A j \in Ids : disk'[j].size > 0 => disk'[j].who # w
    BY <1>d, <1>e, <2>1, <2>2
  <2> QED BY <1>a, <2>1, <2>2, <2>3, <2>4, <2>5 DEF Held
<1>5. CASE Record
  <2>1. /\ sell # Idle /\ UNCHANGED <<pos, buy, rows>>
        /\ record' = [record EXCEPT ![sell.who] = RecordClose(@, sell.pnl)]
        /\ sell' = [sell EXCEPT !.step = "recorded"]
        /\ disk' = [disk EXCEPT ![sell.id] = NoPosition]
    BY <1>5, <1>c DEF Record
  <2>2. sell'.who = sell.who /\ record'[w] = record[w]
    BY <1>a, <1>b, <2>1
  <2>3. \A j \in Ids : disk'[j].size > 0 => disk'[j].who # w
    BY <1>a, <1>b, <2>1 DEF NoPosition
  <2> QED BY <1>0, <1>a, <1>d, <2>1, <2>2, <2>3
<1>6. CASE Save
  <2>1. /\ sell # Idle /\ UNCHANGED <<pos, disk, buy, record>>
        /\ rows' = [rows EXCEPT ![sell.who] = record[sell.who]]
        /\ sell' = Idle \/ sell' = [sell EXCEPT !.step = "judged"]
    BY <1>6, <1>c DEF Save
  <2>2. (sell' # Idle => sell'.who = sell.who) /\ rows'[w] = rows[w]
    BY <1>a, <1>b, <2>1
  <2> QED BY <1>0, <1>a, <1>d, <2>1, <2>2
<1>7. CASE CutOff \/ CloseFails
  BY <1>7, <1>0, <1>a, <1>d DEF CutOff, CloseFails
<1>8. CASE Restart
  BY <1>8, <1>0, <1>a DEF Restart, Held
<1>9. ASSUME NEW v \in Wallets, Uncutoff(v)
      PROVE  UNCHANGED <<pos, disk, record, rows, buy, sell>>
  BY <1>9 DEF Uncutoff
<1>10. CASE UNCHANGED <<pos, disk, record, rows, buy, sell>>
  BY <1>10, <1>0, <1>a, <1>d
<1> QED
  BY <1>0, <1>a, <1>d, <1>1, <1>2, <1>3, <1>4, <1>5, <1>6, <1>7, <1>8, <1>9, <1>10
  DEF Next, EntryTask, ExitTask, vars

\* Whatever the limits and caps, over any number of restarts, nobody is ever copied
\* through the gate who had neither the trades to be scored nor a profit when the bot
\* was first started: the prior that is to keep new traders from being excluded
\* prematurely (trader_scorer.py:129-131) gives them no edge, so they stay out for good.
THEOREM NewTradersStayOut == Spec => []StrangersStayOut
<1>1. PastTyped /\ OutInv => StrangersStayOut
  <2> SUFFICES ASSUME PastTyped, OutInv, NEW w \in Wallets,
                      Neutral(was[w]), was[w].pnl <= 0
               PROVE  record[w] = was[w]
    BY DEF StrangersStayOut
  <2>1. was[w].pnl \in Int
    BY DEF PastTyped, RecordType
  <2> QED BY <2>1 DEF OutInv, Stranger
<1>2. BooksInv /\ OutInv /\ [Next]_vars => OutInv'
  BY OutStep
<1> QED BY <1>1, <1>2, OutInit, BooksAlways, PastAlways, PTL DEF Spec
----------------------------------------------------------------------------
(* Sums over positions.                                                    *)

Books    == [Ids -> [who : Wallets, tok : Tokens, price : Nat, size : Nat, pnl : Int]]
Costs(q) == [i \in Ids |-> q[i].price * q[i].size]
Sized0(q) == {i \in Ids : q[i].size > 0}

LEMMA CostsTyped ==
  ASSUME NEW q \in Books
  PROVE  /\ \A i \in Ids : Costs(q)[i] = q[i].price * q[i].size /\ Costs(q)[i] \in Nat
         /\ \A i \in Ids \ Sized0(q) : Costs(q)[i] = 0
         /\ \A S \in SUBSET Ids : SumFunctionOnSet(Costs(q), S) \in Nat
<1>1. \A i \in Ids : q[i].price \in Nat /\ q[i].size \in Nat
  BY DEF Books
<1>2. \A i \in Ids : Costs(q)[i] = q[i].price * q[i].size /\ Costs(q)[i] \in Nat
  BY <1>1 DEF Costs
<1>3. ASSUME NEW i \in Ids \ Sized0(q) PROVE Costs(q)[i] = 0
  <2>1. q[i].size = 0
    BY <1>1 DEF Sized0
  <2> QED BY <1>1, <1>2, <2>1
<1>4. ASSUME NEW S \in SUBSET Ids PROVE SumFunctionOnSet(Costs(q), S) \in Nat
  <2>1. IsFiniteSet(S)
    BY AdmissionAssumption, FS_Subset
  <2>2. \A i \in S : Costs(q)[i] \in Nat
    BY <1>2
  <2> QED BY <2>1, <2>2, SumNat
<1> QED BY <1>2, <1>3, <1>4

\* Where one position changes, the cost of all changes by what it costs.
LEMMA CostsMove ==
  ASSUME NEW q \in Books, NEW r \in Books, NEW i \in Ids,
         \A j \in Ids \ {i} : r[j] = q[j]
  PROVE  SumFunctionOnSet(Costs(r), Sized0(r)) =
           SumFunctionOnSet(Costs(q), Sized0(q)) + r[i].price * r[i].size
                                                 - q[i].price * q[i].size
<1>1. /\ \A j \in Ids : Costs(q)[j] = q[j].price * q[j].size /\ Costs(q)[j] \in Int
      /\ \A j \in Ids : Costs(r)[j] = r[j].price * r[j].size /\ Costs(r)[j] \in Int
      /\ \A j \in Ids \ Sized0(q) : Costs(q)[j] = 0
      /\ \A j \in Ids \ Sized0(r) : Costs(r)[j] = 0
  BY CostsTyped
<1>2. \A j \in Ids \ {i} : Costs(q)[j] = Costs(r)[j]
  BY <1>1
<1>3. SumFunctionOnSet(Costs(r), Ids)
        = SumFunctionOnSet(Costs(q), Ids) + Costs(r)[i] - Costs(q)[i]
  BY <1>1, <1>2, AdmissionAssumption, SumChange
<1>4. Sized0(q) \in SUBSET Ids /\ Sized0(r) \in SUBSET Ids
  BY DEF Sized0
<1>5. /\ SumFunctionOnSet(Costs(r), Ids) = SumFunctionOnSet(Costs(r), Sized0(r))
      /\ SumFunctionOnSet(Costs(q), Ids) = SumFunctionOnSet(Costs(q), Sized0(q))
  BY <1>1, <1>4, AdmissionAssumption, SumZeros
<1> QED BY <1>1, <1>3, <1>5

LEMMA HeldCost ==
  /\ CostOf(Held) = SumFunctionOnSet(Costs(pos), Sized0(pos))
  /\ CostOf(Held)' = SumFunctionOnSet(Costs(pos'), Sized0(pos'))
BY DEF CostOf, Cost, Costs, Held, Sized0

\* The bankroll is a natural number, at most what is above the reserve.
LEMMA BankrollTyped ==
  ASSUME pos \in Books, realized \in Int
  PROVE  /\ CostOf(Held) \in Nat /\ Raw \in Int /\ Bankroll \in Nat
         /\ Bankroll > 0 => Bankroll = Raw - Reserve
<1>1. CostOf(Held) \in Nat
  <2>1. Held \in SUBSET Ids
    BY DEF Held
  <2> QED BY <2>1, CostsTyped DEF CostOf, Cost, Costs
<1>2. Start \in Int /\ Reserve \in Int
  BY AdmissionAssumption DEF Validated
<1>3. Raw \in Int
  BY <1>1, <1>2 DEF Raw
<1>4. Raw - Reserve \in Int
  BY <1>2, <1>3
<1> DEFINE x == Raw - Reserve
<1> HIDE DEF x
<1>5. x \in Int /\ Bankroll = Max({0, x})
  BY <1>4 DEF x, Bankroll
<1>6. Max({0, x}) \in {0, x} /\ Max({0, x}) >= 0
  BY <1>5, MaxOfTwo
<1> QED BY <1>1, <1>3, <1>5, <1>6 DEF x

----------------------------------------------------------------------------
(* Types.                                                                  *)

BuyType == [step : {"sent"}, who : Wallets, tok : Tokens, px : Prices,
            ask : Prices, n : 1..MaxShares, bank : Nat]

\* Places of positions that were opened and whose rows are not closed yet.
Taken == Ids \ Free

\* The part of the types that BooksInv leaves out; each place taken was opened and is
\* not closed yet, and an entry in hand has its place among those to be opened.
AccountInv ==
  /\ {pos, disk} \subseteq [Ids -> Position] /\ realized \in Int
  /\ buy = Idle \/ buy \in BuyType
  /\ buy # Idle => opens < MaxOpens
  /\ cut \subseteq Wallets /\ restored \subseteq Wallets /\ restores \in 0..MaxRestores
  /\ opens \in 0..MaxOpens /\ closes \in Nat /\ Cardinality(Taken) <= opens - closes
  /\ sell # Idle /\ sell.step = "closed" => pos[sell.id].size = 0
  /\ over \in Nat /\ crashes \in Nat /\ misses \in Nat

LEMMA TakenNamed ==
  /\ Taken = {i \in Ids : pos[i].size # 0 \/ disk[i].size # 0 \/ i \in Pending}
  /\ Taken' = {i \in Ids : pos'[i].size # 0 \/ disk'[i].size # 0 \/ i \in Pending'}
BY DEF Taken, Free

LEMMA TakenFinite == IsFiniteSet(Taken) /\ Cardinality(Taken) \in Nat
BY AdmissionAssumption, FS_Subset, FS_CardinalityType DEF Taken

\* A step that takes no new place.
LEMMA TakenLess ==
  ASSUME Taken' \subseteq Taken
  PROVE  Cardinality(Taken') \in Nat /\ Cardinality(Taken') <= Cardinality(Taken)
BY TakenFinite, FS_Subset, FS_CardinalityType

LEMMA NoPositionFits == NoPosition \in Position /\ NoPosition.size = 0
<1>1. (CHOOSE w \in Wallets : TRUE) \in Wallets /\ (CHOOSE t \in Tokens : TRUE) \in Tokens
  BY AdmissionAssumption
<1>2. 0 \in 0..MaxShares
  BY AdmissionAssumption
<1> QED BY <1>1, <1>2 DEF NoPosition, Position

LEMMA AccountInit == Init => AccountInv
<1> SUFFICES ASSUME Init PROVE AccountInv
  OBVIOUS
<1>1. pos \in [Ids -> Position] /\ disk = pos /\ \A i \in Ids : pos[i].size = 0
  BY NoPositionFits DEF Init
<1>2. sell = Idle
  BY DEF Init
<1>3. Taken = {}
  BY <1>1, <1>2, IdleStep, TakenNamed DEF Pending
<1>4. Cardinality(Taken) = 0
  BY <1>3, FS_EmptySet
<1>5. 0 \in 0..MaxRestores /\ 0 \in 0..MaxOpens
  BY AdmissionAssumption
<1> QED BY <1>1, <1>2, <1>4, <1>5 DEF Init, AccountInv

LEMMA AccountAdmit ==
  ASSUME BooksInv, AccountInv, NEW w \in Wallets, NEW t \in Tokens, NEW px \in Prices,
         NEW ask \in Prices, NEW n \in 1..MaxShares, Admit(w, t, px, ask, n)
  PROVE  AccountInv'
<1> USE DEF money, stats, limit, tasks, count
<1>1. /\ UNCHANGED <<pos, disk, realized, sell, cut, restored, restores, opens, closes, over>>
      /\ UNCHANGED <<crashes, misses>>
      /\ opens < MaxOpens
      /\ buy' = [step |-> "sent", who |-> w, tok |-> t, px |-> px, ask |-> ask, n |-> n,
                 bank |-> Bankroll]
  BY DEF Admit
<1>2. Bankroll \in Nat
  BY BankrollTyped DEF BooksInv, AccountInv, Books
<1>3. buy' \in BuyType
  BY <1>1, <1>2 DEF BuyType
<1>4. Taken' = Taken
  BY <1>1 DEF Taken, Free, Pending
<1> QED BY <1>1, <1>3, <1>4 DEF AccountInv

LEMMA AccountOpen ==
  ASSUME AccountInv, NEW k \in 1..MaxShares, NEW p \in Prices, Open(k, p)
  PROVE  AccountInv'
<1> USE DEF money, stats, limit, tasks, count
<1> DEFINE row == [who |-> buy.who, tok |-> buy.tok, price |-> p, size |-> k, pnl |-> 0]
<1>1. /\ buy # Idle /\ buy' = Idle /\ opens' = opens + 1
      /\ over' = over + Max({0, k * (p - buy.ask)})
      /\ UNCHANGED <<realized, sell, cut, restored, restores, closes, crashes>>
  BY DEF Open
<1>2. PICK i \in Free : pos' = [pos EXCEPT ![i] = row] /\ Upsert(i, pos'[i])
  BY DEF Open
<1>3. buy \in BuyType /\ opens < MaxOpens /\ opens \in 0..MaxOpens
  BY <1>1 DEF AccountInv
<1>4. /\ p \in Int /\ k \in Int /\ buy.ask \in Int /\ MaxOpens \in Nat
      /\ k \in 0..MaxShares /\ k > 0
      /\ buy.who \in Wallets /\ buy.tok \in Tokens
  <2>1. Prices \subseteq Nat /\ MaxShares \in Nat /\ MaxOpens \in Nat
    BY AdmissionAssumption
  <2>2. buy.who \in Wallets /\ buy.tok \in Tokens /\ buy.ask \in Prices
    BY <1>3 DEF BuyType
  <2>3. \A q \in Prices : q \in Int
    BY <2>1
  <2>4. k \in Int /\ k \in 0..MaxShares /\ k > 0
    BY <2>1
  <2> QED BY <2>1, <2>2, <2>3, <2>4
<1>5. row \in Position
  BY <1>4 DEF Position
<1> HIDE DEF row
<1>6. pos \in [Ids -> Position] /\ disk \in [Ids -> Position] /\ i \in Ids
  BY <1>2 DEF AccountInv, Free
<1>7. /\ pos' \in [Ids -> Position] /\ pos'[i] = row /\ disk' \in [Ids -> Position]
      /\ misses' \in {misses, misses + 1}
      /\ \A j \in Ids \ {i} : pos'[j] = pos[j] /\ disk'[j] = disk[j]
  BY <1>2, <1>5, <1>6 DEF Upsert
<1>8. over' \in Nat
  <2>1. k * (p - buy.ask) \in Int
    BY <1>4
  <2> DEFINE x == k * (p - buy.ask)
  <2> HIDE DEF x
  <2>2. over' = over + Max({0, x})
    BY <1>1 DEF x
  <2>5. x \in Int
    BY <2>1 DEF x
  <2>3. Max({0, x}) \in {0, x} /\ Max({0, x}) >= 0
    BY <2>5, MaxOfTwo
  <2>4. over \in Nat
    BY DEF AccountInv
  <2> QED BY <2>2, <2>3, <2>4, <2>5
<1>9. opens' \in 0..MaxOpens /\ Cardinality(Taken') <= opens' - closes'
  <2>1. Pending' = Pending
    BY <1>1 DEF Pending
  <2>2. Taken' \subseteq Taken \cup {i}
    BY <1>7, <2>1, TakenNamed
  <2>3. /\ IsFiniteSet(Taken \cup {i}) /\ Cardinality(Taken) \in Nat
        /\ Cardinality(Taken \cup {i}) <= Cardinality(Taken) + 1
    <3>1. IsFiniteSet(Taken) /\ Cardinality(Taken) \in Nat /\ i \notin Taken
      BY TakenFinite DEF Taken
    <3>2. /\ IsFiniteSet(Taken \cup {i})
          /\ Cardinality(Taken \cup {i}) = Cardinality(Taken) + 1
      BY <3>1, FS_AddElement
    <3> QED BY <3>1, <3>2
  <2>4. /\ Cardinality(Taken') <= Cardinality(Taken \cup {i})
        /\ Cardinality(Taken') \in Nat /\ Cardinality(Taken \cup {i}) \in Nat
    BY <2>2, <2>3, FS_Subset, FS_CardinalityType
  <2>5. closes \in Nat /\ Cardinality(Taken) <= opens - closes
    BY DEF AccountInv
  <2> QED BY <1>1, <1>3, <1>4, <2>3, <2>4, <2>5
<1>10. sell # Idle /\ sell.step = "closed" => pos'[sell.id].size = 0
  <2> SUFFICES ASSUME sell # Idle, sell.step = "closed" PROVE pos'[sell.id].size = 0
    OBVIOUS
  <2>1. sell.id # i
    BY <1>2 DEF Free, Pending
  <2>2. pos'[sell.id] = pos[sell.id]
    BY <1>2, <1>6, <2>1
  <2> QED BY <2>2 DEF AccountInv
<1>11. UNCHANGED <<realized, sell, cut, restored, restores, closes, crashes>> /\ buy' = Idle
  BY <1>1
<1>12. misses' \in Nat
  BY <1>7 DEF AccountInv
<1> QED BY <1>7, <1>8, <1>9, <1>10, <1>11, <1>12 DEF AccountInv

LEMMA AccountClose ==
  ASSUME AccountInv, NEW i \in Ids, NEW n \in 1..MaxShares, NEW p \in Prices, Close(i, n, p)
  PROVE  AccountInv'
<1> USE DEF money, stats, limit, tasks, count
<1> DEFINE gain == (p - pos[i].price) * n
           left == [pos[i] EXCEPT !.size = @ - n, !.pnl = @ + gain]
<1>1. /\ sell = Idle /\ i \in Held /\ n <= pos[i].size /\ realized' = realized + gain
      /\ UNCHANGED <<buy, cut, restored, restores, opens, closes, over, crashes>>
      /\ IF left.size = 0
         THEN /\ pos' = [pos EXCEPT ![i] = NoPosition]
              /\ sell' = [step |-> "closed", id |-> i, who |-> left.who, pnl |-> left.pnl]
              /\ UNCHANGED <<disk, misses>>
         ELSE pos' = [pos EXCEPT ![i] = left] /\ Upsert(i, left) /\ UNCHANGED sell
  BY DEF Close
<1>2. pos[i] \in Position /\ pos \in [Ids -> Position] /\ disk \in [Ids -> Position]
  BY DEF AccountInv
<1>3. gain \in Int
  <2>1. Prices \subseteq Nat
    BY AdmissionAssumption
  <2>2. /\ \A q \in Prices : q \in Nat
        /\ pos[i].price \in Prices \cup {0}
    BY <1>2, <2>1 DEF Position
  <2>3. p \in Nat /\ n \in Int /\ pos[i].price \in Nat
    BY <2>2
  <2> QED BY <2>3
<1> HIDE DEF gain
<1>4. left \in Position
  <2>1. pos[i].size - n \in 0..MaxShares /\ pos[i].pnl + gain \in Int
    BY <1>1, <1>2, <1>3, AdmissionAssumption DEF Position
  <2> QED BY <1>2, <2>1 DEF Position
<1> HIDE DEF left
<1>5. /\ realized' \in Int /\ misses' \in Nat
      /\ pos' \in [Ids -> Position] /\ disk' \in [Ids -> Position]
  <2>1. misses \in Nat /\ realized \in Int
    BY DEF AccountInv
  <2> QED BY <1>1, <1>2, <1>3, <1>4, <2>1, NoPositionFits DEF Upsert
<1>6. pos[i].size # 0
  BY <1>1, <1>2, AdmissionAssumption DEF Held, Position
<1>7. Taken' \subseteq Taken
  <2>1. i \in Taken
    BY <1>6, TakenNamed
  <2>2. \A j \in Ids \ {i} : pos'[j] = pos[j] /\ disk'[j] = disk[j]
    BY <1>1, <1>2 DEF Upsert
  <2>3. Pending' \subseteq {i} \cup Pending
    BY <1>1 DEF Pending
  <2> QED BY <2>1, <2>2, <2>3, TakenNamed
<1>8. Cardinality(Taken') <= opens' - closes'
  <2>1. /\ opens \in Int /\ closes \in Int /\ Cardinality(Taken) <= opens - closes
        /\ opens' = opens /\ closes' = closes
    BY <1>1, AdmissionAssumption DEF AccountInv
  <2> QED BY <1>7, <2>1, TakenLess, TakenFinite
<1>9. sell' # Idle /\ sell'.step = "closed" => pos'[sell'.id].size = 0
  <2>1. CASE left.size = 0
    <3>1. sell'.id = i /\ pos'[i] = NoPosition
      BY <1>1, <1>2, <2>1
    <3> QED BY <3>1, NoPositionFits
  <2>2. CASE left.size # 0
    BY <1>1, <2>2
  <2> QED BY <2>1, <2>2
<1>10. UNCHANGED <<buy, cut, restored, restores, opens, closes, over, crashes>>
  BY <1>1
<1> QED BY <1>5, <1>8, <1>9, <1>10 DEF AccountInv

LEMMA AccountRecord ==
  ASSUME BooksInv, AccountInv, Record
  PROVE  AccountInv'
<1> USE DEF money, stats, limit, tasks, count
<1>1. /\ sell # Idle /\ sell.step = "closed" /\ sell' = [sell EXCEPT !.step = "recorded"]
      /\ disk' = [disk EXCEPT ![sell.id] = NoPosition] /\ closes' = closes + 1
      /\ UNCHANGED <<pos, realized, buy, cut, restored, restores, opens, over, crashes, misses>>
  BY IdleStep DEF Record
<1>2. sell.id \in Ids /\ sell'.step = "recorded" /\ pos[sell.id].size = 0
  BY <1>1 DEF BooksInv, SellType, AccountInv
<1>3. disk \in [Ids -> Position] /\ disk' \in [Ids -> Position] /\ disk'[sell.id].size = 0
      /\ \A j \in Ids \ {sell.id} : disk'[j] = disk[j]
  BY <1>1, <1>2, NoPositionFits DEF AccountInv
<1>4. Pending = {sell.id} /\ Pending' = {}
  BY <1>1, <1>2 DEF Pending
<1>5. sell.id \in Taken /\ Taken' \subseteq Taken \ {sell.id}
  BY <1>1, <1>2, <1>3, <1>4, TakenNamed
<1>6. /\ IsFiniteSet(Taken \ {sell.id}) /\ Cardinality(Taken) \in Nat
      /\ Cardinality(Taken \ {sell.id}) = Cardinality(Taken) - 1
  BY <1>5, TakenFinite, FS_RemoveElement
<1>7. Cardinality(Taken') <= Cardinality(Taken \ {sell.id}) /\ Cardinality(Taken') \in Nat
  BY <1>5, <1>6, FS_Subset, FS_CardinalityType
<1>8. closes' \in Nat /\ Cardinality(Taken') <= opens' - closes'
  <2>1. opens \in Int /\ closes \in Nat /\ Cardinality(Taken) <= opens - closes
    BY AdmissionAssumption DEF AccountInv
  <2> QED BY <1>1, <1>6, <1>7, <2>1
<1> QED BY <1>1, <1>2, <1>3, <1>8 DEF AccountInv

LEMMA AccountStep == BooksInv /\ AccountInv /\ [Next]_vars => AccountInv'
<1> SUFFICES ASSUME BooksInv, AccountInv, [Next]_vars PROVE AccountInv'
  OBVIOUS
<1> USE DEF money, stats, limit, tasks, count
<1>a. /\ opens \in Int /\ closes \in Int /\ Cardinality(Taken) <= opens - closes
      /\ Cardinality(Taken) \in Nat
  BY AdmissionAssumption, TakenFinite DEF AccountInv
<1>b. ASSUME Taken' \subseteq Taken, UNCHANGED <<opens, closes>>
      PROVE  Cardinality(Taken') <= opens' - closes'
  BY <1>a, <1>b, TakenLess
<1>c. ASSUME UNCHANGED <<pos, disk>>, sell' = sell \/ sell'.step # "closed"
      PROVE  Taken' \subseteq Taken
  <2>1. Pending' \subseteq Pending
    BY <1>c DEF Pending
  <2> QED BY <1>c, <2>1, TakenNamed
<1>1. CASE NotFilled
  BY <1>1, <1>b, <1>c DEF NotFilled, AccountInv
<1>2. CASE Save
  <2>1. sell \in SellType
    BY <1>2, IdleStep DEF Save, BooksInv
  <2>2. sell' = Idle \/ sell' = [sell EXCEPT !.step = "judged"]
    BY <1>2 DEF Save
  <2>3. sell'.step # "closed"
    BY <2>1, <2>2, IdleStep DEF SellType
  <2> QED BY <1>2, <1>b, <1>c, <2>3 DEF Save, AccountInv
<1>3. CASE CutOff
  <2>1. sell \in SellType
    BY <1>3, IdleStep DEF CutOff, BooksInv
  <2>2. sell.who \in Wallets
    BY <2>1 DEF SellType
  <2> QED BY <1>3, <1>b, <1>c, <2>2, IdleStep DEF CutOff, AccountInv
<1>4. CASE CloseFails
  BY <1>4, <1>b, <1>c, IdleStep DEF CloseFails, AccountInv
<1>5. CASE Restart
  <2>1. /\ pos' = disk /\ disk' = disk /\ sell' = Idle /\ buy' = Idle /\ realized' = 0
        /\ crashes' = crashes + 1 /\ UNCHANGED <<limit, opens, closes, over, misses>>
    BY <1>5 DEF Restart
  <2>2. Taken' \subseteq Taken
    BY <2>1, IdleStep, TakenNamed DEF Pending
  <2> QED BY <1>b, <2>1, <2>2 DEF AccountInv
<1>6. ASSUME NEW w \in Wallets, Uncutoff(w) PROVE AccountInv'
  BY <1>6, <1>b, <1>c, AdmissionAssumption DEF Uncutoff, AccountInv
<1>7. CASE UNCHANGED vars
  BY <1>7, <1>b, <1>c DEF vars, AccountInv
<1> QED
  BY <1>1, <1>2, <1>3, <1>4, <1>5, <1>6, <1>7,
     AccountAdmit, AccountOpen, AccountClose, AccountRecord
  DEF Next, EntryTask, ExitTask

LEMMA AccountAlways == Spec => []AccountInv
BY AccountInit, AccountStep, BooksAlways, PTL DEF Spec

\* The books, records and tables are always of their types: for any number of copies
\* that overlap closes, no more is closed than was opened.
THEOREM TypesHold == Spec => []TypeOK
<1>1. BooksInv /\ PastTyped /\ AccountInv => TypeOK
  <2> SUFFICES ASSUME BooksInv, PastTyped, AccountInv PROVE TypeOK
    OBVIOUS
  <2>1. closes \in 0..opens
    <3>1. opens \in Int /\ closes \in Nat /\ Cardinality(Taken) <= opens - closes
      BY AdmissionAssumption DEF AccountInv
    <3> QED BY <3>1, TakenFinite
  <2>2. {record, rows, was} \subseteq [Wallets -> RecordType]
    BY DEF BooksInv, PastTyped
  <2>3. buy \in {Idle} \cup BuyType
    BY DEF AccountInv
  <2>4. sell \in {Idle} \cup SellType
    BY DEF BooksInv
  <2> QED BY <2>1, <2>2, <2>3, <2>4 DEF TypeOK, AccountInv, BuyType, SellType
<1> QED BY <1>1, BooksAlways, PastAlways, AccountAlways, PTL
----------------------------------------------------------------------------
(* What is gained, and what is recorded of it.                             *)

Pnls(q)     == [i \in Ids |-> q[i].pnl]
Got(r, a)   == [w \in Wallets |-> r[w].pnl - a[w].pnl]
Saved(r, a) == [w \in Wallets |-> r[w].trades - a[w].trades]
Records     == [Wallets -> RecordType]

LEMMA SumsNamed ==
  /\ Attributed = SumFunctionOnSet(Got(record, was), Wallets)
  /\ Attributed' = SumFunctionOnSet(Got(record', was'), Wallets)
  /\ PartlyGained = SumFunctionOnSet(Pnls(pos), Ids)
  /\ PartlyGained' = SumFunctionOnSet(Pnls(pos'), Ids)
  /\ ClosesSaved = SumFunctionOnSet(Saved(rows, was), Wallets)
  /\ ClosesSaved' = SumFunctionOnSet(Saved(rows', was'), Wallets)
<1>1. /\ \A q : DOMAIN Pnls(q) = Ids
      /\ \A r, a : DOMAIN Got(r, a) = Wallets /\ DOMAIN Saved(r, a) = Wallets
  BY DEF Pnls, Got, Saved
<1>2. /\ Attributed = SumFunction(Got(record, was)) /\ Attributed' = SumFunction(Got(record', was'))
      /\ PartlyGained = SumFunction(Pnls(pos)) /\ PartlyGained' = SumFunction(Pnls(pos'))
      /\ ClosesSaved = SumFunction(Saved(rows, was)) /\ ClosesSaved' = SumFunction(Saved(rows', was'))
  BY DEF Attributed, PartlyGained, ClosesSaved, Pnls, Got, Saved
<1> QED BY <1>1, <1>2 DEF SumFunction

LEMMA PnlsMove ==
  ASSUME NEW q \in Books, NEW r \in Books, NEW i \in Ids,
         \A j \in Ids \ {i} : r[j] = q[j]
  PROVE  /\ SumFunctionOnSet(Pnls(q), Ids) \in Int
         /\ SumFunctionOnSet(Pnls(r), Ids)
              = SumFunctionOnSet(Pnls(q), Ids) + r[i].pnl - q[i].pnl
<1>1. /\ \A j \in Ids : Pnls(q)[j] = q[j].pnl /\ Pnls(r)[j] = r[j].pnl
      /\ \A j \in Ids : Pnls(q)[j] \in Int /\ Pnls(r)[j] \in Int
  BY DEF Pnls, Books
<1>2. \A j \in Ids \ {i} : Pnls(q)[j] = Pnls(r)[j]
  BY <1>1
<1>3. SumFunctionOnSet(Pnls(r), Ids) = SumFunctionOnSet(Pnls(q), Ids) + Pnls(r)[i] - Pnls(q)[i]
  BY <1>1, <1>2, AdmissionAssumption, SumChange
<1>4. SumFunctionOnSet(Pnls(q), Ids) \in Int
  BY <1>1, AdmissionAssumption, SumInt
<1> QED BY <1>1, <1>3, <1>4

\* Where one record changes, what all have gained and closed changes by what it has.
LEMMA RecordsMove ==
  ASSUME NEW q \in Records, NEW r \in Records, NEW a \in Records, NEW w \in Wallets,
         \A v \in Wallets \ {w} : r[v] = q[v]
  PROVE  /\ SumFunctionOnSet(Got(q, a), Wallets) \in Int
         /\ SumFunctionOnSet(Saved(q, a), Wallets) \in Int
         /\ SumFunctionOnSet(Got(r, a), Wallets)
              = SumFunctionOnSet(Got(q, a), Wallets) + r[w].pnl - q[w].pnl
         /\ SumFunctionOnSet(Saved(r, a), Wallets)
              = SumFunctionOnSet(Saved(q, a), Wallets) + r[w].trades - q[w].trades
<1>1. \A v \in Wallets : /\ q[v].pnl \in Int /\ r[v].pnl \in Int /\ a[v].pnl \in Int
                         /\ q[v].trades \in Nat /\ r[v].trades \in Nat /\ a[v].trades \in Nat
  BY DEF Records, RecordType
<1>2. \A v \in Wallets : /\ Got(q, a)[v] = q[v].pnl - a[v].pnl
                         /\ Got(r, a)[v] = r[v].pnl - a[v].pnl
                         /\ Saved(q, a)[v] = q[v].trades - a[v].trades
                         /\ Saved(r, a)[v] = r[v].trades - a[v].trades
  BY DEF Got, Saved
<1>3. \A v \in Wallets : /\ Got(q, a)[v] \in Int /\ Got(r, a)[v] \in Int
                         /\ Saved(q, a)[v] \in Int /\ Saved(r, a)[v] \in Int
  BY <1>1, <1>2
<1>4. \A v \in Wallets \ {w} : Got(q, a)[v] = Got(r, a)[v] /\ Saved(q, a)[v] = Saved(r, a)[v]
  BY <1>2
<1>5. SumFunctionOnSet(Got(r, a), Wallets)
        = SumFunctionOnSet(Got(q, a), Wallets) + Got(r, a)[w] - Got(q, a)[w]
  BY <1>3, <1>4, AdmissionAssumption, SumChange
<1>6. SumFunctionOnSet(Saved(r, a), Wallets)
        = SumFunctionOnSet(Saved(q, a), Wallets) + Saved(r, a)[w] - Saved(q, a)[w]
  BY <1>3, <1>4, AdmissionAssumption, SumChange
<1>7. /\ SumFunctionOnSet(Got(q, a), Wallets) \in Int
      /\ SumFunctionOnSet(Saved(q, a), Wallets) \in Int
  BY <1>3, AdmissionAssumption, SumInt
<1>8. /\ Got(r, a)[w] - Got(q, a)[w] = r[w].pnl - q[w].pnl
      /\ Saved(r, a)[w] - Saved(q, a)[w] = r[w].trades - q[w].trades
  BY <1>1, <1>2
<1> QED BY <1>1, <1>3, <1>5, <1>6, <1>7, <1>8

\* Where no record is anybody's own yet, the sums are 0.
LEMMA RecordsStart ==
  ASSUME NEW a \in Records
  PROVE  /\ SumFunctionOnSet(Got(a, a), Wallets) = 0
         /\ SumFunctionOnSet(Saved(a, a), Wallets) = 0
<1>1. \A v \in Wallets : a[v].pnl \in Int /\ a[v].trades \in Nat
  BY DEF Records, RecordType
<1>2. \A v \in Wallets : Got(a, a)[v] = 0 /\ Saved(a, a)[v] = 0
  BY <1>1 DEF Got, Saved
<1>3. {} \in SUBSET Wallets
  OBVIOUS
<1>4. /\ SumFunctionOnSet(Got(a, a), Wallets) = SumFunctionOnSet(Got(a, a), {})
      /\ SumFunctionOnSet(Saved(a, a), Wallets) = SumFunctionOnSet(Saved(a, a), {})
  BY <1>2, <1>3, AdmissionAssumption, SumZeros
<1> QED BY <1>4, SumEmpty

\* A place without a position has gained nothing.
GainInv ==
  \A i \in Ids : /\ pos[i].size = 0 => pos[i].pnl = 0
                 /\ disk[i].size = 0 => disk[i].pnl = 0

\* What a failed write of a closed row leaves to nobody.
Lost == IF misses' # misses /\ sell' = Idle THEN InHand ELSE 0

LEMMA GainInit == Init => GainInv /\ Unattributed = 0
<1> SUFFICES ASSUME Init PROVE GainInv /\ Unattributed = 0
  OBVIOUS
<1>1. was \in Records /\ record = was
  BY BooksInit DEF Init, BooksInv, Records
<1>2. Attributed = 0
  BY <1>1, RecordsStart, SumsNamed
<1>3. \A i \in Ids : pos[i].pnl = 0
  BY DEF Init, NoPosition
<1>4. PartlyGained = 0
  <2>1. \A i \in Ids : Pnls(pos)[i] = 0
    BY <1>3 DEF Pnls
  <2>2. {} \in SUBSET Ids
    OBVIOUS
  <2>3. SumFunctionOnSet(Pnls(pos), Ids) = SumFunctionOnSet(Pnls(pos), {})
    BY <2>1, <2>2, AdmissionAssumption, SumZeros
  <2> QED BY <2>3, SumEmpty, SumsNamed
<1>5. InHand = 0 /\ realized = 0
  BY DEF Init, InHand
<1>6. disk = pos
  BY DEF Init
<1> QED BY <1>2, <1>3, <1>4, <1>5, <1>6 DEF GainInv, Unattributed

LEMMA GainOpen ==
  ASSUME BooksInv, BooksInv', PastTyped, GainInv,
         NEW k \in 1..MaxShares, NEW p \in Prices, Open(k, p)
  PROVE  GainInv' /\ Unattributed' = Unattributed
<1> USE DEF money, stats, limit, tasks, count
<1>1. UNCHANGED <<realized, record, was, sell, crashes>>
  BY DEF Open
<1>2. PICK i \in Free :
        /\ pos' = [pos EXCEPT ![i] = [who |-> buy.who, tok |-> buy.tok, price |-> p,
                                      size |-> k, pnl |-> 0]]
        /\ Upsert(i, pos'[i])
  BY DEF Open
<1>3. pos \in Books /\ pos' \in Books /\ disk \in Books /\ i \in Ids
  BY DEF BooksInv, Books, Free
<1>4. pos'[i].pnl = 0 /\ \A j \in Ids \ {i} : pos'[j] = pos[j]
  BY <1>2, <1>3 DEF Books
<1>9. \/ disk' = disk
      \/ disk'[i] = pos'[i] /\ \A j \in Ids \ {i} : disk'[j] = disk[j]
  BY <1>2, <1>3 DEF Books, Upsert
<1>5. pos[i].pnl = 0
  BY <1>2 DEF Free, GainInv
<1>6. PartlyGained' = PartlyGained /\ PartlyGained \in Int
  BY <1>3, <1>4, <1>5, PnlsMove, SumsNamed
<1>7. Attributed' = Attributed /\ InHand' = InHand
  BY <1>1 DEF Attributed, InHand
<1>8. Unattributed' = Unattributed
  BY <1>1, <1>6, <1>7 DEF Unattributed
<1> QED BY <1>1, <1>4, <1>8, <1>9 DEF GainInv

LEMMA GainClose ==
  ASSUME BooksInv, BooksInv', PastTyped, AccountInv, GainInv,
         NEW i \in Ids, NEW n \in 1..MaxShares, NEW p \in Prices, Close(i, n, p)
  PROVE  GainInv' /\ Unattributed' = Unattributed
<1> USE DEF money, stats, limit, tasks, count
<1> DEFINE gain == (p - pos[i].price) * n
           left == [pos[i] EXCEPT !.size = @ - n, !.pnl = @ + gain]
<1>1. /\ sell = Idle /\ i \in Held /\ n <= pos[i].size /\ realized' = realized + gain
      /\ UNCHANGED <<record, was, crashes>>
      /\ IF left.size = 0
         THEN /\ pos' = [pos EXCEPT ![i] = NoPosition]
              /\ sell' = [step |-> "closed", id |-> i, who |-> left.who, pnl |-> left.pnl]
              /\ UNCHANGED disk
         ELSE pos' = [pos EXCEPT ![i] = left] /\ Upsert(i, left) /\ UNCHANGED sell
  BY DEF Close
<1>2. pos \in Books /\ pos' \in Books /\ disk \in Books
  BY DEF BooksInv, Books
<1>3. gain \in Int /\ pos[i].pnl \in Int /\ realized \in Int
  <2>1. \A q \in Prices : q \in Int
    BY AdmissionAssumption
  <2>2. p \in Int /\ n \in Int /\ pos[i].price \in Int /\ pos[i].pnl \in Int
    BY <1>2, <2>1 DEF Books
  <2> QED BY <2>2 DEF AccountInv
<1> HIDE DEF gain
<1>4. left.pnl = pos[i].pnl + gain
  BY <1>2 DEF Books
<1> HIDE DEF left
<1>5. \A j \in Ids \ {i} : pos'[j] = pos[j]
  BY <1>1, <1>2 DEF Books
<1>6. /\ PartlyGained \in Int /\ PartlyGained' = PartlyGained + pos'[i].pnl - pos[i].pnl
  BY <1>2, <1>5, PnlsMove, SumsNamed
<1>7. Attributed' = Attributed /\ Attributed \in Int
  <2>1. record \in Records /\ was \in Records
    BY DEF BooksInv, PastTyped, Records
  <2>2. PICK w \in Wallets : TRUE
    BY AdmissionAssumption
  <2>3. Attributed \in Int
    BY <2>1, <2>2, RecordsMove, SumsNamed
  <2> QED BY <1>1, <2>3 DEF Attributed
<1>8. InHand = 0
  BY <1>1 DEF InHand
<1>9. CASE left.size = 0
  <2>1. pos'[i] = NoPosition /\ pos'[i].pnl = 0
    BY <1>1, <1>2, <1>9 DEF Books, NoPosition
  <2>2. InHand' = pos[i].pnl + gain
    <3>1. sell'.step = "closed" /\ sell' # Idle /\ sell'.pnl = left.pnl
      BY <1>1, <1>9, IdleStep
    <3> QED BY <1>4, <3>1 DEF InHand
  <2>3. Unattributed' = Unattributed
    BY <1>1, <1>3, <1>6, <1>7, <1>8, <2>1, <2>2 DEF Unattributed
  <2>4. disk' = disk
    BY <1>1, <1>9
  <2> QED BY <1>5, <2>1, <2>3, <2>4 DEF GainInv
<1>10. CASE left.size # 0
  <2>1. pos'[i] = left
    BY <1>1, <1>2, <1>10 DEF Books
  <2>2. InHand' = 0
    BY <1>1, <1>10 DEF InHand
  <2>3. Unattributed' = Unattributed
    BY <1>1, <1>3, <1>4, <1>6, <1>7, <1>8, <2>1, <2>2 DEF Unattributed
  <2>4. \/ disk' = disk
        \/ disk'[i] = left /\ \A j \in Ids \ {i} : disk'[j] = disk[j]
    BY <1>1, <1>2, <1>10 DEF Books, Upsert
  <2> QED BY <1>5, <1>10, <2>1, <2>3, <2>4 DEF GainInv
<1> QED BY <1>9, <1>10

LEMMA GainRecord ==
  ASSUME BooksInv, BooksInv', PastTyped, AccountInv, GainInv, Record
  PROVE  GainInv' /\ Unattributed' = Unattributed
<1> USE DEF money, stats, limit, tasks, count
<1>1. /\ sell # Idle /\ sell.step = "closed" /\ UNCHANGED <<pos, realized, was, crashes>>
      /\ record' = [record EXCEPT ![sell.who] = RecordClose(@, sell.pnl)]
      /\ sell' = [sell EXCEPT !.step = "recorded"]
      /\ disk' = [disk EXCEPT ![sell.id] = NoPosition]
  BY IdleStep DEF Record
<1>2. sell.who \in Wallets /\ sell.pnl \in Int /\ sell'.step = "recorded"
  BY <1>1 DEF BooksInv, SellType
<1>3. record \in Records /\ record' \in Records /\ was \in Records
  BY DEF BooksInv, PastTyped, Records
<1>4. \A v \in Wallets \ {sell.who} : record'[v] = record[v]
  BY <1>1, <1>3 DEF Records
<1>5. record'[sell.who].pnl = record[sell.who].pnl + sell.pnl /\ record[sell.who].pnl \in Int
  <2>1. record'[sell.who] = RecordClose(record[sell.who], sell.pnl)
    BY <1>1, <1>2, <1>3 DEF Records
  <2> QED BY <1>2, <1>3, <2>1 DEF RecordClose, Records, RecordType
<1>6. /\ Attributed \in Int
      /\ Attributed' = Attributed + record'[sell.who].pnl - record[sell.who].pnl
  <2>1. /\ SumFunctionOnSet(Got(record, was), Wallets) \in Int
        /\ SumFunctionOnSet(Got(record', was), Wallets)
             = SumFunctionOnSet(Got(record, was), Wallets)
                 + record'[sell.who].pnl - record[sell.who].pnl
    BY <1>2, <1>3, <1>4, RecordsMove
  <2>2. was' = was
    BY <1>1
  <2> QED BY <2>1, <2>2, SumsNamed
<1>7. InHand = sell.pnl /\ InHand' = 0
  BY <1>1, <1>2 DEF InHand
<1>8. PartlyGained' = PartlyGained /\ PartlyGained \in Int
  <2>1. pos \in Books
    BY DEF BooksInv, Books
  <2>2. \A i \in Ids : Pnls(pos)[i] \in Int
    BY <2>1 DEF Books, Pnls
  <2>3. PartlyGained \in Int
    BY <2>2, AdmissionAssumption, SumInt, SumsNamed
  <2> QED BY <1>1, <2>3 DEF PartlyGained
<1>9. Attributed' = Attributed + sell.pnl
  BY <1>2, <1>5, <1>6
<1>10. realized \in Int
  BY DEF AccountInv
<1>11. Unattributed' = Unattributed
  BY <1>1, <1>2, <1>6, <1>7, <1>8, <1>9, <1>10 DEF Unattributed
<1>12. \A i \in Ids : disk'[i] = disk[i] \/ disk'[i] = NoPosition
  BY <1>1 DEF BooksInv
<1>13. NoPosition.pnl = 0
  BY DEF NoPosition
<1> QED BY <1>1, <1>11, <1>12, <1>13 DEF GainInv

\* The sums are integers.
LEMMA GainTyped ==
  ASSUME BooksInv, PastTyped, AccountInv
  PROVE  Unattributed \in Int /\ InHand \in Int
<1>1. record \in Records /\ was \in Records /\ pos \in Books
  BY DEF BooksInv, PastTyped, Records, Books
<1>2. PICK w \in Wallets : TRUE
  BY AdmissionAssumption
<1>3. Attributed \in Int
  BY <1>1, <1>2, RecordsMove, SumsNamed
<1>4. PartlyGained \in Int
  <2>1. \A i \in Ids : Pnls(pos)[i] \in Int
    BY <1>1 DEF Books, Pnls
  <2> QED BY <2>1, AdmissionAssumption, SumInt, SumsNamed
<1>5. InHand \in Int
  BY DEF InHand, BooksInv, SellType
<1>6. realized \in Int
  BY DEF AccountInv
<1> QED BY <1>3, <1>4, <1>5, <1>6 DEF Unattributed


LEMMA GainStep ==
  BooksInv /\ BooksInv' /\ PastTyped /\ AccountInv /\ GainInv /\ [Next]_vars
    => GainInv' /\ (crashes' = crashes => Unattributed' = Unattributed + Lost)
<1> SUFFICES ASSUME BooksInv, BooksInv', PastTyped, AccountInv, GainInv, [Next]_vars
             PROVE  GainInv' /\ (crashes' = crashes => Unattributed' = Unattributed + Lost)
  OBVIOUS
<1> USE DEF money, stats, limit, tasks, count
<1>a. Unattributed \in Int /\ InHand \in Int
  BY GainTyped
\* Nothing is lost but the gain of a close in hand, to a failing call.
<1>b. ASSUME Unattributed' = Unattributed, misses' = misses \/ InHand = 0
      PROVE  Unattributed' = Unattributed + Lost
  BY <1>a, <1>b DEF Lost
<1>1. ASSUME UNCHANGED <<money, record, was, misses>>, InHand' = InHand
      PROVE  GainInv' /\ Unattributed' = Unattributed + Lost
  <2>1. Attributed' = Attributed /\ PartlyGained' = PartlyGained
    BY <1>1 DEF Attributed, PartlyGained
  <2>2. Unattributed' = Unattributed
    BY <1>1, <2>1 DEF Unattributed
  <2> QED BY <1>1, <1>b, <2>2 DEF GainInv
<1>2. ASSUME UNCHANGED <<money, record, was, sell, misses>>
      PROVE  GainInv' /\ Unattributed' = Unattributed + Lost
  BY <1>1, <1>2 DEF InHand
<1>3. ASSUME NEW w \in Wallets, NEW t \in Tokens, NEW px \in Prices, NEW ask \in Prices,
             NEW n \in 1..MaxShares, Admit(w, t, px, ask, n)
      PROVE  GainInv' /\ Unattributed' = Unattributed + Lost
  BY <1>2, <1>3 DEF Admit
<1>4. CASE NotFilled
  BY <1>2, <1>4 DEF NotFilled
<1>5. CASE Save
  <2>1. /\ sell # Idle /\ sell.step = "recorded" /\ UNCHANGED <<money, record, was, misses>>
        /\ (sell' = Idle \/ sell' = [sell EXCEPT !.step = "judged"])
    BY <1>5, IdleStep DEF Save
  <2>2. sell' = Idle \/ sell'.step = "judged"
    BY <2>1 DEF BooksInv, SellType
  <2>3. InHand = 0 /\ InHand' = 0
    BY <2>1, <2>2 DEF InHand
  <2> QED BY <1>1, <2>1, <2>3
<1>6. CASE CutOff
  <2>1. sell.step = "judged" /\ sell' = Idle /\ UNCHANGED <<money, record, was, misses>>
    BY <1>6 DEF CutOff
  <2>2. InHand = 0 /\ InHand' = 0
    BY <2>1 DEF InHand
  <2> QED BY <1>1, <2>1, <2>2
<1>7. CASE CloseFails
  <2>1. /\ sell' = Idle /\ misses' = misses + 1 /\ UNCHANGED <<money, record, was>>
        /\ misses \in Nat
    BY <1>7 DEF CloseFails, AccountInv
  <2>2. InHand' = 0 /\ Lost = InHand
    BY <2>1 DEF InHand, Lost
  <2>3. Attributed' = Attributed /\ PartlyGained' = PartlyGained /\ realized' = realized
    BY <2>1 DEF Attributed, PartlyGained
  <2>4. realized - Attributed - PartlyGained \in Int
    <3>1. record \in Records /\ was \in Records /\ pos \in Books
      BY DEF BooksInv, PastTyped, Records, Books
    <3>2. PICK w \in Wallets : TRUE
      BY AdmissionAssumption
    <3>3. Attributed \in Int
      BY <3>1, <3>2, RecordsMove, SumsNamed
    <3>4. \A i \in Ids : Pnls(pos)[i] \in Int
      BY <3>1 DEF Books, Pnls
    <3>5. PartlyGained \in Int
      BY <3>4, AdmissionAssumption, SumInt, SumsNamed
    <3> QED BY <3>3, <3>5 DEF AccountInv
  <2>5. Unattributed' = Unattributed + Lost
    <3> DEFINE rest == realized - Attributed - PartlyGained
    <3>1. Unattributed = rest - InHand /\ Unattributed' = rest - 0
      BY <2>2, <2>3 DEF Unattributed
    <3> HIDE DEF rest
    <3>2. rest \in Int
      BY <2>4 DEF rest
    <3> QED BY <1>a, <2>2, <3>1, <3>2
  <2> QED BY <2>1, <2>5 DEF GainInv
<1>8. CASE Restart
  <2>1. crashes' = crashes + 1 /\ crashes \in Nat /\ pos' = disk /\ disk' = disk
    BY <1>8 DEF Restart, AccountInv
  <2>2. crashes' # crashes
    BY <2>1
  <2> QED BY <2>1, <2>2 DEF GainInv
<1>9. ASSUME NEW w \in Wallets, Uncutoff(w)
      PROVE  GainInv' /\ Unattributed' = Unattributed + Lost
  BY <1>2, <1>9 DEF Uncutoff
<1>10. CASE UNCHANGED vars
  BY <1>2, <1>10 DEF vars
<1>11. ASSUME NEW k \in 1..MaxShares, NEW p \in Prices, Open(k, p)
       PROVE  GainInv' /\ Unattributed' = Unattributed + Lost
  <2>1. GainInv' /\ Unattributed' = Unattributed
    BY <1>11, GainOpen
  <2>2. sell' = sell
    BY <1>11 DEF Open
  <2>3. sell' = Idle => InHand = 0
    BY <2>2 DEF InHand
  <2> QED BY <1>a, <2>1, <2>3 DEF Lost
<1>12. ASSUME NEW i \in Ids, NEW n \in 1..MaxShares, NEW p \in Prices, Close(i, n, p)
       PROVE  GainInv' /\ Unattributed' = Unattributed + Lost
  <2>1. GainInv' /\ Unattributed' = Unattributed
    BY <1>12, GainClose
  <2>2. InHand = 0
    BY <1>12 DEF Close, InHand
  <2> QED BY <1>b, <2>1, <2>2
<1>13. CASE Record
  <2>1. GainInv' /\ Unattributed' = Unattributed
    BY <1>13, GainRecord
  <2>2. misses' = misses
    BY <1>13 DEF Record
  <2> QED BY <1>b, <2>1, <2>2
<1> QED
  BY <1>3, <1>4, <1>5, <1>6, <1>7, <1>8, <1>9, <1>10, <1>11, <1>12, <1>13
  DEF Next, EntryTask, ExitTask

\* In no process does a partial close or an overlap with entries lose a gain or count it
\* twice: realized PnL moves with what traders' records gain, but for the gain of a
\* position whose closed row could not be written, which is lost whole.
THEOREM GainsHold == Spec => EveryGainAttributed
<1>1. BooksInv /\ BooksInv' /\ PastTyped /\ AccountInv /\ GainInv /\ [Next]_vars
        => [crashes' = crashes => Unattributed' = Unattributed + Lost]_vars
  BY GainStep
<1> QED
  BY <1>1, GainInit, GainStep, BooksAlways, PastAlways, AccountAlways, PTL
  DEF Spec, EveryGainAttributed, Lost
----------------------------------------------------------------------------
(* Closes and the records in the store.                                    *)

Unsaved == IF sell # Idle /\ sell.step = "recorded" THEN 1 ELSE 0

\* A record in memory has every close its row has, and the one that is to be saved.
\* What a failed save left behind, the next save of that trader makes good.
FollowInv ==
  /\ \A w \in Wallets : rows[w].trades <= record[w].trades
  /\ sell # Idle /\ sell.step = "recorded" =>
       rows[sell.who].trades + 1 <= record[sell.who].trades
  /\ closes - ClosesSaved <= crashes + misses + Unsaved

LEMMA FollowTyped ==
  ASSUME BooksInv, PastTyped, AccountInv
  PROVE  /\ closes \in Int /\ crashes \in Int /\ misses \in Int /\ ClosesSaved \in Int
         /\ \A w \in Wallets : rows[w].trades \in Int /\ record[w].trades \in Int
         /\ sell # Idle => sell.who \in Wallets
<1>1. rows \in Records /\ was \in Records /\ record \in Records
  BY DEF BooksInv, PastTyped, Records
<1>2. PICK w \in Wallets : TRUE
  BY AdmissionAssumption
<1>3. ClosesSaved \in Int
  BY <1>1, <1>2, RecordsMove, SumsNamed
<1>4. \A v \in Wallets : rows[v].trades \in Int /\ record[v].trades \in Int
  <2>1. \A v \in Wallets : rows[v] \in RecordType /\ record[v] \in RecordType
    BY <1>1 DEF Records
  <2>2. \A v \in Wallets : rows[v].trades \in Nat /\ record[v].trades \in Nat
    BY <2>1 DEF RecordType
  <2> QED BY <2>2
<1>5. closes \in Int /\ crashes \in Int /\ misses \in Int
  BY DEF AccountInv
<1>6. sell # Idle => sell.who \in Wallets
  BY DEF BooksInv, SellType
<1> QED BY <1>3, <1>4, <1>5, <1>6

LEMMA FollowInit == Init => FollowInv
<1> SUFFICES ASSUME Init PROVE FollowInv
  OBVIOUS
<1>1. was \in Records /\ record = was /\ rows = was /\ sell = Idle
      /\ closes = 0 /\ crashes = 0 /\ misses = 0
  BY BooksInit DEF Init, BooksInv, Records
<1>2. ClosesSaved = 0
  BY <1>1, RecordsStart, SumsNamed
<1>3. \A w \in Wallets : was[w].trades \in Int
  BY <1>1 DEF Records, RecordType
<1> QED BY <1>1, <1>2, <1>3 DEF FollowInv, Unsaved

\* A step that closes and saves nothing, and may miss a write.
LEMMA FollowKeeps ==
  ASSUME BooksInv, PastTyped, AccountInv, FollowInv,
         UNCHANGED <<record, rows, was, closes, crashes>>, misses' \in {misses, misses + 1},
         sell' = sell \/ (sell = Idle /\ sell'.step = "closed")
  PROVE  FollowInv'
<1>1. ClosesSaved' = ClosesSaved
  BY DEF ClosesSaved
<1>2. Unsaved' = Unsaved /\ Unsaved \in {0, 1}
  BY IdleStep DEF Unsaved
<1>3. closes' - ClosesSaved' <= crashes' + misses' + Unsaved'
  BY <1>1, <1>2, FollowTyped DEF FollowInv
<1> QED BY <1>3 DEF FollowInv

LEMMA FollowRecord ==
  ASSUME BooksInv, PastTyped, AccountInv, FollowInv, Record
  PROVE  FollowInv'
<1> USE DEF money, stats, limit, tasks, count
<1>1. /\ sell # Idle /\ sell.step = "closed" /\ UNCHANGED <<rows, was, crashes, misses>>
      /\ record' = [record EXCEPT ![sell.who] = RecordClose(@, sell.pnl)]
      /\ sell' = [sell EXCEPT !.step = "recorded"] /\ closes' = closes + 1
  BY IdleStep DEF Record
<1>2. sell.who \in Wallets /\ sell'.who = sell.who /\ sell'.step = "recorded"
  BY <1>1 DEF BooksInv, SellType
<1>3. record'[sell.who].trades = record[sell.who].trades + 1
      /\ \A w \in Wallets \ {sell.who} : record'[w] = record[w]
  <2>1. record'[sell.who] = RecordClose(record[sell.who], sell.pnl)
        /\ \A w \in Wallets \ {sell.who} : record'[w] = record[w]
    BY <1>1, <1>2 DEF BooksInv
  <2> QED BY <2>1 DEF RecordClose
<1>4. \A w \in Wallets : rows'[w].trades <= record'[w].trades
  BY <1>1, <1>2, <1>3, FollowTyped DEF FollowInv
<1>5. rows'[sell'.who].trades + 1 <= record'[sell'.who].trades
  BY <1>1, <1>2, <1>3, FollowTyped DEF FollowInv
<1>6. Unsaved = 0 /\ Unsaved' = 1
  BY <1>1, <1>2, IdleStep DEF Unsaved
<1>7. ClosesSaved' = ClosesSaved
  BY <1>1 DEF ClosesSaved
<1>8. closes' - ClosesSaved' <= crashes' + misses' + Unsaved'
  BY <1>1, <1>6, <1>7, FollowTyped DEF FollowInv
<1> QED BY <1>4, <1>5, <1>8 DEF FollowInv

LEMMA FollowSave ==
  ASSUME BooksInv, PastTyped, AccountInv, FollowInv, Save
  PROVE  FollowInv'
<1> USE DEF money, stats, limit, tasks, count
<1>1. /\ sell # Idle /\ sell.step = "recorded" /\ UNCHANGED <<record, was, closes, crashes, misses>>
      /\ rows' = [rows EXCEPT ![sell.who] = record[sell.who]]
      /\ sell' = Idle \/ sell' = [sell EXCEPT !.step = "judged"]
  BY IdleStep DEF Save
<1>2. sell.who \in Wallets /\ (sell' = Idle \/ sell'.step = "judged")
  BY <1>1 DEF BooksInv, SellType
<1>3. rows \in Records /\ rows' \in Records /\ was \in Records
  <2>1. rows \in Records /\ record \in Records /\ was \in Records
    BY DEF BooksInv, PastTyped, Records
  <2> QED BY <1>1, <1>2, <2>1 DEF Records
<1>4. /\ rows'[sell.who] = record[sell.who]
      /\ \A w \in Wallets \ {sell.who} : rows'[w] = rows[w]
  BY <1>1, <1>2, <1>3 DEF Records
<1>5. \A w \in Wallets : rows'[w].trades <= record'[w].trades
  BY <1>1, <1>4, FollowTyped DEF FollowInv
<1>6. ClosesSaved' = ClosesSaved + rows'[sell.who].trades - rows[sell.who].trades
  <2>1. SumFunctionOnSet(Saved(rows', was), Wallets)
          = SumFunctionOnSet(Saved(rows, was), Wallets)
              + rows'[sell.who].trades - rows[sell.who].trades
    BY <1>2, <1>3, <1>4, RecordsMove
  <2>2. was' = was
    BY <1>1
  <2> QED BY <2>1, <2>2, SumsNamed
<1>7. Unsaved = 1 /\ Unsaved' = 0
  BY <1>1, <1>2 DEF Unsaved
<1>8. closes' - ClosesSaved' <= crashes' + misses' + Unsaved'
  <2>1. rows[sell.who].trades + 1 <= rows'[sell.who].trades
    BY <1>1, <1>4 DEF FollowInv
  <2>2. rows'[sell.who].trades \in Int
    BY <1>2, <1>4, FollowTyped
  <2> QED BY <1>1, <1>2, <1>6, <1>7, <2>1, <2>2, FollowTyped DEF FollowInv
<1> QED BY <1>2, <1>5, <1>8 DEF FollowInv

LEMMA FollowStep ==
  BooksInv /\ PastTyped /\ AccountInv /\ FollowInv /\ [Next]_vars => FollowInv'
<1> SUFFICES ASSUME BooksInv, PastTyped, AccountInv, FollowInv, [Next]_vars
             PROVE  FollowInv'
  OBVIOUS
<1> USE DEF money, stats, limit, tasks, count
<1>1. ASSUME UNCHANGED <<record, rows, was, sell, closes, crashes, misses>> PROVE FollowInv'
  BY <1>1 DEF FollowInv, Unsaved, ClosesSaved
<1>2. ASSUME NEW w \in Wallets, NEW t \in Tokens, NEW px \in Prices, NEW ask \in Prices,
             NEW n \in 1..MaxShares, Admit(w, t, px, ask, n)
      PROVE  FollowInv'
  BY <1>1, <1>2 DEF Admit
<1>3. CASE NotFilled
  BY <1>1, <1>3 DEF NotFilled
<1>4. ASSUME NEW k \in 1..MaxShares, NEW p \in Prices, Open(k, p) PROVE FollowInv'
  <2>1. UNCHANGED <<record, rows, was, sell, closes, crashes>> /\ misses' \in {misses, misses + 1}
    BY <1>4 DEF Open, Upsert
  <2> QED BY <2>1, FollowKeeps
<1>10. ASSUME NEW i \in Ids, NEW n \in 1..MaxShares, NEW p \in Prices, Close(i, n, p)
       PROVE  FollowInv'
  <2>1. /\ UNCHANGED <<record, rows, was, closes, crashes>> /\ misses' \in {misses, misses + 1}
        /\ sell' = sell \/ (sell = Idle /\ sell'.step = "closed")
    BY <1>10 DEF Close, Upsert
  <2> QED BY <2>1, FollowKeeps
<1>5. CASE CutOff
  <2>1. sell.step = "judged" /\ sell' = Idle
        /\ UNCHANGED <<record, rows, was, closes, crashes, misses>>
    BY <1>5 DEF CutOff
  <2>2. Unsaved = 0 /\ Unsaved' = 0 /\ ClosesSaved' = ClosesSaved
    BY <2>1 DEF Unsaved, ClosesSaved
  <2> QED BY <2>1, <2>2 DEF FollowInv
<1>6. CASE CloseFails
  <2>1. sell' = Idle /\ misses' = misses + 1
        /\ UNCHANGED <<record, rows, was, closes, crashes>>
    BY <1>6 DEF CloseFails
  <2>2. Unsaved \in {0, 1} /\ Unsaved' = 0 /\ ClosesSaved' = ClosesSaved
    BY <2>1 DEF Unsaved, ClosesSaved
  <2>3. closes' - ClosesSaved' <= crashes' + misses' + Unsaved'
    BY <2>1, <2>2, FollowTyped DEF FollowInv
  <2> QED BY <2>1, <2>3 DEF FollowInv
<1>7. CASE Restart
  <2>1. sell' = Idle /\ crashes' = crashes + 1 /\ record' = rows
        /\ UNCHANGED <<rows, was, closes, misses>>
    BY <1>7 DEF Restart
  <2>2. Unsaved \in {0, 1} /\ Unsaved' = 0 /\ ClosesSaved' = ClosesSaved
    BY <2>1 DEF Unsaved, ClosesSaved
  <2>3. closes' - ClosesSaved' <= crashes' + misses' + Unsaved'
    BY <2>1, <2>2, FollowTyped DEF FollowInv
  <2>4. \A w \in Wallets : rows'[w].trades <= record'[w].trades
    BY <2>1, FollowTyped
  <2> QED BY <2>1, <2>3, <2>4 DEF FollowInv
<1>8. ASSUME NEW w \in Wallets, Uncutoff(w) PROVE FollowInv'
  BY <1>1, <1>8 DEF Uncutoff
<1>9. CASE UNCHANGED vars
  BY <1>1, <1>9 DEF vars
<1> QED
  BY <1>2, <1>3, <1>4, <1>5, <1>6, <1>7, <1>8, <1>9, <1>10, FollowRecord, FollowSave
  DEF Next, EntryTask, ExitTask

\* However many restarts and failed writes there were, the store has every close but
\* one for each of them and the one in hand.
THEOREM FollowHolds == Spec => []RecordsFollow
<1>1. BooksInv /\ PastTyped /\ AccountInv /\ FollowInv => RecordsFollow
  <2> SUFFICES ASSUME BooksInv, PastTyped, AccountInv, FollowInv PROVE RecordsFollow
    OBVIOUS
  <2>1. Unsaved \in {0, 1} /\ (sell = Idle => Unsaved = 0)
    BY DEF Unsaved
  <2> QED BY <2>1, FollowTyped DEF FollowInv, RecordsFollow
<1> QED
  BY <1>1, FollowInit, FollowStep, BooksAlways, PastAlways, AccountAlways, PTL DEF Spec
----------------------------------------------------------------------------
(* The reserve.                                                            *)

\* A cap of at most the whole cuts an amount to it.
LEMMA CapCuts ==
  ASSUME NEW a \in Int, NEW pct \in 0..100, NEW b \in Nat, 100 * a <= pct * b
  PROVE  a <= b
<1>1. \A x, y \in Nat : x * y \in Nat
  OBVIOUS
<1>2. 100 - pct \in Nat
  OBVIOUS
<1>3. (100 - pct) * b \in Nat
  BY <1>1, <1>2
<1>4. (100 - pct) * b = 100 * b - pct * b
  OBVIOUS
<1>5. pct * b \in Int
  OBVIOUS
<1> QED BY <1>3, <1>4, <1>5

\* What k shares cost at p is at most what n cost at a, and the overrun.
LEMMA FillCosts ==
  ASSUME NEW k \in Nat, NEW n \in Nat, k <= n, NEW p \in Nat, NEW a \in Nat
  PROVE  /\ k * p - Max({0, k * (p - a)}) <= n * a
         /\ k * p \in Int /\ n * a \in Int /\ Max({0, k * (p - a)}) \in Nat
<1>1. \A x, y \in Nat : x * y \in Nat
  OBVIOUS
<1>2. n - k \in Nat
  OBVIOUS
<1>3. (n - k) * a \in Nat /\ k * a \in Nat /\ k * p \in Nat /\ n * a \in Nat
  BY <1>1, <1>2
<1>4. (n - k) * a = n * a - k * a /\ k * (p - a) = k * p - k * a
  OBVIOUS
<1> DEFINE x == k * (p - a)
<1> HIDE DEF x
<1>5. x = k * p - k * a /\ x \in Int
  BY <1>3, <1>4 DEF x
<1>6. Max({0, x}) \in {0, x} /\ Max({0, x}) >= x /\ Max({0, x}) >= 0
  BY <1>5, MaxOfTwo
<1>7. k * p - Max({0, x}) <= n * a
  BY <1>3, <1>4, <1>5, <1>6
<1> QED BY <1>3, <1>5, <1>6, <1>7 DEF x

\* What an entry does to the positions.
LEMMA Opens ==
  ASSUME BooksInv, NEW k \in 1..MaxShares, NEW p \in Prices, Open(k, p)
  PROVE  \E i \in Ids \ Held :
           /\ pos'[i].tok = buy.tok /\ pos'[i].price = p /\ pos'[i].size = k
           /\ \A j \in Ids \ {i} : pos'[j] = pos[j]
<1>1. PICK i \in Free :
        pos' = [pos EXCEPT ![i] = [who |-> buy.who, tok |-> buy.tok, price |-> p,
                                   size |-> k, pnl |-> 0]]
  BY DEF Open
<1>3. i \in Ids \ Held
  BY DEF Free, Held
<1>2. /\ pos'[i].tok = buy.tok /\ pos'[i].price = p /\ pos'[i].size = k
      /\ \A j \in Ids \ {i} : pos'[j] = pos[j]
  BY <1>1, <1>3 DEF BooksInv
<1> QED BY <1>2, <1>3

\* What a fill of a close does to them.
LEMMA Closes ==
  ASSUME BooksInv, NEW i \in Ids, NEW n \in 1..MaxShares, NEW p \in Prices, Close(i, n, p)
  PROVE  /\ i \in Held /\ n <= pos[i].size
         /\ \A j \in Ids \ {i} : pos'[j] = pos[j]
         /\ pos'[i].price * pos'[i].size = pos[i].price * (pos[i].size - n)
         /\ pos'[i].size > 0 => pos'[i].tok = pos[i].tok
<1> DEFINE gain == (p - pos[i].price) * n
           left == [pos[i] EXCEPT !.size = @ - n, !.pnl = @ + gain]
<1>1. /\ i \in Held /\ n <= pos[i].size
      /\ IF left.size = 0 THEN pos' = [pos EXCEPT ![i] = NoPosition]
         ELSE pos' = [pos EXCEPT ![i] = left]
  BY DEF Close
<1>2. pos \in Books
  BY DEF BooksInv, Books
<1>3. /\ left.size = pos[i].size - n /\ left.price = pos[i].price /\ left.tok = pos[i].tok
      /\ pos[i].price \in Nat /\ pos[i].size \in Nat
  BY <1>2 DEF Books
<1> HIDE DEF left
<1>4. \A j \in Ids \ {i} : pos'[j] = pos[j]
  BY <1>1, <1>2 DEF Books
<1>5. CASE left.size = 0
  <2>1. pos'[i] = NoPosition
    BY <1>1, <1>2, <1>5 DEF Books
  <2>2. pos'[i].price = 0 /\ pos'[i].size = 0
    BY <2>1 DEF NoPosition
  <2>3. pos[i].price * (pos[i].size - n) = 0
    BY <1>3, <1>5
  <2> QED BY <1>1, <1>4, <2>2, <2>3
<1>6. CASE left.size # 0
  <2>1. pos'[i] = left
    BY <1>1, <1>2, <1>6 DEF Books
  <2> QED BY <1>1, <1>3, <1>4, <2>1
<1> QED BY <1>5, <1>6

\* An opening takes what it costs from the bankroll.
LEMMA RawOpens ==
  ASSUME BooksInv, BooksInv', AccountInv,
         NEW k \in 1..MaxShares, NEW p \in Prices, Open(k, p)
  PROVE  Raw \in Int /\ Raw' = Raw - k * p
<1>1. pos \in Books /\ pos' \in Books
  BY DEF BooksInv, Books
<1>2. PICK i \in Ids \ Held :
        /\ pos'[i].price = p /\ pos'[i].size = k
        /\ \A j \in Ids \ {i} : pos'[j] = pos[j]
  BY Opens
<1>3. pos[i].price * pos[i].size = 0
  <2>1. pos[i].price \in Nat /\ pos[i].size \in Nat /\ ~(pos[i].size > 0)
    BY <1>1, <1>2 DEF Books, Held
  <2> QED BY <2>1
<1>4. p * k = k * p /\ k * p \in Int
  <2>1. \A q \in Prices : q \in Int
    BY AdmissionAssumption
  <2> QED BY <2>1
<1>5. CostOf(Held)' = CostOf(Held) + p * k - 0
  BY <1>1, <1>2, <1>3, CostsMove, HeldCost
<1>6. realized \in Int /\ realized' = realized
  BY DEF Open, AccountInv
<1>7. CostOf(Held) \in Int /\ Raw \in Int /\ Start \in Int
  BY <1>1, <1>6, BankrollTyped, AdmissionAssumption DEF Validated
<1>8. Raw' = Start + realized' - CostOf(Held)'
  BY DEF Raw
<1> QED BY <1>4, <1>5, <1>6, <1>7, <1>8 DEF Raw

\* A close brings in what it is filled at.
LEMMA RawCloses ==
  ASSUME BooksInv, BooksInv', AccountInv,
         NEW i \in Ids, NEW n \in 1..MaxShares, NEW p \in Prices, Close(i, n, p)
  PROVE  Raw \in Int /\ Raw' \in Int /\ Raw' >= Raw
<1>1. pos \in Books /\ pos' \in Books
  BY DEF BooksInv, Books
<1>2. /\ n <= pos[i].size /\ \A j \in Ids \ {i} : pos'[j] = pos[j]
      /\ pos'[i].price * pos'[i].size = pos[i].price * (pos[i].size - n)
  BY Closes
<1>3. CostOf(Held)' = CostOf(Held) + pos'[i].price * pos'[i].size - pos[i].price * pos[i].size
  BY <1>1, <1>2, CostsMove, HeldCost
<1>4. pos[i].price \in Nat /\ pos[i].size \in Nat /\ p \in Nat /\ n \in Nat
  <2>1. \A q \in Prices : q \in Nat
    BY AdmissionAssumption
  <2> QED BY <1>1, <2>1 DEF Books
<1>5. realized \in Int /\ realized' = realized + (p - pos[i].price) * n
  BY DEF Close, AccountInv
<1>6. CostOf(Held) \in Int /\ Raw \in Int /\ Start \in Int
  BY <1>1, <1>5, BankrollTyped, AdmissionAssumption DEF Validated
<1>7. /\ pos[i].price * (pos[i].size - n) = pos[i].price * pos[i].size - pos[i].price * n
      /\ (p - pos[i].price) * n = p * n - pos[i].price * n
      /\ pos[i].price * pos[i].size \in Nat /\ pos[i].price * n \in Nat /\ p * n \in Nat
  <2>1. \A x, y \in Nat : x * y \in Nat
    OBVIOUS
  <2>2. \A x, y, z \in Nat : x * (y - z) = x * y - x * z /\ (x - y) * z = x * z - y * z
    OBVIOUS
  <2> QED BY <1>4, <2>1, <2>2
<1>8. CostOf(Held)' = CostOf(Held) - pos[i].price * n
  BY <1>2, <1>3, <1>6, <1>7
<1>9. Raw' = Start + realized' - CostOf(Held)'
  BY DEF Raw
<1> QED BY <1>5, <1>6, <1>7, <1>8, <1>9 DEF Raw

\* What is left when the entry in execution has cost what it was sized at.
ReserveInv == buy # Idle => Raw - buy.n * buy.ask >= Reserve

\* The step form of the reserve: only a fill takes from the bankroll.
Leaves == Raw' < Raw => Raw' >= Reserve - (over' - over)

LEMMA ReserveInit == Init => ReserveInv /\ Raw >= Reserve
<1> SUFFICES ASSUME Init PROVE ReserveInv /\ Raw >= Reserve
  OBVIOUS
<1>1. \A i \in Ids : ~(pos[i].size > 0)
  BY DEF Init, NoPosition
<1>2. Held = {}
  BY <1>1 DEF Held
<1>3. CostOf(Held) = 0
  BY <1>2, SumEmpty DEF CostOf
<1>4. Start \in Int /\ Reserve \in Int /\ Reserve <= Start
  BY AdmissionAssumption DEF Validated
<1>5. Raw = Start /\ buy = Idle
  BY <1>3, <1>4 DEF Init, Raw
<1> QED BY <1>4, <1>5 DEF ReserveInv

LEMMA ReserveAdmit ==
  ASSUME BooksInv, AccountInv, NEW w \in Wallets, NEW t \in Tokens,
         NEW px \in Prices, NEW ask \in Prices, NEW n \in 1..MaxShares,
         Admit(w, t, px, ask, n)
  PROVE  ReserveInv' /\ Leaves
<1> USE DEF money, stats, limit, tasks, count
<1>1. /\ UNCHANGED <<pos, realized>> /\ Sized(t, n * ask)
      /\ buy'.n = n /\ buy'.ask = ask
  BY DEF Admit
<1>2. Raw' = Raw
  BY <1>1 DEF Raw, CostOf, Cost, Held
<1>3. /\ Raw \in Int /\ Bankroll \in Nat /\ (Bankroll > 0 => Bankroll = Raw - Reserve)
      /\ Reserve \in Int
  BY BankrollTyped, AdmissionAssumption DEF BooksInv, AccountInv, Books, Validated
<1>4. n * ask \in Int
  <2>1. \A q \in Prices : q \in Int
    BY AdmissionAssumption
  <2> QED BY <2>1
<1>5. TradePct \in 0..100
  BY AdmissionAssumption DEF Validated
<1> DEFINE cost == n * ask
<1>6. Bankroll > 0 /\ 100 * cost <= TradePct * Bankroll
  BY <1>1 DEF Sized, Within
<1> HIDE DEF cost
<1>7. cost \in Int
  BY <1>4 DEF cost
<1>8. cost <= Bankroll
  BY <1>3, <1>5, <1>6, <1>7, CapCuts
<1>9. Raw' - cost >= Reserve
  BY <1>2, <1>3, <1>6, <1>7, <1>8
<1>10. Leaves
  BY <1>2, <1>3 DEF Leaves
<1> QED BY <1>1, <1>9, <1>10 DEF ReserveInv, cost

LEMMA ReserveOpen ==
  ASSUME BooksInv, BooksInv', AccountInv, ReserveInv,
         NEW k \in 1..MaxShares, NEW p \in Prices, Open(k, p)
  PROVE  ReserveInv' /\ Leaves
<1> USE DEF money, stats, limit, tasks, count
<1>1. /\ buy # Idle /\ k <= buy.n /\ buy' = Idle
      /\ over' = over + Max({0, k * (p - buy.ask)})
  BY DEF Open
<1>2. k \in Nat /\ p \in Nat /\ buy.n \in Nat /\ buy.ask \in Nat
  <2>1. \A q \in Prices : q \in Nat
    BY AdmissionAssumption
  <2>2. buy.n \in 1..MaxShares /\ buy.ask \in Prices
    BY <1>1 DEF AccountInv, BuyType
  <2> QED BY <2>1, <2>2
<1> DEFINE extra == Max({0, k * (p - buy.ask)})  cost == buy.n * buy.ask  paid == k * p
<1>3. extra \in Nat /\ cost \in Int /\ paid \in Int /\ paid - extra <= cost
  BY <1>1, <1>2, FillCosts
<1>4. Raw \in Int /\ Raw' = Raw - paid
  BY RawOpens
<1>5. over \in Nat /\ Reserve \in Int
  BY AdmissionAssumption DEF AccountInv, Validated
<1>6. Raw - cost >= Reserve
  BY <1>1 DEF ReserveInv
<1>7. over' = over + extra
  BY <1>1
<1> HIDE DEF extra, cost, paid
<1>8. Raw' >= Reserve - (over' - over)
  BY <1>3, <1>4, <1>5, <1>6, <1>7
<1> QED BY <1>1, <1>8 DEF ReserveInv, Leaves

LEMMA ReserveClose ==
  ASSUME BooksInv, BooksInv', AccountInv, ReserveInv,
         NEW i \in Ids, NEW n \in 1..MaxShares, NEW p \in Prices, Close(i, n, p)
  PROVE  ReserveInv' /\ Leaves
<1>1. buy' = buy
  BY DEF Close
<1>2. Raw \in Int /\ Raw' \in Int /\ Raw' >= Raw
  BY RawCloses
<1>3. Reserve \in Int
  BY AdmissionAssumption DEF Validated
<1>4. buy # Idle => buy.n * buy.ask \in Int
  <2>1. \A q \in Prices : q \in Int
    BY AdmissionAssumption
  <2>2. buy # Idle => buy.n \in 1..MaxShares /\ buy.ask \in Prices
    BY DEF AccountInv, BuyType
  <2> QED BY <2>1, <2>2
<1>5. buy # Idle => Raw' - buy.n * buy.ask >= Reserve
  BY <1>2, <1>3, <1>4 DEF ReserveInv
<1>6. Leaves
  BY <1>2 DEF Leaves
<1> QED BY <1>1, <1>5, <1>6 DEF ReserveInv

LEMMA ReserveStep ==
  BooksInv /\ BooksInv' /\ AccountInv /\ ReserveInv /\ [Next]_vars
    => ReserveInv' /\ (crashes' = crashes => Leaves)
<1> SUFFICES ASSUME BooksInv, BooksInv', AccountInv, ReserveInv, [Next]_vars
             PROVE  ReserveInv' /\ (crashes' = crashes => Leaves)
  OBVIOUS
<1> USE DEF money, stats, limit, tasks, count
<1>1. ASSUME UNCHANGED <<pos, realized>>, buy' \in {buy, Idle}
      PROVE  ReserveInv' /\ Leaves
  <2>1. Raw' = Raw
    BY <1>1 DEF Raw, CostOf, Cost, Held
  <2>2. Raw \in Int
    BY BankrollTyped DEF BooksInv, AccountInv, Books
  <2> QED BY <1>1, <2>1, <2>2 DEF ReserveInv, Leaves
<1>2. CASE NotFilled
  BY <1>1, <1>2 DEF NotFilled
<1>3. CASE Record \/ Save
  BY <1>1, <1>3 DEF Record, Save
<1>4. CASE CutOff \/ CloseFails
  BY <1>1, <1>4 DEF CutOff, CloseFails
<1>5. CASE Restart
  <2>1. crashes' = crashes + 1 /\ crashes \in Nat /\ buy' = Idle
    BY <1>5 DEF Restart, AccountInv
  <2>2. crashes' # crashes
    BY <2>1
  <2> QED BY <2>1, <2>2 DEF ReserveInv
<1>6. ASSUME NEW w \in Wallets, Uncutoff(w) PROVE ReserveInv' /\ Leaves
  BY <1>1, <1>6 DEF Uncutoff
<1>7. CASE UNCHANGED vars
  BY <1>1, <1>7 DEF vars
<1> QED
  BY <1>2, <1>3, <1>4, <1>5, <1>6, <1>7, ReserveAdmit, ReserveOpen, ReserveClose
  DEF Next, EntryTask, ExitTask

\* For any caps that a configuration may have, and whatever closes at any price come
\* between the gate and the fill, no entry of any process deploys the reserve.
THEOREM ReserveHolds == Spec => ReserveKept
<1>1. BooksInv /\ BooksInv' /\ AccountInv /\ ReserveInv /\ [Next]_vars
        => [crashes' = crashes /\ Raw' < Raw => Raw' >= Reserve - (over' - over)]_vars
  BY ReserveStep DEF Leaves
<1> QED
  BY <1>1, ReserveInit, ReserveStep, BooksAlways, AccountAlways, PTL DEF Spec, ReserveKept
----------------------------------------------------------------------------
(* The caps on exposure.                                                   *)

\* The positions in tokens of K, and of them those in the market and the group of t.
In(q, K)     == {i \in Sized0(q) : q[i].tok \in K}
MarketMates(t) == {u \in Tokens : MarketOf[u] = MarketOf[t]}
GroupMates(t)  == {u \in Tokens : GroupOf[u] = GroupOf[t]}
CostIn(q, K) == SumFunctionOnSet(Costs(q), In(q, K))

LEMMA CostsNamed ==
  ASSUME pos \in Books, pos' \in Books
  PROVE  /\ CostOf(Held) = CostIn(pos, Tokens) /\ CostOf(Held)' = CostIn(pos', Tokens)
         /\ \A t \in Tokens :
              /\ CostOf(InMarket(t)) = CostIn(pos, MarketMates(t))
              /\ CostOf(InMarket(t))' = CostIn(pos', MarketMates(t))
              /\ CostOf(InGroup(t)) = CostIn(pos, GroupMates(t))
              /\ CostOf(InGroup(t))' = CostIn(pos', GroupMates(t))
<1>1. \A i \in Ids : pos[i].tok \in Tokens /\ pos'[i].tok \in Tokens
  BY DEF Books
<1>2. Held = In(pos, Tokens) /\ Held' = In(pos', Tokens)
  BY <1>1 DEF Held, In, Sized0
<1>3. ASSUME NEW t \in Tokens
      PROVE  /\ InMarket(t) = In(pos, MarketMates(t)) /\ InMarket(t)' = In(pos', MarketMates(t))
             /\ InGroup(t) = In(pos, GroupMates(t)) /\ InGroup(t)' = In(pos', GroupMates(t))
  BY <1>1 DEF InMarket, InGroup, Held, In, Sized0, MarketMates, GroupMates
<1>4. Cost = Costs(pos) /\ Cost' = Costs(pos')
  BY DEF Cost, Costs
<1> QED BY <1>2, <1>3, <1>4 DEF CostOf, CostIn

LEMMA CostInTyped ==
  ASSUME NEW q \in Books, NEW K
  PROVE  CostIn(q, K) \in Nat
<1>1. In(q, K) \in SUBSET Ids
  BY DEF In, Sized0
<1> QED BY <1>1, CostsTyped DEF CostIn

\* A fill of a close adds to the cost of no set of tokens.
LEMMA CostInLess ==
  ASSUME NEW q \in Books, NEW r \in Books, NEW i \in Ids, NEW K,
         \A j \in Ids \ {i} : r[j] = q[j],
         q[i].size > 0, r[i].price * r[i].size <= q[i].price * q[i].size,
         r[i].size > 0 => r[i].tok = q[i].tok
  PROVE  CostIn(r, K) <= CostIn(q, K)
<1>1. /\ \A j \in Ids : Costs(q)[j] = q[j].price * q[j].size /\ Costs(q)[j] \in Nat
      /\ \A j \in Ids : Costs(r)[j] = r[j].price * r[j].size /\ Costs(r)[j] \in Nat
  BY CostsTyped
<1>2. In(r, K) \in SUBSET In(q, K) /\ In(q, K) \in SUBSET Ids
  BY DEF In, Sized0
<1>3. IsFiniteSet(In(q, K))
  BY <1>2, AdmissionAssumption, FS_Subset
<1>4. \A j \in Ids : Costs(r)[j] <= Costs(q)[j]
  <2>1. Costs(r)[i] <= Costs(q)[i]
    BY <1>1
  <2>2. ASSUME NEW j \in Ids \ {i} PROVE Costs(r)[j] <= Costs(q)[j]
    <3>1. Costs(r)[j] = Costs(q)[j] /\ Costs(q)[j] \in Nat
      BY <1>1
    <3> QED BY <3>1
  <2> QED BY <2>1, <2>2
<1>5. /\ \A j \in In(q, K) : Costs(r)[j] \in Int /\ Costs(q)[j] \in Nat
      /\ \A j \in In(r, K) : Costs(r)[j] <= Costs(q)[j]
  BY <1>1, <1>2, <1>4
<1>6. SumFunctionOnSet(Costs(r), In(r, K)) <= SumFunctionOnSet(Costs(q), In(q, K))
  BY <1>2, <1>3, <1>5, SumLess
<1> QED BY <1>6 DEF CostIn

\* A position that is opened adds what it costs to the sets of its token.
LEMMA CostInMore ==
  ASSUME NEW q \in Books, NEW r \in Books, NEW i \in Ids, NEW K,
         \A j \in Ids \ {i} : r[j] = q[j],
         ~(q[i].size > 0), r[i].size > 0, r[i].tok \in K
  PROVE  CostIn(r, K) = CostIn(q, K) + r[i].price * r[i].size
<1>1. /\ \A j \in Ids : Costs(q)[j] = q[j].price * q[j].size /\ Costs(q)[j] \in Nat
      /\ \A j \in Ids : Costs(r)[j] = r[j].price * r[j].size /\ Costs(r)[j] \in Nat
  BY CostsTyped
<1>2. In(r, K) = In(q, K) \cup {i} /\ i \notin In(q, K) /\ In(q, K) \in SUBSET Ids
  BY DEF In, Sized0
<1>3. IsFiniteSet(In(q, K))
  BY <1>2, AdmissionAssumption, FS_Subset
<1>4. \A j \in In(q, K) : Costs(r)[j] = Costs(q)[j]
  BY <1>1, <1>2
<1>5. \A j \in In(q, K) \cup {i} : Costs(r)[j] \in Int
  BY <1>1, <1>2
<1>6. SumFunctionOnSet(Costs(r), In(q, K) \cup {i})
        = Costs(r)[i] + SumFunctionOnSet(Costs(r), In(q, K))
  BY <1>2, <1>3, <1>5, SumPut
<1>7. SumFunctionOnSet(Costs(r), In(q, K)) = SumFunctionOnSet(Costs(q), In(q, K))
  BY <1>3, <1>4, SumSame
<1>8. Costs(r)[i] \in Int /\ CostIn(q, K) \in Int
  BY <1>1, CostInTyped
<1> QED BY <1>1, <1>2, <1>6, <1>7, <1>8 DEF CostIn

LEMMA WithinLess ==
  ASSUME NEW a \in Int, NEW b \in Int, NEW pct, NEW base, pct * base \in Int,
         a <= b, Within(b, pct, base)
  PROVE  Within(a, pct, base)
<1> DEFINE x == pct * base
<1>1. x \in Int /\ 100 * b <= x
  BY DEF Within
<1> HIDE DEF x
<1>2. 100 * a <= x
  BY <1>1
<1> QED BY <1>2 DEF Within, x

\* With an entry in execution at what it was sized at, the caps hold.
CapsInv ==
  buy # Idle =>
    LET cost == buy.n * buy.ask
    IN  /\ Within(CostIn(pos, Tokens) + cost, GlobalPct, buy.bank)
        /\ Within(CostIn(pos, GroupMates(buy.tok)) + cost, GroupPct, buy.bank)
        /\ Within(CostIn(pos, MarketMates(buy.tok)) + cost, MarketPct, buy.bank)

LEMMA CapsTyped ==
  ASSUME AccountInv, buy # Idle
  PROVE  /\ buy.n * buy.ask \in Int /\ buy.n \in Nat /\ buy.ask \in Nat /\ buy.tok \in Tokens
         /\ GlobalPct * buy.bank \in Int /\ GroupPct * buy.bank \in Int
         /\ MarketPct * buy.bank \in Int
<1>1. \A q \in Prices : q \in Nat
  BY AdmissionAssumption
<1>2. buy.n \in 1..MaxShares /\ buy.ask \in Prices /\ buy.tok \in Tokens /\ buy.bank \in Nat
  BY DEF AccountInv, BuyType
<1>3. buy.n \in Nat /\ buy.ask \in Nat
  BY <1>1, <1>2
<1>4. GlobalPct \in 0..100 /\ GroupPct \in 0..100 /\ MarketPct \in 0..100
  BY AdmissionAssumption DEF Validated
<1>5. \A x, y \in Int : x * y \in Int
  OBVIOUS
<1>6. GlobalPct \in Int /\ GroupPct \in Int /\ MarketPct \in Int
  BY <1>4
<1> QED BY <1>2, <1>3, <1>5, <1>6

LEMMA CapsInit == Init => CapsInv
BY DEF Init, CapsInv

LEMMA CapsAdmit ==
  ASSUME BooksInv, BooksInv', NEW w \in Wallets, NEW t \in Tokens, NEW px \in Prices,
         NEW ask \in Prices, NEW n \in 1..MaxShares, Admit(w, t, px, ask, n)
  PROVE  CapsInv'
<1> USE DEF money, stats, limit, tasks, count
<1>1. /\ pos' = pos /\ Sized(t, n * ask) /\ Gate(t, n * ask)
      /\ buy'.n = n /\ buy'.ask = ask /\ buy'.tok = t /\ buy'.bank = Bankroll
  BY DEF Admit
<1>2. /\ Within(CostOf(Held) + n * ask, GlobalPct, Bankroll)
      /\ Within(CostOf(InGroup(t)) + n * ask, GroupPct, Bankroll)
      /\ Within(CostOf(InMarket(t)) + n * ask, MarketPct, Bankroll)
  BY <1>1 DEF Sized, Gate
<1>3. pos \in Books /\ pos' \in Books
  BY DEF BooksInv, Books
<1>4. /\ CostOf(Held) = CostIn(pos, Tokens)
      /\ CostOf(InMarket(t)) = CostIn(pos, MarketMates(t))
      /\ CostOf(InGroup(t)) = CostIn(pos, GroupMates(t))
  BY <1>3, CostsNamed
<1> QED BY <1>1, <1>2, <1>4 DEF CapsInv

LEMMA CapsClose ==
  ASSUME BooksInv, BooksInv', AccountInv, CapsInv,
         NEW i \in Ids, NEW n \in 1..MaxShares, NEW p \in Prices, Close(i, n, p)
  PROVE  CapsInv'
<1>1. pos \in Books /\ pos' \in Books /\ buy' = buy
  BY DEF BooksInv, Books, Close
<1>2. /\ i \in Held /\ n <= pos[i].size /\ \A j \in Ids \ {i} : pos'[j] = pos[j]
      /\ pos'[i].price * pos'[i].size = pos[i].price * (pos[i].size - n)
      /\ pos'[i].size > 0 => pos'[i].tok = pos[i].tok
  BY Closes
<1>3. pos[i].size > 0 /\ pos'[i].price * pos'[i].size <= pos[i].price * pos[i].size
  <2>1. pos[i].price \in Nat /\ pos[i].size \in Nat /\ n \in Nat
    BY <1>1 DEF Books
  <2>2. \A x, y, z \in Nat : x * (y - z) = x * y - x * z /\ x * y \in Nat /\ x * z \in Nat
    OBVIOUS
  <2>3. /\ pos[i].price * (pos[i].size - n) = pos[i].price * pos[i].size - pos[i].price * n
        /\ pos[i].price * pos[i].size \in Nat /\ pos[i].price * n \in Nat
    BY <2>1, <2>2
  <2> QED BY <1>2, <2>3 DEF Held
<1>4. \A K : CostIn(pos', K) <= CostIn(pos, K)
  BY <1>1, <1>2, <1>3, CostInLess
<1>5. ASSUME NEW K, NEW pct, buy # Idle, pct * buy.bank \in Int,
             Within(CostIn(pos, K) + buy.n * buy.ask, pct, buy.bank)
      PROVE  Within(CostIn(pos', K) + buy.n * buy.ask, pct, buy.bank)
  <2> DEFINE cost == buy.n * buy.ask
  <2>1. cost \in Int
    BY <1>5, CapsTyped
  <2> HIDE DEF cost
  <2>2. CostIn(pos, K) \in Int /\ CostIn(pos', K) \in Int
    BY <1>1, CostInTyped
  <2>3. CostIn(pos', K) + cost <= CostIn(pos, K) + cost
    BY <1>4, <2>1, <2>2
  <2>4. CostIn(pos', K) + cost \in Int /\ CostIn(pos, K) + cost \in Int
    BY <2>1, <2>2
  <2>5. Within(CostIn(pos, K) + cost, pct, buy.bank)
    BY <1>5 DEF cost
  <2>6. Within(CostIn(pos', K) + cost, pct, buy.bank)
    BY <1>5, <2>3, <2>4, <2>5, WithinLess
  <2> QED BY <2>6 DEF cost
<1> QED BY <1>1, <1>5, CapsTyped DEF CapsInv

LEMMA CapsStep ==
  BooksInv /\ BooksInv' /\ AccountInv /\ CapsInv /\ [Next]_vars => CapsInv'
<1> SUFFICES ASSUME BooksInv, BooksInv', AccountInv, CapsInv, [Next]_vars
             PROVE  CapsInv'
  OBVIOUS
<1> USE DEF money, stats, limit, tasks, count
<1>1. ASSUME UNCHANGED pos, buy' \in {buy, Idle} PROVE CapsInv'
  BY <1>1 DEF CapsInv
<1>2. CASE NotFilled
  BY <1>1, <1>2 DEF NotFilled
<1>3. CASE Record \/ Save
  BY <1>1, <1>3 DEF Record, Save
<1>4. CASE CutOff \/ CloseFails
  BY <1>1, <1>4 DEF CutOff, CloseFails
<1>5. CASE Restart
  BY <1>5 DEF Restart, CapsInv
<1>6. ASSUME NEW w \in Wallets, Uncutoff(w) PROVE CapsInv'
  BY <1>1, <1>6 DEF Uncutoff
<1>7. CASE UNCHANGED vars
  BY <1>1, <1>7 DEF vars
<1>8. ASSUME NEW k \in 1..MaxShares, NEW p \in Prices, Open(k, p) PROVE CapsInv'
  BY <1>8 DEF Open, CapsInv
<1> QED
  BY <1>2, <1>3, <1>4, <1>5, <1>6, <1>7, <1>8, CapsAdmit, CapsClose
  DEF Next, EntryTask, ExitTask

\* What is opened costs at most what it was sized at, and the overrun.
LEMMA CapsOpen ==
  ASSUME BooksInv, BooksInv', AccountInv, CapsInv, NEW t \in Tokens,
         NEW k \in 1..MaxShares, NEW p \in Prices, Open(k, p), buy.tok = t
  PROVE  /\ Within(CostOf(Held)' - (over' - over), GlobalPct, buy.bank)
         /\ Within(CostOf(InGroup(t))' - (over' - over), GroupPct, buy.bank)
         /\ Within(CostOf(InMarket(t))' - (over' - over), MarketPct, buy.bank)
<1>1. pos \in Books /\ pos' \in Books
  BY DEF BooksInv, Books
<1>2. PICK i \in Ids \ Held :
        /\ pos'[i].tok = t /\ pos'[i].price = p /\ pos'[i].size = k
        /\ \A j \in Ids \ {i} : pos'[j] = pos[j]
  BY Opens
<1>3. ~(pos[i].size > 0) /\ pos'[i].size > 0
  BY <1>2 DEF Held
<1>4. \A K : t \in K => CostIn(pos', K) = CostIn(pos, K) + p * k
  BY <1>1, <1>2, <1>3, CostInMore
<1>5. /\ buy # Idle /\ k <= buy.n /\ over' = over + Max({0, k * (p - buy.ask)})
      /\ over \in Nat
  BY DEF Open, AccountInv
<1>6. k \in Nat /\ p \in Nat
  <2>1. \A q \in Prices : q \in Nat
    BY AdmissionAssumption
  <2> QED BY <2>1
<1> DEFINE extra == Max({0, k * (p - buy.ask)})  cost == buy.n * buy.ask  paid == k * p
<1>7. extra \in Nat /\ cost \in Int /\ paid \in Int /\ paid - extra <= cost
  BY <1>5, <1>6, FillCosts, CapsTyped
<1>8. p * k = paid
  BY <1>6
<1>9. over' - over = extra
  BY <1>5, <1>7
<1>10. ASSUME NEW K, NEW pct, t \in K, pct * buy.bank \in Int,
              Within(CostIn(pos, K) + buy.n * buy.ask, pct, buy.bank)
       PROVE  Within(CostIn(pos', K) - (over' - over), pct, buy.bank)
  <2>1. Within(CostIn(pos, K) + cost, pct, buy.bank)
    BY <1>10
  <2>2. CostIn(pos', K) = CostIn(pos, K) + paid
    BY <1>4, <1>8, <1>10
  <2> HIDE DEF extra, cost, paid
  <2>3. CostIn(pos, K) \in Int /\ CostIn(pos', K) \in Int
    BY <1>1, CostInTyped
  <2>4. CostIn(pos', K) - extra <= CostIn(pos, K) + cost
    BY <1>7, <2>2, <2>3
  <2>5. CostIn(pos', K) - extra \in Int /\ CostIn(pos, K) + cost \in Int
    BY <1>7, <2>3
  <2>6. Within(CostIn(pos', K) - extra, pct, buy.bank)
    BY <1>10, <2>1, <2>4, <2>5, WithinLess
  <2> QED BY <1>9, <2>6
<1>11. t \in Tokens /\ t \in GroupMates(t) /\ t \in MarketMates(t)
  BY DEF GroupMates, MarketMates
<1>12. /\ Within(CostIn(pos, Tokens) + buy.n * buy.ask, GlobalPct, buy.bank)
       /\ Within(CostIn(pos, GroupMates(t)) + buy.n * buy.ask, GroupPct, buy.bank)
       /\ Within(CostIn(pos, MarketMates(t)) + buy.n * buy.ask, MarketPct, buy.bank)
  BY <1>5 DEF CapsInv
<1>13. /\ Within(CostIn(pos', Tokens) - (over' - over), GlobalPct, buy.bank)
       /\ Within(CostIn(pos', GroupMates(t)) - (over' - over), GroupPct, buy.bank)
       /\ Within(CostIn(pos', MarketMates(t)) - (over' - over), MarketPct, buy.bank)
  BY <1>5, <1>10, <1>11, <1>12, CapsTyped
<1> QED BY <1>1, <1>13, CostsNamed

CapsAtOpen ==
  \A t \in Tokens : opens' = opens + 1 /\ buy.tok = t =>
    /\ Within(CostOf(Held)' - (over' - over), GlobalPct, buy.bank)
    /\ Within(CostOf(InGroup(t))' - (over' - over), GroupPct, buy.bank)
    /\ Within(CostOf(InMarket(t))' - (over' - over), MarketPct, buy.bank)

LEMMA CapsAct ==
  BooksInv /\ BooksInv' /\ AccountInv /\ CapsInv /\ [Next]_vars => CapsAtOpen
<1> SUFFICES ASSUME BooksInv, BooksInv', AccountInv, CapsInv, [Next]_vars,
                    NEW t \in Tokens, opens' = opens + 1, buy.tok = t
             PROVE  /\ Within(CostOf(Held)' - (over' - over), GlobalPct, buy.bank)
                    /\ Within(CostOf(InGroup(t))' - (over' - over), GroupPct, buy.bank)
                    /\ Within(CostOf(InMarket(t))' - (over' - over), MarketPct, buy.bank)
  BY DEF CapsAtOpen
<1> USE DEF money, stats, limit, tasks, count
<1>1. opens' # opens
  <2>1. opens \in 0..MaxOpens /\ MaxOpens \in Nat
    BY AdmissionAssumption DEF AccountInv
  <2> QED BY <2>1
<1>2. PICK k \in 1..MaxShares, p \in Prices : Open(k, p)
  <2>1. ~NotFilled /\ ~Record /\ ~Save /\ ~CutOff /\ ~CloseFails /\ ~Restart
    BY <1>1 DEF NotFilled, Record, Save, CutOff, CloseFails, Restart
  <2>2. ~UNCHANGED vars /\ \A w \in Wallets : ~Uncutoff(w)
    BY <1>1 DEF vars, Uncutoff
  <2>3. \A w \in Wallets, u \in Tokens, px \in Prices, ask \in Prices, n \in 1..MaxShares :
          ~Admit(w, u, px, ask, n)
    BY <1>1 DEF Admit
  <2>4. \A i \in Ids, n \in 1..MaxShares, p \in Prices : ~Close(i, n, p)
    BY <1>1 DEF Close
  <2> QED BY <2>1, <2>2, <2>3, <2>4 DEF Next, EntryTask, ExitTask
<1> QED BY <1>2, CapsOpen

\* For any markets, groups and caps: between gate and fill the exit task can only
\* make room, so that what the gate saw to fit still fits.
THEOREM CapsHold == Spec => CapsHoldAtOpen
<1>1. BooksInv /\ BooksInv' /\ AccountInv /\ CapsInv /\ [Next]_vars => [CapsAtOpen]_vars
  BY CapsAct
<1> QED
  BY <1>1, CapsInit, CapsStep, BooksAlways, AccountAlways, PTL
  DEF Spec, CapsHoldAtOpen, CapsAtOpen
=============================================================================
