-------------------------- MODULE MirrorExitProofs --------------------------
(***************************************************************************)
(* Proofs about MirrorExit, for any traders, ages, windows and bounds: its *)
(* types, that a copy is flattened for a later sell of its own trader      *)
(* only, that such a sell stays there to flatten it, and that the hits of  *)
(* a cluster are close in time.                                            *)
(***************************************************************************)
EXTENDS MirrorExit, TLAPS, SequenceTheorems, FiniteSetTheorems

\* The traders' trades, of the past, each with a time of its own.
TapeInv ==
  /\ IsFiniteSet(tape)
  /\ \A t \in tape : t.ts <= now
  /\ \A s, t \in tape : s.by = t.by /\ s.ts = t.ts => s = t

\* What the entry task knows is of the past as well.
IInv == TypeOK /\ TapeInv /\ \A h \in hits : h.ts <= now

----------------------------------------------------------------------------
(* Lemmas about the data.                                                  *)

LEMMA HitTyped ==
  ASSUME NEW t \in TradeType
  PROVE  Hit(t) \in HitType /\ Hit(t).by = t.by /\ Hit(t).ts = t.ts
BY DEF Hit, TradeType, HitType

\* A page of the poll is a batch of trades.
LEMMA PageIsBatch ==
  ASSUME TypeOK, TapeInv, NEW page \in SUBSET tape,
         NEW b \in [1..Cardinality(page) -> page]
  PROVE  b \in Seq(tape) /\ Len(b) = Cardinality(page)
<1>1. Cardinality(page) \in Nat
  BY FS_Subset, FS_CardinalityType DEF TapeInv
<1>2. b \in Seq(page)
  BY <1>1
<1>3. b \in Seq(tape)
  BY <1>2, SeqMonotonic
<1> QED
  BY <1>1, <1>3

\* The signal at hand and what is left of the batch.
LEMMA BatchSplit ==
  ASSUME TypeOK, batch # <<>>
  PROVE  /\ Head(batch) \in tape /\ Head(batch) = batch[1]
         /\ Tail(batch) \in Seq(tape)
         /\ Len(batch) \in Nat \ {0} /\ Len(Tail(batch)) = Len(batch) - 1
         /\ \A i \in 1..Len(Tail(batch)) : /\ Tail(batch)[i] = batch[i + 1]
                                           /\ i + 1 \in 1..Len(batch)
<1>1. batch \in Seq(tape)
  BY DEF TypeOK
<1>2. Len(batch) \in Nat \ {0}
  BY <1>1, EmptySeq
<1>3. /\ Head(batch) \in tape /\ Tail(batch) \in Seq(tape)
      /\ Len(Tail(batch)) = Len(batch) - 1
      /\ \A i \in 1..Len(Tail(batch)) : Tail(batch)[i] = batch[i + 1]
  BY <1>1, HeadTailProperties
<1> QED
  BY <1>1, <1>2, <1>3

----------------------------------------------------------------------------
(* Types.                                                                  *)

LEMMA TypeInit ==
  ASSUME MirrorAssumption, Init
  PROVE  IInv
BY EmptySeq, FS_EmptySet DEF MirrorAssumption, Init, IInv, TypeOK, TapeInv, None, Sells

LEMMA TypeClaim ==
  ASSUME MirrorAssumption, IInv, Claim
  PROVE  IInv'
<1>1. Head(batch) \in tape /\ Tail(batch) \in Seq(tape)
  BY BatchSplit DEF Claim, IInv
<1>2. hand' \subseteq tape /\ Cardinality(hand') <= 1
  <2>1. hand' = {Head(batch)} /\ Cardinality({Head(batch)}) = 1
    BY FS_Singleton, Zenon DEF Claim
  <2> QED
    BY <1>1, <2>1
<1>3. batch' \in Seq(tape) /\ claimed' \subseteq tape
  BY <1>1 DEF Claim, IInv, TypeOK
<1> QED
  BY <1>2, <1>3 DEF Claim, book, cluster, IInv, TypeOK, TapeInv

LEMMA TypeNote ==
  ASSUME MirrorAssumption, IInv, Note
  PROVE  IInv'
<1>0. PICK t \in hand :
        /\ Observe(t)
        /\ IF t.side = "SELL"
           THEN /\ sold' = (sold \ {s \in sold : s.by = t.by}) \cup {Hit(t)}
                /\ dropped' = dropped \cup {s.by : s \in {x \in {s \in sold : s.by = t.by} : x.ts > t.ts}}
                /\ UNCHANGED copying
           ELSE copying' \in {None, {t}} /\ UNCHANGED <<sold, dropped>>
  BY DEF Note
<1>1. t \in tape
  BY DEF IInv, TypeOK
<1>2. /\ t \in TradeType /\ t.ts \in 1..now /\ t.by \in Traders
  BY <1>1 DEF IInv, TypeOK, TapeInv, TradeType, MirrorAssumption
<1>3. Hit(t) \in HitType /\ Hit(t).by = t.by /\ Hit(t).ts = t.ts
  BY <1>2, HitTyped
<1>4. hits' \subseteq HitType /\ \A h \in hits' : h.ts <= now
  BY <1>0, <1>2, <1>3 DEF Observe, IInv, TypeOK
<1>5. emitted' \subseteq 1..now
  BY <1>0, <1>2 DEF Observe, IInv, TypeOK
<1>6. /\ sold' \subseteq HitType /\ \A r, s \in sold' : r.by = s.by => r = s
      /\ dropped' \subseteq Traders
  <2>1. CASE t.side = "SELL"
    <3>1. /\ sold' = (sold \ {s \in sold : s.by = t.by}) \cup {Hit(t)}
          /\ dropped' = dropped \cup {s.by : s \in {x \in {s \in sold : s.by = t.by} : x.ts > t.ts}}
      BY <2>1, <1>0
    <3>2. dropped' \subseteq Traders
      BY <3>1, Zenon DEF IInv, TypeOK, HitType
    <3> QED
      BY <3>1, <3>2, <1>3 DEF IInv, TypeOK
  <2>2. CASE t.side # "SELL"
    BY <2>2, <1>0 DEF IInv, TypeOK
  <2> QED  BY <2>1, <2>2
<1>7. copying' \subseteq tape /\ Cardinality(copying') <= 1
  <2>1. copying' \in {copying, None, {t}}
    BY <1>0
  <2>2. Cardinality({}) = 0 /\ Cardinality({t}) = 1
    BY FS_EmptySet, FS_Singleton, Zenon
  <2>3. copying' \subseteq tape
    BY <2>1, <1>1 DEF None, IInv, TypeOK
  <2>4. CASE copying' = copying
    BY <2>3, <2>4 DEF IInv, TypeOK
  <2>5. CASE copying' = {}
    BY <2>2, <2>3, <2>5
  <2>6. CASE copying' = {t}
    <3>1. Cardinality(copying') = 1
      BY <2>2, <2>6, Zenon
    <3> QED
      BY <2>3, <3>1
  <2> QED
    BY <2>1, <2>4, <2>5, <2>6 DEF None
<1>8. hand' \subseteq tape /\ Cardinality(hand') <= 1
  BY FS_EmptySet DEF Note, None
<1> QED
  BY <1>4, <1>5, <1>6, <1>7, <1>8 DEF Note, book, IInv, TypeOK, TapeInv

LEMMA TypeNext ==
  ASSUME MirrorAssumption, IInv, [Next]_vars
  PROVE  IInv'
<1>1. CASE UNCHANGED vars
  BY <1>1 DEF vars, entry, book, cluster, IInv, TypeOK, TapeInv
<1>2. CASE Tick
  <2>1. now' \in 1..MaxTime /\ now' = now + 1 /\ now \in Nat
    BY <1>2 DEF Tick, IInv, TypeOK, MirrorAssumption
  <2>2. \A t \in tape : t.ts <= now'
    BY <2>1 DEF IInv, TapeInv, TypeOK, TradeType
  <2>3. \A h \in hits : h.ts <= now'
    BY <2>1 DEF IInv, TypeOK, HitType
  <2>4. emitted \subseteq 1..now'
    BY <2>1 DEF IInv, TypeOK
  <2> QED
    BY <1>2, <2>1, <2>2, <2>3, <2>4 DEF Tick, entry, book, cluster, IInv, TypeOK, TapeInv
<1>3. ASSUME NEW by \in Traders, NEW side \in {"BUY", "SELL"}, Trade(by, side)
      PROVE  IInv'
  <2> DEFINE t == [by |-> by, side |-> side, ts |-> now]
  <2>1. t \in TradeType /\ t.ts = now /\ t.by = by
    BY DEF IInv, TypeOK, TradeType
  <2>2. tape' = tape \cup {t}
    BY <1>3 DEF Trade
  <2>3. IsFiniteSet(tape')
    BY <2>2, FS_AddElement DEF IInv, TapeInv
  <2>4. \A s \in tape : s.by = by => s.ts < now
    BY <1>3 DEF Trade
  <2> HIDE DEF t
  <2>5. now \in Nat /\ \A s \in tape : s.ts \in Nat
    BY DEF IInv, TypeOK, TradeType, MirrorAssumption
  <2>6. \A s \in tape' : s.ts <= now
    BY <2>1, <2>2, <2>5 DEF IInv, TapeInv
  <2>7. \A r, s \in tape' : r.by = s.by /\ r.ts = s.ts => r = s
    BY <2>1, <2>2, <2>4, <2>5 DEF IInv, TapeInv
  <2>8. batch \in Seq(tape')
    BY <2>2, SeqMonotonic DEF IInv, TypeOK
  <2> QED
    BY <1>3, <2>1, <2>2, <2>3, <2>6, <2>7, <2>8
       DEF Trade, entry, book, cluster, IInv, TypeOK, TapeInv
<1>4. ASSUME NEW page \in SUBSET tape, Poll(page)
      PROVE  IInv'
  <2>1. batch' \in Seq(tape)
    BY <1>4, PageIsBatch DEF Poll, IInv
  <2> QED
    BY <1>4, <2>1 DEF Poll, book, cluster, IInv, TypeOK, TapeInv
<1>5. CASE Claim
  BY <1>5, TypeClaim
<1>6. CASE ClaimFails
  BY <1>6, BatchSplit DEF ClaimFails, book, cluster, IInv, TypeOK, TapeInv
<1>7. CASE Note
  BY <1>7, TypeNote
<1>8. CASE RecordFails
  <2>1. Unnoted \subseteq Traders
    BY DEF Unnoted, Sells, IInv, TypeOK, TradeType
  <2> QED
    BY <1>8, <2>1, FS_EmptySet DEF RecordFails, None, book, cluster, IInv, TypeOK, TapeInv
<1>9. CASE Open
  <2>1. \A t \in copying : [of |-> t, opened |-> now] \in CopyType
    BY DEF IInv, TypeOK, CopyType
  <2>2. copying' = {} /\ Cardinality(copying') <= 1
    BY <1>9, FS_EmptySet DEF Open, None
  <2>3. copies' \subseteq CopyType /\ pass \subseteq copies'
    BY <1>9, <2>1 DEF Open, IInv, TypeOK
  <2> QED
    BY <1>9, <2>2, <2>3 DEF Open, cluster, IInv, TypeOK, TapeInv
<1>10. CASE Begin
  BY <1>10 DEF Begin, entry, cluster, IInv, TypeOK, TapeInv
<1>11. CASE Visit
  BY <1>11 DEF Visit, Flatten, NotFlattened, ByPrice, Sends, ComesTo, entry, cluster,
               IInv, TypeOK, TapeInv
<1>12. CASE Evict
  BY <1>12 DEF Evict, entry, book, cluster, IInv, TypeOK, TapeInv, HitType
<1>13. CASE Restart
  <2>1. batch' = <<>> /\ batch' \in Seq(tape) /\ Cardinality({}) = 0
    BY <1>13, EmptySeq, FS_EmptySet DEF Restart
  <2>2. starts' \in 0..MaxStarts
    BY <1>13 DEF Restart, IInv, TypeOK, MirrorAssumption
  <2>3. dropped' \subseteq Traders
    <3>1. Unnoted \subseteq Traders
      BY DEF Unnoted, Sells, IInv, TypeOK, TradeType
    <3>2. {s.by : s \in sold} \subseteq Traders
      BY DEF IInv, TypeOK, HitType
    <3> QED
      BY <1>13, <3>1, <3>2 DEF Restart, IInv, TypeOK
  <2> QED
    BY <1>13, <2>1, <2>2, <2>3 DEF Restart, None, IInv, TypeOK, TapeInv
<1> QED
  BY <1>1, <1>2, <1>3, <1>4, <1>5, <1>6, <1>7, <1>8, <1>9, <1>10, <1>11, <1>12, <1>13
     DEF Next, Entry

LEMMA IInvHolds == Spec => []IInv
<1>1. Init => IInv
  BY TypeInit, MirrorAssumption
<1>2. IInv /\ [Next]_vars => IInv'
  BY TypeNext, MirrorAssumption
<1> QED
  BY <1>1, <1>2, PTL DEF Spec

\* The state of the followers is always of its types: one copy in execution at
\* most, and one sell a trader in the cache.
THEOREM TypesHold == Spec => []TypeOK
<1>1. IInv => TypeOK
  BY DEF IInv
<1> QED
  BY <1>1, IInvHolds, PTL

----------------------------------------------------------------------------
(* The cache of sells.                                                     *)

\* The cache holds sells that were handled; a copy is of a buy, and opened no
\* earlier than that was made.
CacheInv ==
  /\ \A x \in sold : \E s \in Sells(claimed) : s.by = x.by /\ s.ts = x.ts
  /\ hand \subseteq claimed /\ \A t \in copying : t.side = "BUY"
  /\ \A c \in copies : c.of \in tape /\ c.of.side = "BUY" /\ c.opened >= c.of.ts

LEMMA CacheNext ==
  ASSUME MirrorAssumption, IInv, CacheInv, [Next]_vars
  PROVE  CacheInv'
<1>1. CASE UNCHANGED vars
  BY <1>1 DEF vars, entry, book, CacheInv, Sells
<1>2. CASE Tick
  BY <1>2 DEF Tick, entry, book, CacheInv, Sells
<1>3. ASSUME NEW by \in Traders, NEW side \in {"BUY", "SELL"}, Trade(by, side)
      PROVE  CacheInv'
  BY <1>3 DEF Trade, entry, book, CacheInv, Sells
<1>4. ASSUME NEW page \in SUBSET tape, Poll(page)
      PROVE  CacheInv'
  BY <1>4 DEF Poll, book, CacheInv, Sells
<1>5. CASE Claim
  BY <1>5 DEF Claim, book, CacheInv, Sells
<1>6. CASE ClaimFails
  BY <1>6 DEF ClaimFails, book, CacheInv, Sells
<1>7. CASE Note
  <2>1. PICK t \in hand :
          IF t.side = "SELL"
          THEN sold' = (sold \ {s \in sold : s.by = t.by}) \cup {Hit(t)} /\ UNCHANGED copying
          ELSE copying' \in {None, {t}} /\ UNCHANGED sold
    BY <1>7 DEF Note
  <2>2. t \in claimed /\ t.side \in {"BUY", "SELL"}
    BY DEF CacheInv, IInv, TypeOK, TradeType
  <2>3. UNCHANGED <<claimed, tape, copies>> /\ hand' = {}
    BY <1>7 DEF Note, book, None
  <2>4. \A x \in sold' : x \in sold \/ (t.side = "SELL" /\ x.by = t.by /\ x.ts = t.ts)
    BY <2>1 DEF Hit
  <2>5. \A x \in sold' : \E s \in Sells(claimed') : s.by = x.by /\ s.ts = x.ts
    BY <2>2, <2>3, <2>4 DEF CacheInv, Sells
  <2>6. \A r \in copying' : r.side = "BUY"
    BY <2>1, <2>2 DEF CacheInv, None
  <2> QED
    BY <2>3, <2>5, <2>6 DEF CacheInv
<1>8. CASE RecordFails
  BY <1>8 DEF RecordFails, None, book, CacheInv, Sells
<1>9. CASE Open
  <2>1. \A t \in copying : t \in tape /\ t.side = "BUY" /\ t.ts <= now
    BY DEF IInv, TypeOK, TapeInv, CacheInv
  <2>2. \A c \in copies' : c \in copies \/ \E t \in copying : c.of = t /\ c.opened = now
    BY <1>9 DEF Open
  <2>3. now \in Nat /\ \A t \in copying : t.ts \in Nat
    BY DEF IInv, TypeOK, TradeType
  <2>4. \A c \in copies' : c.of \in tape /\ c.of.side = "BUY" /\ c.opened >= c.of.ts
    BY <2>1, <2>2, <2>3 DEF CacheInv
  <2> QED
    BY <1>9, <2>4 DEF Open, CacheInv, None, Sells
<1>10. CASE Begin
  BY <1>10 DEF Begin, entry, CacheInv, Sells
<1>11. CASE Visit
  BY <1>11 DEF Visit, Flatten, NotFlattened, ByPrice, Sends, ComesTo, entry, CacheInv, Sells
<1>12. CASE Evict
  BY <1>12 DEF Evict, entry, book, CacheInv, Sells
<1>13. CASE Restart
  BY <1>13 DEF Restart, CacheInv, None, Sells
<1> QED
  BY <1>1, <1>2, <1>3, <1>4, <1>5, <1>6, <1>7, <1>8, <1>9, <1>10, <1>11, <1>12, <1>13
     DEF Next, Entry

LEMMA CacheHolds == Spec => []CacheInv
<1>1. Init => CacheInv
  BY DEF Init, CacheInv, None
<1>2. IInv /\ CacheInv /\ [Next]_vars => CacheInv'
  BY CacheNext, MirrorAssumption
<1> QED
  BY <1>1, <1>2, IInvHolds, PTL DEF Spec

\* A flatten is sent for a sell of the copy's own trader only, and one made after the
\* buy it copies: a sell of the buy's own instant would be the same trade.
THEOREM NoEarlierSell == Spec => NoExitForEarlierSell
<1>1. ASSUME IInv, CacheInv, NEW c \in pass, Sends(c)
      PROVE  \E s \in Sells(claimed) : s.by = c.of.by /\ s.ts > c.of.ts
  <2>1. PICK x \in sold : x.by = c.of.by /\ x.ts >= c.opened
    BY <1>1 DEF Sends, SoldAfter
  <2>2. PICK s \in Sells(claimed) : s.by = x.by /\ s.ts = x.ts
    BY <1>1 DEF CacheInv
  <2>3. c \in copies /\ c.of \in tape /\ c.of.side = "BUY" /\ c.opened >= c.of.ts
    BY <1>1 DEF CacheInv, IInv, TypeOK
  <2>4. s \in tape /\ s.side = "SELL"
    BY <1>1 DEF IInv, TypeOK, Sells
  <2>5. s.ts # c.of.ts
    BY <1>1, <2>1, <2>2, <2>3, <2>4 DEF IInv, TapeInv
  <2>6. s.ts \in Nat /\ c.of.ts \in Nat /\ c.opened \in Nat
    BY <1>1, <2>3, <2>4 DEF IInv, TypeOK, TradeType, CopyType
  <2>7. s.ts > c.of.ts
    BY <2>1, <2>2, <2>3, <2>5, <2>6
  <2> QED
    BY <2>1, <2>2, <2>7
<1>2. IInv /\ CacheInv /\ [Next]_vars
        => [\A c \in pass : Sends(c) =>
              \E s \in Sells(claimed) : s.by = c.of.by /\ s.ts > c.of.ts]_vars
  BY <1>1
<1> QED
  BY <1>2, IInvHolds, CacheHolds, PTL DEF Spec, NoExitForEarlierSell

----------------------------------------------------------------------------
(* What later sells leave.                                                 *)

\* Unless it never got or has lost a sell of a trader, the cache holds his latest;
\* the claimed sell in hand it is still to get.
LatestInv ==
  \A t \in Sells(claimed) : \/ t \in hand \/ t.by \in dropped
                            \/ \E s \in sold : s.by = t.by /\ s.ts >= t.ts

LEMMA LatestNote ==
  ASSUME MirrorAssumption, IInv, CacheInv, LatestInv, Note
  PROVE  LatestInv'
<1>0. PICK t \in hand :
        IF t.side = "SELL"
        THEN /\ sold' = (sold \ {s \in sold : s.by = t.by}) \cup {Hit(t)}
             /\ dropped' = dropped \cup {s.by : s \in {x \in {s \in sold : s.by = t.by} : x.ts > t.ts}}
        ELSE UNCHANGED <<sold, dropped>>
  BY DEF Note
<1>1. t \in tape /\ claimed \subseteq tape /\ claimed' = claimed /\ dropped \subseteq dropped'
  BY <1>0 DEF Note, IInv, TypeOK
<1>2. \A r \in tape : r.ts \in Nat /\ r.side \in {"BUY", "SELL"}
  BY DEF IInv, TypeOK, TradeType
<1>3. \A s \in sold : s.ts \in Nat
  BY DEF IInv, TypeOK, HitType
<1>4. hand = {t}
  <2>1. IsFiniteSet(hand) /\ Cardinality(hand) <= 1
    BY FS_Subset DEF IInv, TypeOK, TapeInv
  <2>2. Cardinality(hand \ {t}) = Cardinality(hand) - 1
    BY <2>1, FS_RemoveElement
  <2>3. IsFiniteSet(hand \ {t}) /\ Cardinality(hand \ {t}) \in Nat /\ Cardinality(hand) \in Nat
    BY <2>1, FS_RemoveElement, FS_CardinalityType
  <2>4. Cardinality(hand \ {t}) = 0
    BY <2>1, <2>2, <2>3
  <2>5. hand \ {t} = {}
    BY <2>3, <2>4, FS_EmptySet
  <2> QED
    BY <2>5
<1>5. CASE t.side = "SELL"
  <2>1. sold' = (sold \ {s \in sold : s.by = t.by}) \cup {Hit(t)}
    BY <1>0, <1>5
  <2>2. \A s \in sold : s.by = t.by /\ s.ts > t.ts => s.by \in dropped'
    BY <1>0, <1>5
  <2>3. Hit(t).by = t.by /\ Hit(t).ts = t.ts
    BY DEF Hit
  <2>4. ASSUME NEW r \in Sells(claimed'), r.by \notin dropped'
        PROVE  \E s \in sold' : s.by = r.by /\ s.ts >= r.ts
    <3>1. CASE r = t
      BY <3>1, <2>1, <2>3, <1>1, <1>2
    <3>2. CASE r # t
      <4>1. r \in Sells(claimed) /\ r.by \notin dropped /\ r \in tape /\ r \notin hand
        BY <3>2, <2>4, <1>1, <1>4 DEF Sells
      <4>2. PICK s \in sold : s.by = r.by /\ s.ts >= r.ts
        BY <4>1 DEF LatestInv
      <4>3. CASE r.by = t.by
        <5>1. ~(s.ts > t.ts)
          BY <4>2, <4>3, <2>2, <2>4
        <5>2. t.ts >= r.ts
          BY <5>1, <4>1, <4>2, <1>1, <1>2, <1>3
        <5> QED
          BY <5>2, <4>3, <2>1, <2>3
      <4>4. CASE r.by # t.by
        BY <4>2, <4>4, <2>1
      <4> QED
        BY <4>3, <4>4
    <3> QED
      BY <3>1, <3>2
  <2> QED
    BY <2>4 DEF LatestInv
<1>6. CASE t.side # "SELL"
  <2>1. Sells(claimed') = Sells(claimed) /\ UNCHANGED <<sold, dropped>>
    BY <1>0, <1>1, <1>6
  <2>2. \A r \in Sells(claimed) : r \notin hand
    BY <1>4, <1>6 DEF Sells
  <2> QED
    BY <2>1, <2>2 DEF LatestInv
<1> QED
  BY <1>5, <1>6

LEMMA LatestNext ==
  ASSUME MirrorAssumption, IInv, CacheInv, LatestInv, [Next]_vars
  PROVE  LatestInv'
<1>1. CASE Claim
  <2>1. /\ claimed' = claimed \cup {Head(batch)} /\ hand' = {Head(batch)} /\ hand = {}
        /\ UNCHANGED <<sold, dropped>>
    BY <1>1 DEF Claim, None
  <2> QED
    BY <2>1 DEF LatestInv, Sells
<1>2. CASE Note
  BY <1>2, LatestNote
<1>3. CASE RecordFails
  <2>1. UNCHANGED <<claimed, sold>> /\ dropped' = dropped \cup {t.by : t \in Sells(hand)}
    BY <1>3 DEF RecordFails, Unnoted
  <2> QED
    BY <2>1 DEF LatestInv, Sells
<1>4. CASE Evict
  <2>1. /\ sold' = sold \ {s \in sold : s.ts + TTL < now} /\ UNCHANGED <<claimed, hand>>
        /\ dropped' = dropped \cup {s.by : s \in {x \in sold : x.ts + TTL < now}}
    BY <1>4 DEF Evict, entry
  <2>2. ASSUME NEW t \in Sells(claimed), t \notin hand, t.by \notin dropped'
        PROVE  \E s \in sold' : s.by = t.by /\ s.ts >= t.ts
    <3>1. PICK s \in sold : s.by = t.by /\ s.ts >= t.ts
      BY <2>1, <2>2 DEF LatestInv
    <3>2. ~(s.ts + TTL < now)
      BY <2>1, <2>2, <3>1
    <3> QED
      BY <2>1, <3>1, <3>2
  <2> QED
    BY <2>1, <2>2 DEF LatestInv
<1>5. CASE Restart
  <2>1. /\ claimed' = claimed
        /\ dropped' = dropped \cup {s.by : s \in sold} \cup {t.by : t \in Sells(hand)}
    BY <1>5 DEF Restart, Unnoted
  <2>2. \A t \in Sells(claimed) : t.by \in dropped'
    BY <2>1 DEF LatestInv, Sells
  <2> QED
    BY <2>1, <2>2 DEF LatestInv
<1>6. CASE UNCHANGED <<claimed, hand, sold, dropped>>
  BY <1>6 DEF LatestInv
<1> QED
  BY <1>1, <1>2, <1>3, <1>4, <1>5, <1>6
     DEF Next, Entry, Tick, Trade, Poll, ClaimFails, Open, Begin, Visit, Flatten,
         NotFlattened, ByPrice, Sends, ComesTo, entry, vars

\* The exit pass would flatten a copy that was followed, unless the cache is still
\* to get the sell, or never got or has lost one.
FollowedIsArmed ==
  \A c \in copies : Followed(c) => SoldAfter(c) \/ c.of.by \in Unnoted \cup dropped

\* And no price exit ends such a copy first: it stays until a flatten fills.
ArmedLeavesByExit ==
  \A c \in copies : Followed(c) /\ c \notin copies'
                       => Flatten(c) \/ c.of.by \in Unnoted \cup dropped

\* What LaterSellMirrored rests on: from the moment a sell made at or after the
\* opening of a copy is noted, every exit pass that comes to the copy sends its
\* flatten, whatever order signals come in and whatever is claimed, evicted,
\* restarted, broken off or not filled, until one fills; the copy leaves no other
\* way.  Left out are the time between the claim of the sell and its note, and a
\* trader of whom a claimed sell was never noted or was lost from the cache
\* (orchestrator.py:153-177, 366-402, 432-440).
THEOREM LaterSellStands == Spec => []FollowedIsArmed /\ [][ArmedLeavesByExit]_vars
<1>1. Spec => []LatestInv
  <2>1. Init => LatestInv
    BY DEF Init, LatestInv, Sells
  <2>2. IInv /\ CacheInv /\ LatestInv /\ [Next]_vars => LatestInv'
    BY LatestNext, MirrorAssumption
  <2> QED
    BY <2>1, <2>2, IInvHolds, CacheHolds, PTL DEF Spec
<1>2. IInv /\ LatestInv => FollowedIsArmed
  <2> SUFFICES ASSUME IInv, LatestInv, NEW c \in copies, Followed(c),
                      c.of.by \notin Unnoted, c.of.by \notin dropped
               PROVE  SoldAfter(c)
    BY DEF FollowedIsArmed
  <2>1. PICK t \in Sells(claimed) : t.by = c.of.by /\ t.ts >= c.opened
    BY DEF Followed
  <2>2. t \notin hand
    BY <2>1 DEF Unnoted, Sells
  <2>3. PICK s \in sold : s.by = t.by /\ s.ts >= t.ts
    BY <2>1, <2>2 DEF LatestInv
  <2>4. s.ts \in Nat /\ t.ts \in Nat /\ c.opened \in Nat
    BY <2>1 DEF IInv, TypeOK, HitType, TradeType, CopyType, Sells
  <2> QED
    BY <2>1, <2>3, <2>4 DEF SoldAfter
<1>3. FollowedIsArmed /\ [Next]_vars => ArmedLeavesByExit
  <2> SUFFICES ASSUME FollowedIsArmed, [Next]_vars, NEW c \in copies, Followed(c),
                      c \notin copies'
               PROVE  Flatten(c) \/ c.of.by \in Unnoted \cup dropped
    BY DEF ArmedLeavesByExit
  <2>1. ~(copies \subseteq copies')
    OBVIOUS
  <2>2. Visit
    BY <2>1 DEF Next, Entry, Tick, Trade, Poll, Claim, ClaimFails, Note, RecordFails, Open,
                Begin, Evict, Restart, book, vars
  <2>3. PICK d \in pass : Flatten(d) \/ NotFlattened(d) \/ ByPrice(d)
    BY <2>2 DEF Visit
  <2>4. CASE Flatten(d)
    <3>1. d = c
      BY <2>4 DEF Flatten
    <3> QED
      BY <2>4, <3>1
  <2>5. CASE NotFlattened(d)
    BY <2>1, <2>5 DEF NotFlattened
  <2>6. CASE ByPrice(d)
    <3>1. d = c /\ ~SoldAfter(d)
      BY <2>6 DEF ByPrice
    <3> QED
      BY <3>1 DEF FollowedIsArmed
  <2> QED
    BY <2>3, <2>4, <2>5, <2>6
<1> QED
  BY <1>1, <1>2, <1>3, IInvHolds, PTL DEF Spec

----------------------------------------------------------------------------
(* The aggregator.                                                         *)

Near(g, h) == g.ts <= h.ts + Window \/ g.ts <= h.ts + MaxAge

\* Of the signals still to be observed, none is older than the greatest age before
\* any other or before a hit.
SpanInv ==
  /\ \A g, h \in hits : Near(g, h)
  /\ \A t \in hand : \A h \in hits : h.ts <= t.ts + MaxAge
  /\ \A t \in hand : \A i \in 1..Len(batch) : t.ts <= batch[i].ts + MaxAge
  /\ \A i \in 1..Len(batch) : \A h \in hits : h.ts <= batch[i].ts + MaxAge
  /\ \A i, j \in 1..Len(batch) : batch[i].ts <= batch[j].ts + MaxAge

LEMMA SpanTake ==
  ASSUME MirrorAssumption, IInv, SpanInv, batch # <<>>, batch' = Tail(batch), hits' = hits,
         hand' \in {hand, {Head(batch)}}
  PROVE  SpanInv'
<1>1. /\ Head(batch) = batch[1] /\ 1 \in 1..Len(batch)
      /\ \A i \in 1..Len(Tail(batch)) : /\ Tail(batch)[i] = batch[i + 1]
                                       /\ i + 1 \in 1..Len(batch)
  BY BatchSplit DEF IInv
<1>2. \A t \in hand' : t \in hand \/ t = batch[1]
  BY <1>1
<1>3. \A t \in hand' : \A h \in hits : h.ts <= t.ts + MaxAge
  BY <1>1, <1>2 DEF SpanInv
<1>4. \A t \in hand' : \A i \in 1..Len(Tail(batch)) : t.ts <= Tail(batch)[i].ts + MaxAge
  BY <1>1, <1>2 DEF SpanInv
<1>5. \A i \in 1..Len(Tail(batch)) : \A h \in hits : h.ts <= Tail(batch)[i].ts + MaxAge
  BY <1>1 DEF SpanInv
<1>6. \A i, j \in 1..Len(Tail(batch)) : Tail(batch)[i].ts <= Tail(batch)[j].ts + MaxAge
  BY <1>1 DEF SpanInv
<1> QED
  BY <1>3, <1>4, <1>5, <1>6 DEF SpanInv

LEMMA SpanNote ==
  ASSUME MirrorAssumption, IInv, SpanInv, Note
  PROVE  SpanInv'
<1>1. PICK t \in hand : hits' = {h \in hits : h.ts + Window >= t.ts} \cup {Hit(t)}
  BY DEF Note, Observe
<1>2. t.ts \in Nat /\ \A h \in hits : h.ts \in Nat
  BY DEF IInv, TypeOK, TradeType, HitType
<1>3. Hit(t).ts = t.ts
  BY DEF Hit
<1>4. \A h \in hits : h.ts <= t.ts + MaxAge
  BY DEF SpanInv
<1>5. \A g, h \in hits' : Near(g, h)
  BY <1>1, <1>2, <1>3, <1>4 DEF SpanInv, Near, MirrorAssumption
<1>6. \A i \in 1..Len(batch) : \A h \in hits' : h.ts <= batch[i].ts + MaxAge
  BY <1>1, <1>3 DEF SpanInv
<1>7. hand' = {} /\ batch' = batch
  BY DEF Note, None
<1> QED
  BY <1>5, <1>6, <1>7 DEF SpanInv

LEMMA SpanNext ==
  ASSUME MirrorAssumption, IInv, SpanInv, [Next]_vars
  PROVE  SpanInv'
<1>1. CASE UNCHANGED <<batch, hand, hits>>
  BY <1>1 DEF SpanInv
<1>2. ASSUME NEW page \in SUBSET tape, Poll(page)
      PROVE  SpanInv'
  <2>1. PICK b \in [1..Cardinality(page) -> page] : batch' = b
    BY <1>2 DEF Poll
  <2>2. /\ Len(b) = Cardinality(page) /\ page \subseteq Fresh /\ hits' = hits
        /\ hand = {} /\ hand' = {}
    BY <1>2, PageIsBatch DEF Poll, IInv, cluster, None
  <2>3. \A t \in page : t.ts \in Nat /\ t.ts <= now /\ now <= t.ts + MaxAge
    BY <2>2 DEF Fresh, IInv, TypeOK, TapeInv, TradeType, MirrorAssumption
  <2>4. now \in Nat /\ \A h \in hits : h.ts \in Nat /\ h.ts <= now
    BY DEF IInv, TypeOK, HitType
  <2>5. \A i \in 1..Len(b) : b[i] \in page
    BY <2>2
  <2>6. \A i, j \in 1..Len(b) : b[i].ts <= b[j].ts + MaxAge
    BY <2>3, <2>4, <2>5 DEF MirrorAssumption
  <2>7. \A i \in 1..Len(b) : \A h \in hits : h.ts <= b[i].ts + MaxAge
    BY <2>3, <2>4, <2>5 DEF MirrorAssumption
  <2> QED
    BY <2>1, <2>2, <2>6, <2>7 DEF SpanInv
<1>3. CASE Claim \/ ClaimFails
  BY <1>3, SpanTake DEF Claim, ClaimFails, cluster
<1>4. CASE Note
  BY <1>4, SpanNote
<1>5. CASE RecordFails
  BY <1>5 DEF RecordFails, None, cluster, SpanInv
<1>6. CASE Restart
  <2>1. batch' = <<>> /\ hand' = {} /\ hits' = {} /\ Len(<<>>) = 0
    BY <1>6 DEF Restart, None
  <2> QED
    BY <2>1 DEF SpanInv
<1> QED
  BY <1>1, <1>2, <1>3, <1>4, <1>5, <1>6
     DEF Next, Entry, vars, cluster, entry, Tick, Trade, Open, Begin, Visit, Flatten,
         NotFlattened, ByPrice, Sends, ComesTo, Evict

LEMMA SpanHolds == Spec => []SpanInv
<1>1. Init => SpanInv
  BY DEF Init, SpanInv
<1>2. IInv /\ SpanInv /\ [Next]_vars => SpanInv'
  BY SpanNext, MirrorAssumption
<1> QED
  BY <1>1, <1>2, IInvHolds, PTL DEF Spec

\* A cluster is of hits within the window of each other or the greatest age of a
\* signal, for any window, threshold, age and order of pages.
THEOREM ClustersRecent == Spec => ClusterIsRecent
<1>1. SpanInv' => \A g, h \in hits' : g.ts <= h.ts + Window \/ g.ts <= h.ts + MaxAge
  BY DEF SpanInv, Near
<1>2. IInv /\ SpanInv /\ SpanInv' /\ [Next]_vars
        => [emitted' \notin {emitted, None} =>
              \A g, h \in hits' : g.ts <= h.ts + Window \/ g.ts <= h.ts + MaxAge]_vars
  BY <1>1
<1> QED
  BY <1>2, IInvHolds, SpanHolds, PTL DEF Spec, ClusterIsRecent
=============================================================================
