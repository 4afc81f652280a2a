----------------------------- MODULE MirrorExit -----------------------------
(***************************************************************************)
(* Following traders in one token: their trades as the data-api reports    *)
(* them, the copies the entry task opens, the cache of sells, the exit     *)
(* task that flattens a copy when its trader has sold, and the aggregator  *)
(* that looks for several traders in one window.  Trades carry the         *)
(* traders' timestamps; a copy carries the bot's clock when it is opened.  *)
(* Executing and closing an exit is one action here; modules Execution and *)
(* Portfolio have its steps.                                               *)
(***************************************************************************)
EXTENDS Naturals, Sequences, FiniteSets

CONSTANTS Traders,      \* the wallets followed, numbered as the config lists them
          MaxAge,       \* tracker.max_trade_age_seconds
          TTL,          \* _trader_sells_ttl_seconds
          Window,       \* aggregation.cluster_window_seconds
          Threshold,    \* aggregation.cluster_threshold
          MaxTime,      \* bound: the clock's last value
          MaxTrades,    \* bound: trades
          MaxStarts     \* bound: restarts

ASSUME MirrorAssumption ==
  /\ Traders \subseteq Nat
  /\ MaxAge \in Nat /\ TTL \in Nat /\ Window \in Nat \ {0} /\ Threshold \in Nat \ {0}
  /\ MaxTime \in Nat \ {0} /\ MaxTrades \in Nat /\ MaxStarts \in Nat

VARIABLES
  now,         \* the clock
  tape,        \* the trades made
  claimed,     \* trades whose key is claimed
  batch,       \* polled signals, the head next
  hand,        \* the signal claimed and not yet noted, as a set of at most one trade
  copying,     \* the BUY being executed, as a set of at most one trade
  sold,        \* _trader_sells: a trader and the time of his sell
  copies,      \* open positions: the trade copied and opened_at
  pass,        \* the copies the exit pass under way has still to come to
  hits,        \* _hits of the market: traders and the times of their signals
  emitted,     \* _last_emission_ts, as a set of at most one time
  starts,
  dropped      \* traders a handled sell of whom the cache never got or has lost: its
               \* record failed, it was evicted, replaced by an older one, or gone
               \* with the process

cluster == <<hits, emitted>>
entry   == <<claimed, batch, hand, copying>>   \* the entry task's
book    == <<copies, pass>>                    \* the exit task's
vars == <<now, tape, entry, sold, book, cluster, starts, dropped>>

TradeType == [by : Traders, side : {"BUY", "SELL"}, ts : 1..MaxTime]
HitType   == [by : Traders, ts : 1..MaxTime]
CopyType  == [of : TradeType, opened : 1..MaxTime]
None      == {}
Sells(S)  == {t \in S : t.side = "SELL"}
Hit(t)    == [by |-> t.by, ts |-> t.ts]

----------------------------------------------------------------------------
Tick ==
  /\ now < MaxTime
  /\ now' = now + 1
  /\ UNCHANGED <<tape, entry, sold, book, cluster, starts, dropped>>

\* A trader's trades have timestamps of their own.
Trade(by, side) ==
  /\ Cardinality(tape) < MaxTrades
  /\ \A t \in tape : t.by = by => t.ts < now
  /\ tape' = tape \cup {[by |-> by, side |-> side, ts |-> now]}
  /\ UNCHANGED <<now, entry, sold, book, cluster, starts, dropped>>

Fresh == {t \in tape \ claimed : t.ts + MaxAge >= now}

\* The traders' pages, one after the other.  The order of a page, and whether it
\* has yet a trade that was made, is the data-api's; trades too old are skipped,
\* claimed ones (still in _seen, or refused by mark_processed) are dropped.
Poll(page) ==
  /\ batch = <<>> /\ hand = None /\ copying = None
  /\ page \subseteq Fresh
  /\ \E b \in [1..Cardinality(page) -> page] :
       /\ {b[i] : i \in DOMAIN b} = page
       /\ \A i, j \in DOMAIN b : i < j => b[i].by <= b[j].by
       /\ batch' = b
  /\ UNCHANGED <<now, tape, claimed, hand, copying, sold, book, cluster, starts, dropped>>

\* Variant the checks must reject: every hit is kept.
ObserveKeepsAll(t) ==
  /\ hits' = hits \cup {Hit(t)}
  /\ emitted' = IF /\ Cardinality({h.by : h \in hits'}) >= Threshold
                   /\ \A e \in emitted : e + Window <= t.ts
                THEN {t.ts} ELSE emitted

\* SignalAggregator.observe: the window ends at the signal at hand, whatever is
\* kept of later ones, and is emitted once.
Observe(t) ==
  /\ hits' = {h \in hits : h.ts + Window >= t.ts} \cup {Hit(t)}
  /\ emitted' = IF /\ Cardinality({h.by : h \in hits'}) >= Threshold
                   /\ \A e \in emitted : e + Window <= t.ts
                THEN {t.ts} ELSE emitted

\* The head of the batch is taken up: mark_processed claims its key.
Claim ==
  /\ batch # <<>> /\ hand = None /\ copying = None
  /\ claimed' = claimed \cup {Head(batch)} /\ hand' = {Head(batch)} /\ batch' = Tail(batch)
  /\ UNCHANGED <<now, tape, copying, sold, book, cluster, starts, dropped>>

\* Or mark_processed raises: the loop logs it and goes on to the next.
ClaimFails ==
  /\ batch # <<>> /\ hand = None /\ copying = None
  /\ batch' = Tail(batch)
  /\ UNCHANGED <<now, tape, claimed, hand, copying, sold, book, cluster, starts, dropped>>

\* A claimed sell that is not noted is never seen again.
Unnoted == {t.by : t \in Sells(hand)}

\* The signal in hand is recorded and observed: a sell is noted, a buy is rejected
\* or executed.
Note ==
  /\ hand' = None
  /\ \E t \in hand :
       LET older == {s \in sold : s.by = t.by}
       IN /\ Observe(t)
          /\ IF t.side = "SELL"
             THEN /\ sold' = (sold \ older) \cup {Hit(t)}
                  /\ dropped' = dropped \cup {s.by : s \in {x \in older : x.ts > t.ts}}
                  /\ UNCHANGED copying
             ELSE copying' \in {None, {t}} /\ UNCHANGED <<sold, dropped>>
  /\ UNCHANGED <<now, tape, claimed, batch, book, starts>>

\* Or record_signal raises: its finally marks the claim done all the same.
RecordFails ==
  /\ hand # None /\ hand' = None
  /\ dropped' = dropped \cup Unnoted
  /\ UNCHANGED <<now, tape, claimed, batch, copying, sold, book, cluster, starts>>

\* The execution ends: with no fill, or with a position opened now.
Open ==
  /\ copying # None
  /\ copying' = None
  /\ copies' \in {copies, copies \cup {[of |-> t, opened |-> now] : t \in copying}}
  /\ UNCHANGED <<now, tape, claimed, batch, hand, sold, pass, cluster, starts, dropped>>

\* Variant: any sell of the token counts, whoever sold.
SoldAfterAny(c) == \E s \in sold : s.ts >= c.opened

\* Variant: a sell of the instant of the opening does not count.
SoldAfterStrict(c) == \E s \in sold : s.by = c.of.by /\ s.ts > c.opened

\* _trader_sold_after.
SoldAfter(c) == \E s \in sold : s.by = c.of.by /\ s.ts >= c.opened

\* An exit pass: the open positions as they are now, and a book of their token.
\* Without a book (ClobError) it has nothing to do.
Begin ==
  /\ pass = {} /\ copies # {}
  /\ pass' = copies
  /\ UNCHANGED <<now, tape, entry, sold, copies, cluster, starts, dropped>>

\* The pass has come to a copy.  It goes on to the next, or what it does there
\* raises and ends it.
ComesTo(c) ==
  /\ c \in pass /\ pass' \in {pass \ {c}, {}}
  /\ UNCHANGED <<now, tape, entry, sold, cluster, starts, dropped>>

\* decide says to leave whatever the price: the flatten is sent,
Sends(c) == ComesTo(c) /\ SoldAfter(c)

\* and it fills and the copy is closed,
Flatten(c) == Sends(c) /\ copies' = copies \ {c}

\* or it does not fill, fills in part, or raises, and the copy stays.
NotFlattened(c) == Sends(c) /\ UNCHANGED copies

\* Take profit, stop loss or hold.  The time branch of decide never is taken: the
\* pass gives it no resolution time.
ByPrice(c) ==
  /\ ComesTo(c) /\ ~SoldAfter(c)
  /\ copies' \in {copies, copies \ {c}}

\* _evict_stale_trader_sells, at a maintenance tick.
Evict ==
  LET stale == {s \in sold : s.ts + TTL < now}
  IN /\ stale # {}
     /\ sold' = sold \ stale
     /\ dropped' = dropped \cup {s.by : s \in stale}
     /\ UNCHANGED <<now, tape, entry, book, cluster, starts>>

\* Memory is lost; positions and claims are not.
Restart ==
  /\ starts < MaxStarts /\ starts' = starts + 1
  /\ batch' = <<>> /\ hand' = None /\ copying' = None
  /\ sold' = {} /\ pass' = {} /\ hits' = {} /\ emitted' = None
  /\ dropped' = dropped \cup {s.by : s \in sold} \cup Unnoted
  /\ UNCHANGED <<now, tape, claimed, copies>>

----------------------------------------------------------------------------
Init ==
  /\ now = 1 /\ tape = {}
  /\ claimed = {} /\ batch = <<>> /\ hand = None /\ copying = None
  /\ sold = {} /\ copies = {} /\ pass = {} /\ hits = {} /\ emitted = None
  /\ starts = 0 /\ dropped = {}

Entry == Claim \/ ClaimFails \/ Note \/ RecordFails \/ Open
Leave == \E c \in pass : Flatten(c)
Visit == \E c \in pass : Flatten(c) \/ NotFlattened(c) \/ ByPrice(c)

Next == \/ Tick \/ \E by \in Traders, side \in {"BUY", "SELL"} : Trade(by, side)
        \/ \E page \in SUBSET tape : Poll(page)
        \/ Entry
        \/ Begin \/ Visit
        \/ Evict \/ Restart

Spec == Init /\ [][Next]_vars

\* What the event loop owes: the entry task ends what it has begun, and so does an
\* exit pass.  How they end is open.
FairSpec == Spec /\ WF_vars(Entry) /\ WF_vars(Visit)

----------------------------------------------------------------------------
TypeOK ==
  /\ now \in 1..MaxTime /\ tape \subseteq TradeType
  /\ claimed \subseteq tape /\ batch \in Seq(tape)
  /\ copying \subseteq tape /\ Cardinality(copying) <= 1
  /\ hand \subseteq tape /\ Cardinality(hand) <= 1
  /\ sold \subseteq HitType /\ \A r, s \in sold : r.by = s.by => r = s
  /\ hits \subseteq HitType /\ emitted \subseteq 1..now
  /\ copies \subseteq CopyType /\ pass \subseteq copies /\ starts \in 0..MaxStarts
  /\ dropped \subseteq Traders

\* No flatten is sent for the sell of another trader, nor for one the copy's own
\* trader made before the buy it copies, although the cache may hold them and
\* signals come out of order (orchestrator.py:432-434).
NoExitForEarlierSell ==
  [][\A c \in pass : Sends(c) =>
       \E s \in Sells(claimed) : s.by = c.of.by /\ s.ts > c.of.ts]_vars

\* What a mirrored exit needs of the exchange, which nothing in the code can give:
\* asked for a book again and again, it answers (orchestrator.py:354-357), and of
\* the flattens it is sent again and again it fills one (orchestrator.py:397-402).
ExchangeObliges == WF_vars(Begin) /\ SF_vars(Leave)

\* A sell of the copy's trader was claimed that is no earlier than its opening.
Followed(c) == \E s \in Sells(claimed) : s.by = c.of.by /\ s.ts >= c.opened

\* A sell made after the copy was opened, and claimed, is mirrored by an exchange
\* that obliges, however the poll, the execution and the exit loop interleave and
\* however often a flatten fails or a pass is broken off, unless the cache never
\* got or has lost a sell of that trader.
LaterSellMirrored ==
  ExchangeObliges =>
    \A by \in Traders :
      LET followed == \E c \in copies : c.of.by = by /\ Followed(c)
      IN followed ~> (~followed \/ by \in dropped)

\* The hits of a cluster that is emitted are within the window of each other, or,
\* where signals came out of order, within the greatest age of a signal: the trim
\* of observe goes by the signal at hand and keeps later hits (enhancements.py:86),
\* which polls that follow one another keep close.
ClusterIsRecent ==
  [][emitted' \notin {emitted, None} =>
       \A g, h \in hits' : g.ts <= h.ts + Window \/ g.ts <= h.ts + MaxAge]_vars

\* "If we observe a SELL from the wallet that opened our position for the same
\* token, flatten immediately" (exit_manager.py:4-5): a sell that followed the buy
\* copied, and was observed, leads to the end of the copy.
ObservedSellMirrored ==
  ExchangeObliges =>
    \A by \in Traders : \A b, ts \in 1..MaxTime : b < ts =>
      LET copied == \E c \in copies : c.of.by = by /\ c.of.ts = b
      IN (\E s \in Sells(claimed) : s.by = by /\ s.ts = ts) /\ copied
           ~> (~copied \/ by \in dropped)
=============================================================================
