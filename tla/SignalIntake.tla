---------------------------- MODULE SignalIntake ----------------------------
(***************************************************************************)
(* The path of a trade from the data-api to a recorded position: the       *)
(* tracker's poll with its bounded in-memory `_seen` cache, the durable    *)
(* claim of the trade's key (table processed_trades), the entry handler    *)
(* with its try/finally, and what a crash, a shutdown and a restart do to  *)
(* each of them.                                                           *)
(*                                                                         *)
(* One action is the code between two awaits of the entry task.  A store   *)
(* call is one action: a statement that committed before the process died  *)
(* or the task was cancelled is the action followed by Crash or Stop.      *)
(* Whether a trade passes the filter, the sizer and the risk gate is a     *)
(* choice here; module RiskControl models the gate.  "filled" is a fill    *)
(* the engine is told of; module Execution has those it is not.            *)
(***************************************************************************)
EXTENDS Naturals, Sequences, FiniteSets

CONSTANTS Trades,       \* trades the data-api may report
          Keys,         \* idempotency keys
          Key,          \* dedupe_key: the fills of one transaction share a key
          SeenSize,     \* capacity of the tracker's _seen cache
          PollLimit,    \* trades in one poll: a page of 50 for each wallet
          MaxLives,     \* bound: process lifetimes explored
          MaxHurt,      \* bound: keys that meet a fault other than a crash
          Faults        \* which of "crash", "stop" and "error" can happen

ASSUME IntakeAssumption ==
  /\ IsFiniteSet(Trades) /\ IsFiniteSet(Keys)
  /\ Key \in [Trades -> Keys]
  /\ PollLimit \in Nat /\ SeenSize \in Nat
  /\ MaxLives \in Nat \ {0} /\ MaxHurt \in Nat
  /\ Faults \subseteq {"crash", "stop", "error"}

VARIABLES
  seen,        \* tracker._seen, least recently added key first
  batch,       \* polled signals; the head is the one in hand
  pc,          \* where the entry task is; "down" when there is no process
  rows,        \* processed_trades: key -> "absent", "processing" or "done"
  placed,      \* exchange: how many times a copy of the key was sent
  filled,      \* exchange: keys whose copy got a fill
  resolved,    \* keys rejected, or noted as the trader's sell
  disk,        \* keys with a position row in the store
  lives,       \* processes started so far
  hurt         \* keys for which a call failed or whose handler was cancelled

exch   == <<placed, filled>>
vars   == <<seen, batch, pc, rows, placed, filled, resolved, disk, lives, hurt>>

InTry == {"inner", "ack", "open", "finish"}
PCs   == {"down", "idle", "unwind"} \cup InTry
k0    == Key[Head(batch)]       \* the key of the signal in hand

ElementsOf(s) == {s[i] : i \in 1..Len(s)}

\* Variant the checks must reject: the cache never forgets.
RememberAll(s, ks) == s \o ks

\* The tracker's _seen after appending the keys of a batch: the oldest go first.
Remember(s, ks) ==
  LET all == s \o ks
  IN  IF Len(all) <= SeenSize THEN all
      ELSE SubSeq(all, Len(all) - SeenSize + 1, Len(all))

----------------------------------------------------------------------------
(* The tracker and the entry task.                                         *)

Keyed(b) == [i \in DOMAIN b |-> Key[b[i]]]

\* What _seen holds when the i-th signal of the batch is looked at: the ones before
\* it are in, and have pushed others out.
Known(b, i) == ElementsOf(Remember(seen, SubSeq(Keyed(b), 1, i - 1)))

\* The batches a poll can yield, in the order the data-api and asyncio.gather happened
\* to give.  The trades of the pages that are skipped leave no trace.
Batches ==
  {b \in UNION {[1..n -> Trades] : n \in 0..PollLimit} :
     /\ \A i, j \in DOMAIN b : b[i] = b[j] => i = j
     /\ \A i \in DOMAIN b : Key[b[i]] \notin Known(b, i)}

\* Variant: everything is marked as seen, and only the first new signal is kept.
PollKeepsFirst ==
  /\ pc = "idle" /\ batch = <<>>
  /\ \E b \in Batches :
       /\ batch' = IF b = <<>> THEN b ELSE <<b[1]>>
       /\ seen' = Remember(seen, Keyed(b))
  /\ UNCHANGED <<pc, rows, exch, resolved, disk, lives, hurt>>

\* A poll of all wallets: parseable, young enough trades (none when a request failed).
\* _poll_wallet marks a key as seen when it queues the signal, before the signal is
\* yielded, let alone claimed.
Poll ==
  /\ pc = "idle" /\ batch = <<>>
  /\ \E b \in Batches :
       /\ batch' = b
       /\ seen' = Remember(seen, Keyed(b))
  /\ UNCHANGED <<pc, rows, exch, resolved, disk, lives, hurt>>

\* Variant: INSERT OR REPLACE, which never refuses.
ClaimReplaces ==
  /\ pc = "idle" /\ batch # <<>>
  /\ rows' = [rows EXCEPT ![k0] = "processing"]
  /\ pc' = "inner"
  /\ UNCHANGED <<seen, batch, exch, resolved, disk, lives, hurt>>

\* Variant: the whole batch is claimed before its first signal is handled.
ClaimBatch ==
  /\ pc = "idle" /\ batch # <<>>
  /\ LET ks == {Key[t] : t \in ElementsOf(batch)} IN
       rows' = [k \in Keys |-> IF k \in ks /\ rows[k] = "absent"
                               THEN "processing" ELSE rows[k]]
  /\ pc' = "inner"
  /\ UNCHANGED <<seen, batch, exch, resolved, disk, lives, hurt>>

\* mark_processed: INSERT of the key, refused when the row is there.  The
\* signals row that follows is written before any decision and read by nobody.
Claim ==
  /\ pc = "idle" /\ batch # <<>>
  /\ IF rows[k0] = "absent"
     THEN /\ rows' = [rows EXCEPT ![k0] = "processing"]
          /\ pc' = "inner"
          /\ UNCHANGED batch
     ELSE /\ batch' = Tail(batch)
          /\ UNCHANGED <<rows, pc>>
  /\ UNCHANGED <<seen, exch, resolved, disk, lives, hurt>>

\* A trader's sell, or a rejection by the book, the filter, the sizer or the
\* risk gate.
Decline ==
  /\ pc = "inner"
  /\ resolved' = resolved \cup {k0}
  /\ pc' = "finish"
  /\ UNCHANGED <<seen, batch, rows, exch, disk, lives, hurt>>

\* ExecutionEngine.execute sends the copy; the exchange may fill it.
Send ==
  /\ pc = "inner"
  /\ placed' = [placed EXCEPT ![k0] = @ + 1]
  /\ filled' \in {filled, filled \cup {k0}}
  /\ pc' = "ack"
  /\ UNCHANGED <<seen, batch, rows, resolved, disk, lives, hurt>>

\* Variant: the claim is marked done when the exchange answers, before the
\* position is opened.
AckMarksDone ==
  /\ pc = "ack"
  /\ IF k0 \in filled
     THEN pc' = "open" /\ UNCHANGED resolved
     ELSE pc' = "finish" /\ resolved' = resolved \cup {k0}
  /\ rows' = [rows EXCEPT ![k0] = "done"]
  /\ UNCHANGED <<seen, batch, exch, disk, lives, hurt>>

\* The result of execute: nothing filled is a rejection.
Ack ==
  /\ pc = "ack"
  /\ IF k0 \in filled
     THEN pc' = "open" /\ UNCHANGED resolved
     ELSE pc' = "finish" /\ resolved' = resolved \cup {k0}
  /\ UNCHANGED <<seen, batch, rows, exch, disk, lives, hurt>>

\* open_from_signal: a position in memory and its row in the store.
Open ==
  /\ pc = "open"
  /\ disk' = disk \cup {k0}
  /\ pc' = "finish"
  /\ UNCHANGED <<seen, batch, rows, exch, resolved, lives, hurt>>

\* Variant: completed claims are deleted instead of kept as done.
FinishDeletes ==
  /\ pc = "finish"
  /\ rows' = [rows EXCEPT ![k0] = "absent"]
  /\ pc' = "idle"
  /\ batch' = Tail(batch)
  /\ UNCHANGED <<seen, exch, resolved, disk, lives, hurt>>

\* Variant: no finally around the handler.
FinishForgets ==
  /\ pc = "finish"
  /\ pc' = "idle"
  /\ batch' = Tail(batch)
  /\ UNCHANGED <<seen, rows, exch, resolved, disk, lives, hurt>>

\* finally: mark_signal_done.
Finish ==
  /\ pc = "finish"
  /\ rows' = [rows EXCEPT ![k0] = "done"]
  /\ pc' = "idle"
  /\ batch' = Tail(batch)
  /\ UNCHANGED <<seen, exch, resolved, disk, lives, hurt>>

----------------------------------------------------------------------------
(* Faults.                                                                 *)

\* A fault met while the key in hand is handled.
Hurt == hurt' = hurt \cup {k0} /\ Cardinality(hurt') <= MaxHurt

\* An exception under the try (an exchange call that raises after the order
\* got through, a store call that fails) goes to the finally and is logged.
Fail ==
  /\ "error" \in Faults
  /\ pc \in {"inner", "ack", "open"}
  /\ pc' = "finish"
  /\ Hurt
  /\ UNCHANGED <<seen, batch, rows, exch, resolved, disk, lives>>

\* mark_signal_done itself raises: the row stays, the loop goes on.
FinishFails ==
  /\ "error" \in Faults
  /\ pc = "finish"
  /\ pc' = "idle"
  /\ batch' = Tail(batch)
  /\ Hurt
  /\ UNCHANGED <<seen, rows, exch, resolved, disk, lives>>

\* mark_processed raises, outside the try: the signal is dropped.
ClaimFails ==
  /\ "error" \in Faults
  /\ pc = "idle" /\ batch # <<>>
  /\ batch' = Tail(batch)
  /\ Hurt
  /\ UNCHANGED <<seen, pc, rows, exch, resolved, disk, lives>>

\* What dies with the process.
Die == pc' = "down" /\ seen' = <<>> /\ batch' = <<>>

Crash ==
  /\ "crash" \in Faults
  /\ pc # "down" /\ lives < MaxLives
  /\ Die
  /\ UNCHANGED <<rows, exch, resolved, disk, lives, hurt>>

\* stop() cancels the entry task: outside the try it ends, inside it unwinds
\* through the finally.
Stop ==
  /\ "stop" \in Faults
  /\ lives < MaxLives
  /\ \/ /\ pc = "idle"
        /\ Die
        /\ UNCHANGED hurt
     \/ /\ pc \in InTry
        /\ pc' = "unwind"
        /\ Hurt
        /\ UNCHANGED <<seen, batch>>
  /\ UNCHANGED <<rows, exch, resolved, disk, lives>>

\* The finally of a cancelled handler.  run() cancels the task a second time
\* as soon as another task has ended, so its await may not get to run.
Unwind ==
  /\ pc = "unwind"
  /\ rows' \in {rows, [rows EXCEPT ![k0] = "done"]}
  /\ Die
  /\ UNCHANGED <<exch, resolved, disk, lives, hurt>>

\* run(): start the tasks.  The scan for stuck claims before it only reports.
Restart ==
  /\ pc = "down"
  /\ pc' = "idle"
  /\ lives' = lives + 1
  /\ UNCHANGED <<seen, batch, rows, exch, resolved, disk, hurt>>

----------------------------------------------------------------------------
Init ==
  /\ seen = <<>> /\ batch = <<>>
  /\ pc = "idle"
  /\ rows = [k \in Keys |-> "absent"]
  /\ placed = [k \in Keys |-> 0] /\ filled = {} /\ resolved = {}
  /\ disk = {}
  /\ lives = 1 /\ hurt = {}

Handler == Claim \/ Decline \/ Send \/ Ack \/ Open \/ Finish \/ Unwind

Fault == Fail \/ FinishFails \/ ClaimFails \/ Crash \/ Stop

Next == \/ Poll
        \/ Handler
        \/ Fault
        \/ Restart

Spec == Init /\ [][Next]_vars

\* The event loop keeps running a task that can move, and a supervisor starts
\* the process again.  Neither trades nor faults are owed.
FairSpec == Spec /\ WF_vars(Handler) /\ WF_vars(Restart)

----------------------------------------------------------------------------
TypeOK ==
  /\ seen \in Seq(Keys) /\ Len(seen) <= SeenSize
  /\ batch \in Seq(Trades)
  /\ pc \in PCs
  /\ rows \in [Keys -> {"absent", "processing", "done"}]
  /\ placed \in [Keys -> Nat]
  /\ filled \subseteq Keys /\ resolved \subseteq Keys
  /\ disk \subseteq Keys
  /\ lives \in Nat /\ hurt \subseteq Keys

\* No trade is sent to the exchange twice, however often the data-api repeats
\* it, the _seen cache forgets it or the process is restarted: the key is
\* claimed durably before execute (orchestrator.py:153, datastore.py:157).
AtMostOneOrder == \A k \in Keys : placed[k] <= 1

\* The outbox never loses money silently: a copy the exchange filled and for which
\* no position row exists has an open claim, the thing the recovery scan looks for
\* (orchestrator.py:100-116, 157-160), over crashes, and over whatever failed or was
\* cancelled for other keys.
OutboxCoversOrphans == \A k \in (filled \ disk) \ hurt : rows[k] = "processing"

\* "done" means that the position was opened or the signal explicitly declined (the
\* contract of mark_processed, datastore.py:172-174), for every key whose own
\* handling met no failed call and no cancellation.
DoneMeansResolved ==
  \A k \in Keys \ hurt : rows[k] = "done" => k \in disk \cup resolved

\* A process life leaves at most one claim open, beside those of the keys a fault
\* met, because signals are claimed one at a time as they are handled, never a
\* batch ahead; between two signals the running life has none open.
OneOpenClaimPerLife ==
  Cardinality({k \in Keys : rows[k] = "processing"} \ hurt)
    <= IF pc = "idle" THEN lives - 1 ELSE lives

\* The _seen cache only saves work (wallet_tracker.py:50-51): a key in it is
\* claimed, or its signal is still queued, or its own claim failed.
SeenIsOnlyACache ==
  \A k \in ElementsOf(seen) \ hurt :
     rows[k] # "absent" \/ k \in {Key[t] : t \in ElementsOf(batch)}

\* A claim is settled, unless the process dies with it or a call failed for it.
ClaimsSettle ==
  \A k \in Keys : (pc \in InTry /\ k = k0)
                      ~> (rows[k] = "done" \/ pc = "down" \/ k \in hurt)

Abstract == INSTANCE CopyOnce
              WITH claimed <- {k \in Keys : rows[k] # "absent"},
                   orders <- placed, held <- disk

\* The intake implements CopyOnce.
ImplementsCopyOnce == Abstract!Spec
=============================================================================
