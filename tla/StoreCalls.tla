----------------------------- MODULE StoreCalls -----------------------------
(***************************************************************************)
(* DataStore._run: every call waits for one asyncio lock, then runs in a   *)
(* worker thread on the one SQLite connection, a statement and a commit;   *)
(* the task that made it goes on when the thread has ended.                *)
(*                                                                         *)
(* Cancelling a task that waits for its thread releases the lock, and the  *)
(* thread runs on.  Threads then share the connection, and with it one     *)
(* transaction: a commit takes the statements of all of them, a rollback   *)
(* drops them.  Closing the connection drops what is not committed.        *)
(***************************************************************************)
EXTENDS Naturals, SequencesExt

CONSTANTS Callers,      \* tasks that call the store
          MaxCalls      \* bound: calls of each, by task

ASSUME StoreAssumption == MaxCalls \in [Callers -> Nat]

Calls == UNION {{c} \X (1..MaxCalls[c]) : c \in Callers}

VARIABLES
  made,         \* calls each task has made
  waits,        \* where a task is: "free", "lock", "thread", or the "ok" or "failed"
                \* that its thread has ended with and it has not seen yet
  queue,        \* calls at the lock, first come first served: the first has it once
                \* its task waits for more than the lock
  begun,        \* calls whose thread has not executed its statement
  written,      \* ... has executed it, and not committed
  txn,          \* statements in the connection's transaction
  db,           \* calls whose statement is committed
  good,         \* calls whose commit reported success
  open,         \* the connection is open
  ragged        \* some task was cancelled within a call

lock    == <<made, waits, queue>>
threads == <<begun, written>>
conn    == <<txn, db, good, open>>
callVars == <<lock, threads, conn, ragged>>

Current(c) == <<c, made[c]>>
Task(k)    == k[1]
Awaited(k) == waits[Task(k)] = "thread" /\ k = Current(Task(k))

----------------------------------------------------------------------------
(* A task: "async with self._lock: return await asyncio.to_thread(...)".   *)

Ask(c) ==
  /\ waits[c] = "free" /\ made[c] < MaxCalls[c]
  /\ made' = [made EXCEPT ![c] = @ + 1]
  /\ waits' = [waits EXCEPT ![c] = "lock"]
  /\ queue' = Append(queue, <<c, made[c] + 1>>)
  /\ UNCHANGED <<threads, conn, ragged>>

\* Variant the checks must reject: the call does not take the lock.
EnterUnlocked(c) ==
  /\ waits[c] = "lock"
  /\ waits' = [waits EXCEPT ![c] = "thread"]
  /\ begun' = begun \cup {Current(c)}
  /\ UNCHANGED <<made, queue, written, conn, ragged>>

\* The first in the queue gets the lock and starts its thread.
Enter(c) ==
  /\ waits[c] = "lock" /\ queue # <<>> /\ Head(queue) = Current(c)
  /\ waits' = [waits EXCEPT ![c] = "thread"]
  /\ begun' = begun \cup {Current(c)}
  /\ UNCHANGED <<made, queue, written, conn, ragged>>

Answered(c) == waits[c] \in {"ok", "failed"}

\* The thread's result is there: release the lock and go on.
Return(c) ==
  /\ Answered(c)
  /\ waits' = [waits EXCEPT ![c] = "free"]
  /\ queue' = Tail(queue)
  /\ UNCHANGED <<made, threads, conn, ragged>>

Within(c) == waits[c] # "free"

\* CancelledError at the await: out of the queue, or out of the lock.
Leave(c) ==
  /\ Within(c)
  /\ waits' = [waits EXCEPT ![c] = "free"]
  /\ \E i \in 1..Len(queue) : queue[i] = Current(c) /\ queue' = RemoveAt(queue, i)
  /\ ragged' = TRUE
  /\ UNCHANGED <<made, threads, conn>>

----------------------------------------------------------------------------
(* A thread: "with self._tx() as cur: cur.execute(...)".                   *)

\* The result reaches the task, unless it no longer waits for it.
Tell(k, result) ==
  waits' = IF Awaited(k) THEN [waits EXCEPT ![k[1]] = result] ELSE waits

Execute(k) ==
  /\ k \in begun /\ open
  /\ begun' = begun \ {k} /\ written' = written \cup {k}
  /\ txn' = txn \cup {k}
  /\ UNCHANGED <<lock, db, good, open, ragged>>

Commit(k) ==
  /\ k \in written /\ open
  /\ written' = written \ {k}
  /\ db' = db \cup txn /\ txn' = {}
  /\ good' = good \cup {k}
  /\ Tell(k, "ok")
  /\ UNCHANGED <<made, queue, begun, open, ragged>>

\* The statement or the commit raises, as they all do once the connection is
\* closed: rollback.
Fail(k) ==
  /\ k \in begun \cup written
  /\ begun' = begun \ {k} /\ written' = written \ {k}
  /\ txn' = {}
  /\ Tell(k, "failed")
  /\ UNCHANGED <<made, queue, db, good, open, ragged>>

Thread(k) == Execute(k) \/ Commit(k) \/ Fail(k)

\* close(): "async with self._lock: self._conn.close()".
Close ==
  /\ open /\ queue = <<>>
  /\ open' = FALSE /\ txn' = {}
  /\ UNCHANGED <<lock, threads, db, good, ragged>>

----------------------------------------------------------------------------
CallsInit ==
  /\ made = [c \in Callers |-> 0]
  /\ waits = [c \in Callers |-> "free"]
  /\ queue = <<>>
  /\ begun = {} /\ written = {} /\ txn = {} /\ db = {} /\ good = {}
  /\ open = TRUE /\ ragged = FALSE

CallsNext ==
  \/ Close
  \/ \E c \in Callers : Ask(c) \/ Enter(c) \/ Return(c) \/ Leave(c)
  \/ \E k \in Calls : Thread(k)

CallsSpec == CallsInit /\ [][CallsNext]_callVars

----------------------------------------------------------------------------
CallsTypeOK ==
  /\ made \in [Callers -> Nat] /\ \A c \in Callers : made[c] <= MaxCalls[c]
  /\ waits \in [Callers -> {"free", "lock", "thread", "ok", "failed"}]
  /\ queue \in Seq(Calls)
  /\ begun \subseteq Calls /\ written \subseteq Calls
  /\ txn \subseteq Calls /\ db \subseteq Calls /\ good \subseteq Calls
  /\ open \in BOOLEAN /\ ragged \in BOOLEAN

\* The calls not answered.
Line == IF queue # <<>> /\ Answered(Task(Head(queue))) THEN Tail(queue) ELSE queue

Serial == INSTANCE SerialStore
  WITH asked <- {k \in Calls : k[2] <= made[k[1]]},
       line  <- IF ragged THEN <<>> ELSE Line

\* The lock makes the store serial until a task is cancelled within a call: calls
\* take effect in the order they were made, none sees half of another, and what
\* reports success is in the database (datastore.py:4-7).
ImplementsSerialStore == Serial!Spec

\* One transaction at a time on the connection (datastore.py:4-7, "serialize access
\* through a lock").
OneTransaction == \A k, l \in begun \cup written : k = l
=============================================================================
