---------------------------- MODULE ProcessProofs ---------------------------
(***************************************************************************)
(* That the store is serial until a task is cancelled within a call, which *)
(* none is before a stop; that its lock never is lost; that it is closed   *)
(* last; that nothing is begun after a stop; and that what is left to do   *)
(* then only gets less.                                                    *)
(***************************************************************************)
EXTENDS Process, TLAPS, SequenceTheorems, FiniteSetTheorems

----------------------------------------------------------------------------
(* The store.                                                              *)

Asked == {k \in Calls : k[2] <= made[k[1]]}

\* At any time: what threads and the database have was asked for.
AskedInv ==
  /\ made \in [Callers -> Nat] /\ \A c \in Callers : made[c] <= MaxCalls[c]
  /\ waits \in [Callers -> {"free", "lock", "thread", "ok", "failed"}]
  /\ \A c \in Callers : waits[c] # "free" => made[c] > 0
  /\ ragged \in BOOLEAN
  /\ begun \subseteq Asked /\ written \subseteq Asked
  /\ txn \subseteq Asked /\ db \subseteq Asked

\* The queue holds the calls of the tasks within one, each once, and only the first
\* has got further than the lock.
QueueInv ==
  /\ queue \in Seq(Calls)
  /\ \A i \in 1..Len(queue) : /\ queue[i] = Current(Task(queue[i]))
                              /\ waits[Task(queue[i])] # "free"
                              /\ i > 1 => waits[Task(queue[i])] = "lock"
  /\ \A i, j \in 1..Len(queue) : Task(queue[i]) = Task(queue[j]) => i = j
  /\ \A c \in Callers : waits[c] # "free" => \E i \in 1..Len(queue) : queue[i] = Current(c)

\* One thread at most, that of the first in the queue, and its transaction.
ThreadInv ==
  /\ \A k \in begun \cup written : Awaited(k)
  /\ begun \cap written = {}
  /\ txn = written

\* Who waits for a thread has one.
AwaitInv == \A c \in Callers : waits[c] = "thread" => Current(c) \in begun \cup written

SerialInv ==
  /\ AskedInv /\ QueueInv /\ AwaitInv
  /\ ~ragged => ThreadInv /\ good \subseteq db

\* A sequence without its i-th element.
LEMMA RemovedAt ==
  ASSUME NEW S, NEW q \in Seq(S), NEW i \in 1..Len(q)
  PROVE  /\ RemoveAt(q, i) \in Seq(S) /\ Len(RemoveAt(q, i)) = Len(q) - 1
         /\ \A j \in 1..(Len(q) - 1) :
              RemoveAt(q, i)[j] = IF j < i THEN q[j] ELSE q[j + 1]
<1> DEFINE a == SubSeq(q, 1, i - 1)
           b == SubSeq(q, i + 1, Len(q))
<1>1. Len(q) \in Nat /\ i \in Nat /\ i >= 1 /\ i <= Len(q)
  OBVIOUS
<1>2. a \in Seq(S) /\ Len(a) = i - 1 /\ \A j \in 1..(i - 1) : a[j] = q[j]
  BY <1>1
<1>3. b \in Seq(S) /\ Len(b) = Len(q) - i /\ \A j \in 1..(Len(q) - i) : b[j] = q[i + j]
  BY <1>1
<1> HIDE DEF a, b
<1>4. /\ a \o b \in Seq(S) /\ Len(a \o b) = Len(a) + Len(b)
      /\ \A j \in 1..(Len(a) + Len(b)) :
           (a \o b)[j] = IF j <= Len(a) THEN a[j] ELSE b[j - Len(a)]
  BY <1>2, <1>3, ConcatProperties
<1>5. RemoveAt(q, i) = a \o b
  BY DEF RemoveAt, a, b
<1>6. ASSUME NEW j \in 1..(Len(q) - 1)
      PROVE  (a \o b)[j] = IF j < i THEN q[j] ELSE q[j + 1]
  <2>1. CASE j < i
    BY <2>1, <1>1, <1>2, <1>3, <1>4
  <2>2. CASE ~(j < i)
    <3>1. (a \o b)[j] = b[j - (i - 1)]
      BY <2>2, <1>1, <1>2, <1>3, <1>4
    <3>2. j - (i - 1) \in 1..(Len(q) - i) /\ i + (j - (i - 1)) = j + 1
      BY <2>2, <1>1
    <3> QED
      BY <2>2, <3>1, <3>2, <1>3
  <2> QED
    BY <2>1, <2>2
<1>7. Len(a \o b) = Len(q) - 1
  BY <1>1, <1>2, <1>3, <1>4
<1> QED
  BY <1>4, <1>5, <1>6, <1>7

LEMMA CallsMembers ==
  ASSUME StoreAssumption
  PROVE  \A k : k \in Calls <=> /\ k = <<k[1], k[2]>> /\ k[1] \in Callers
                                /\ k[2] \in 1..MaxCalls[k[1]]
BY DEF Calls

\* A call whose thread is awaited is the first in the queue.
LEMMA AwaitedIsHead ==
  ASSUME StoreAssumption, AskedInv, QueueInv, NEW k \in Calls, Awaited(k)
  PROVE  queue # <<>> /\ k = queue[1] /\ waits[Task(queue[1])] = "thread"
<1>1. k[1] \in Callers
  BY CallsMembers
<1>2. PICK i \in 1..Len(queue) : queue[i] = Current(Task(k))
  BY <1>1 DEF QueueInv, Awaited, Task
<1>3. queue[i] = k
  BY <1>2 DEF Awaited
<1>4. i = 1
  BY <1>3 DEF QueueInv, Awaited
<1> QED
  BY <1>3, <1>4 DEF Awaited, QueueInv

LEMMA AskedGrows ==
  ASSUME StoreAssumption, AskedInv, CallsNext
  PROVE  /\ Asked \subseteq Asked'
         /\ \A c \in Callers : Ask(c) => /\ Asked' = Asked \cup {<<c, made[c] + 1>>}
                                         /\ <<c, made[c] + 1>> \in Calls \ Asked
         /\ (\A c \in Callers : ~Ask(c)) => Asked' = Asked
<1>1. ASSUME NEW c \in Callers, Ask(c)
      PROVE  /\ Asked' = Asked \cup {<<c, made[c] + 1>>}
             /\ <<c, made[c] + 1>> \in Calls \ Asked
  <2>1. <<c, made[c] + 1>> \in Calls \ Asked
    <3> DEFINE n == made[c] + 1
    <3>1. made[c] \in Nat /\ MaxCalls[c] \in Nat /\ made[c] < MaxCalls[c]
      BY <1>1 DEF Ask, AskedInv, StoreAssumption
    <3>2. n \in 1..MaxCalls[c] /\ ~(n <= made[c])
      BY <3>1
    <3> HIDE DEF n
    <3>3. <<c, n>> \in Calls
      BY <3>2 DEF Calls
    <3>4. <<c, n>> \notin Asked
      BY <3>2 DEF Asked
    <3> QED
      BY <3>3, <3>4 DEF n
  <2>2. \A k \in Calls : k \in Asked' <=> k \in Asked \/ k = <<c, made[c] + 1>>
    <3> SUFFICES ASSUME NEW k \in Calls
                 PROVE  k[2] <= made'[k[1]] <=> k[2] <= made[k[1]] \/ k = <<c, made[c] + 1>>
      BY DEF Asked
    <3>1. k = <<k[1], k[2]>> /\ k[1] \in Callers /\ k[2] \in Nat
      BY CallsMembers DEF StoreAssumption
    <3>2. CASE k[1] = c
      BY <1>1, <3>1, <3>2 DEF Ask, AskedInv
    <3>3. CASE k[1] # c
      BY <1>1, <3>1, <3>3 DEF Ask, AskedInv
    <3> QED
      BY <3>2, <3>3
  <2> QED
    BY <2>1, <2>2 DEF Asked
<1>2. ASSUME \A c \in Callers : ~Ask(c)
      PROVE  Asked' = Asked
  <2>1. made' = made
    BY <1>2 DEF CallsNext, Enter, Close, Return, Leave, Thread, Execute, Commit, Fail, lock,
                conn, threads
  <2> QED
    BY <2>1 DEF Asked, Calls
<1>3. (\E c \in Callers : Ask(c)) \/ (\A c \in Callers : ~Ask(c))
  OBVIOUS
<1> QED
  BY <1>1, <1>2, <1>3

LEMMA SerialInit == ASSUME StoreAssumption, CallsInit PROVE SerialInv
<1>1. AskedInv
  <2>1. \A c \in Callers : MaxCalls[c] \in Nat /\ 0 <= MaxCalls[c]
    BY DEF StoreAssumption
  <2> QED
    BY <2>1 DEF CallsInit, AskedInv
<1>2. QueueInv
  BY DEF CallsInit, QueueInv
<1>3. ThreadInv /\ AwaitInv /\ good \subseteq db
  BY DEF CallsInit, ThreadInv, AwaitInv
<1> QED
  BY <1>1, <1>2, <1>3 DEF SerialInv

LEMMA CurrentAsked ==
  ASSUME StoreAssumption, AskedInv, NEW c \in Callers, waits[c] # "free"
  PROVE  Current(c) \in Asked
<1>1. made[c] \in 1..MaxCalls[c] /\ made[c] <= made[c]
  BY DEF AskedInv, StoreAssumption
<1> QED
  BY <1>1 DEF Calls, Asked, Current

LEMMA AskedNext ==
  ASSUME StoreAssumption, AskedInv, CallsNext
  PROVE  AskedInv'
<1>1. Asked \subseteq Asked'
  BY AskedGrows
<1>2. \A k \in Calls : Task(k) \in Callers
  BY CallsMembers DEF Task
<1>3. \A c \in Callers : MaxCalls[c] \in Nat
  BY DEF StoreAssumption
<1> USE DEF lock, threads, conn
<1>4. ASSUME NEW c \in Callers, waits[c] = "lock", begun' = begun \cup {Current(c)},
             waits' = [waits EXCEPT ![c] = "thread"],
             UNCHANGED <<made, queue, written, conn, ragged>>
      PROVE  AskedInv'
  <2>1. Current(c) \in Asked
    BY <1>4, CurrentAsked
  <2> QED
    BY <1>4, <2>1, <1>1 DEF AskedInv
<1>5. CASE Close
  BY <1>5, <1>1 DEF Close, AskedInv
<1>6. ASSUME NEW c \in Callers, Ask(c)
      PROVE  AskedInv'
  <2>1. made[c] + 1 \in Nat /\ made[c] + 1 <= MaxCalls[c] /\ made[c] + 1 > 0
    BY <1>6, <1>3 DEF Ask, AskedInv
  <2> QED
    BY <1>6, <1>1, <2>1 DEF Ask, AskedInv
<1>7. ASSUME NEW c \in Callers, Return(c) \/ Leave(c)
      PROVE  AskedInv'
  BY <1>7, <1>1 DEF Return, Leave, AskedInv
<1>8. ASSUME NEW k \in Calls, Execute(k)
      PROVE  AskedInv'
  BY <1>8, <1>1 DEF Execute, AskedInv
<1>9. ASSUME NEW k \in Calls, Commit(k)
      PROVE  AskedInv'
  BY <1>9, <1>1, <1>2 DEF Commit, Tell, Awaited, Task, AskedInv
<1>10. ASSUME NEW k \in Calls, Fail(k)
       PROVE  AskedInv'
  BY <1>10, <1>1, <1>2 DEF Fail, Tell, Awaited, Task, AskedInv
<1> QED
  BY <1>4, <1>5, <1>6, <1>7, <1>8, <1>9, <1>10 DEF CallsNext, Thread, Enter

\* While no task has been cancelled, a thread's end concerns the first call alone.
LEMMA OneThread ==
  ASSUME StoreAssumption, AskedInv, QueueInv, ThreadInv
  PROVE  \A k \in begun \cup written :
           /\ queue # <<>> /\ k = queue[1]
           /\ waits[Task(k)] = "thread" /\ k = Current(Task(k)) /\ Task(k) \in Callers
           /\ k \in Calls
           /\ begun \cup written = {k}
<1>1. \A k \in begun \cup written : k \in Calls /\ Awaited(k)
  BY DEF AskedInv, Asked, ThreadInv
<1>2. \A k \in begun \cup written : queue # <<>> /\ k = queue[1]
  BY <1>1, AwaitedIsHead
<1>3. \A k \in Calls : Task(k) \in Callers
  BY CallsMembers DEF Task
<1> QED
  BY <1>1, <1>2, <1>3 DEF Awaited

\* A call leaves the queue, from its head or from within.
LEMMA QueueRemoved ==
  ASSUME StoreAssumption, AskedInv, QueueInv, NEW c \in Callers,
         NEW i \in 1..Len(queue), queue[i] = Current(c),
         queue' \in Seq(Calls), Len(queue') = Len(queue) - 1,
         \A j \in 1..Len(queue') : queue'[j] = IF j < i THEN queue[j] ELSE queue[j + 1],
         waits' = [waits EXCEPT ![c] = "free"], made' = made
  PROVE  QueueInv'
<1> DEFINE Old(j) == IF j < i THEN j ELSE j + 1
<1>1. Len(queue) \in Nat /\ Len(queue') \in Nat
  BY DEF QueueInv
<1>2. \A j \in 1..Len(queue') : /\ Old(j) \in 1..Len(queue) /\ Old(j) # i
                                /\ j > 1 => Old(j) > 1
                                /\ queue'[j] = queue[Old(j)]
  BY <1>1
<1>3. \A j, l \in 1..Len(queue') : Old(j) = Old(l) => j = l
  BY <1>1
<1>4. \A l \in 1..Len(queue) : l # i => \E j \in 1..Len(queue') : Old(j) = l
  <2> SUFFICES ASSUME NEW l \in 1..Len(queue), l # i
               PROVE  \E j \in 1..Len(queue') : Old(j) = l
    OBVIOUS
  <2>1. CASE l < i
    <3>1. l \in 1..Len(queue') /\ Old(l) = l
      BY <2>1, <1>1
    <3> QED
      BY <3>1
  <2>2. CASE ~(l < i)
    <3>1. l - 1 \in 1..Len(queue') /\ Old(l - 1) = l
      BY <2>2, <1>1
    <3> QED
      BY <3>1
  <2> QED
    BY <2>1, <2>2
<1> HIDE DEF Old
<1>5. \A l \in 1..Len(queue) : /\ queue[l][1] \in Callers
                               /\ l # i => queue[l][1] # c
  <2>1. queue[i][1] = c
    BY DEF Current
  <2>2. \A l \in 1..Len(queue) : queue[l] \in Calls
    BY DEF QueueInv
  <2>3. \A l \in 1..Len(queue) : queue[l][1] = queue[i][1] => l = i
    BY DEF QueueInv, Task
  <2> QED
    BY <2>1, <2>2, <2>3, CallsMembers
<1>6. \A d \in Callers : made'[d] = made[d]
                         /\ (d # c => waits'[d] = waits[d]) /\ waits'[c] = "free"
  BY DEF AskedInv
<1>7. \A j \in 1..Len(queue') :
         /\ queue'[j] = <<queue'[j][1], made'[queue'[j][1]]>>
         /\ waits'[queue'[j][1]] # "free"
         /\ j > 1 => waits'[queue'[j][1]] = "lock"
  <2> SUFFICES ASSUME NEW j \in 1..Len(queue')
               PROVE  /\ queue'[j] = <<queue'[j][1], made'[queue'[j][1]]>>
                      /\ waits'[queue'[j][1]] # "free"
                      /\ j > 1 => waits'[queue'[j][1]] = "lock"
    OBVIOUS
  <2>1. PICK l \in 1..Len(queue) : l = Old(j)
    BY <1>2
  <2>2. l # i /\ queue'[j] = queue[l] /\ (j > 1 => l > 1)
    BY <2>1, <1>2
  <2>3. queue[l][1] \in Callers /\ queue[l][1] # c
    BY <2>2, <1>5
  <2> QED
    BY <2>2, <2>3, <1>6 DEF QueueInv, Task, Current
<1>8. \A j, l \in 1..Len(queue') : queue'[j][1] = queue'[l][1] => j = l
  <2> SUFFICES ASSUME NEW j \in 1..Len(queue'), NEW l \in 1..Len(queue'),
                      queue'[j][1] = queue'[l][1]
               PROVE  j = l
    OBVIOUS
  <2>1. Old(j) = Old(l)
    BY <1>2 DEF QueueInv, Task
  <2> QED
    BY <2>1, <1>3
<1>9. \A d \in Callers : waits'[d] # "free" =>
         \E j \in 1..Len(queue') : queue'[j] = <<d, made'[d]>>
  <2> SUFFICES ASSUME NEW d \in Callers, waits'[d] # "free"
               PROVE  \E j \in 1..Len(queue') : queue'[j] = <<d, made'[d]>>
    OBVIOUS
  <2>1. d # c /\ waits[d] # "free"
    BY <1>6
  <2>2. PICK l \in 1..Len(queue) : queue[l] = <<d, made[d]>>
    BY <2>1 DEF QueueInv, Current
  <2>3. l # i
    BY <2>1, <2>2 DEF Current
  <2>4. PICK j \in 1..Len(queue') : Old(j) = l
    BY <2>3, <1>4
  <2> QED
    BY <2>2, <2>4, <1>2, <1>6
<1> QED
  BY <1>7, <1>8, <1>9 DEF QueueInv, Task, Current

\* The lock and its queue are what they should be, cancellations or not.
LEMMA QueueNext ==
  ASSUME StoreAssumption, AskedInv, QueueInv, AwaitInv, CallsNext
  PROVE  QueueInv' /\ AwaitInv'
<1> USE DEF lock, threads, conn
<1>1. ASSUME NEW c \in Callers, Ask(c)
      PROVE  QueueInv' /\ AwaitInv'
  <2> DEFINE k == <<c, made[c] + 1>>
  <2>1. k \in Calls /\ Task(k) = c /\ k = Current(c)'
    BY <1>1, AskedGrows DEF Task, Current, Ask, AskedInv
  <2>2. queue' = Append(queue, k) /\ waits[c] = "free"
        /\ waits' = [waits EXCEPT ![c] = "lock"] /\ made' = [made EXCEPT ![c] = @ + 1]
    BY <1>1 DEF Ask
  <2>3. \A i \in 1..Len(queue) : Task(queue[i]) # c /\ Task(queue[i]) \in Callers
    BY <2>2, CallsMembers DEF QueueInv, Task, Current
  <2> HIDE DEF k
  <2>4. /\ queue' \in Seq(Calls) /\ Len(queue') = Len(queue) + 1
        /\ queue'[Len(queue) + 1] = k
        /\ \A i \in 1..Len(queue) : queue'[i] = queue[i]
    BY <2>1, <2>2 DEF QueueInv
  <2>5. \A d \in Callers : d # c => waits'[d] = waits[d] /\ made'[d] = made[d]
    BY <2>2 DEF AskedInv
  <2>6. waits'[c] = "lock"
    BY <2>2 DEF AskedInv
  <2>7. QueueInv'
    <3>1. \A i \in 1..Len(queue') :
             /\ queue'[i] = <<queue'[i][1], made'[queue'[i][1]]>>
             /\ waits'[queue'[i][1]] # "free"
             /\ i > 1 => waits'[queue'[i][1]] = "lock"
      BY <2>1, <2>3, <2>4, <2>5, <2>6 DEF QueueInv, Task, Current
    <3>2. \A i \in 1..Len(queue') : i \in 1..Len(queue) \/ i = Len(queue) + 1
      BY <2>4 DEF QueueInv
    <3>3. \A i \in 1..Len(queue) : i \in 1..Len(queue')
      BY <2>4 DEF QueueInv
    <3>4. \A i, j \in 1..Len(queue') : queue'[i][1] = queue'[j][1] => i = j
      BY <2>1, <2>3, <2>4, <3>2 DEF QueueInv, Task
    <3>5. \A d \in Callers : waits'[d] # "free" =>
             \E i \in 1..Len(queue') : queue'[i] = <<d, made'[d]>>
      <4> SUFFICES ASSUME NEW d \in Callers, waits'[d] # "free"
                   PROVE  \E i \in 1..Len(queue') : queue'[i] = <<d, made'[d]>>
        OBVIOUS
      <4>1. CASE d = c
        <5>1. Len(queue) + 1 \in 1..Len(queue')
          BY <2>4 DEF QueueInv
        <5> QED
          BY <4>1, <5>1, <2>1, <2>4 DEF Current
      <4>2. CASE d # c
        <5>1. PICK i \in 1..Len(queue) : queue[i] = <<d, made[d]>>
          BY <4>2, <2>5 DEF QueueInv, Current
        <5> QED
          BY <4>2, <5>1, <3>3, <2>4, <2>5
      <4> QED
        BY <4>1, <4>2
    <3> QED
      BY <2>4, <3>1, <3>4, <3>5 DEF QueueInv, Task, Current
  <2>8. AwaitInv'
    BY <1>1, <2>2, <2>5, <2>6 DEF AwaitInv, Ask, Current
  <2> QED
    BY <2>7, <2>8
<1>2. ASSUME NEW c \in Callers, waits[c] = "lock", queue # <<>>, Head(queue) = Current(c),
             begun' = begun \cup {Current(c)}, waits' = [waits EXCEPT ![c] = "thread"],
             UNCHANGED <<made, queue, written, conn, ragged>>
      PROVE  QueueInv' /\ AwaitInv'
  <2>1. queue[1] = Current(c) /\ Task(queue[1]) = c /\ 1 \in 1..Len(queue)
    BY <1>2 DEF QueueInv, Current, Task
  <2>2. \A i \in 1..Len(queue) : i > 1 => Task(queue[i]) # c
    BY <2>1 DEF QueueInv
  <2>3. \A d \in Callers : made'[d] = made[d]
                           /\ (d # c => waits'[d] = waits[d]) /\ waits'[c] = "thread"
    BY <1>2 DEF Current, AskedInv
  <2>4. \A i \in 1..Len(queue) : Task(queue[i]) \in Callers
    BY CallsMembers DEF QueueInv, Task, Current
  <2>5. QueueInv'
    BY <1>2, <2>1, <2>2, <2>3, <2>4 DEF QueueInv, Task, Current
  <2>6. AwaitInv'
    BY <1>2, <2>3 DEF AwaitInv, Current
  <2> QED
    BY <2>5, <2>6
<1>3. ASSUME NEW c \in Callers, Return(c)
      PROVE  QueueInv' /\ AwaitInv'
  <2>1. Answered(c) /\ waits' = [waits EXCEPT ![c] = "free"] /\ queue' = Tail(queue)
        /\ UNCHANGED <<made, begun, written>>
    BY <1>3 DEF Return
  <2>2. PICK i \in 1..Len(queue) : queue[i] = Current(c)
    BY <2>1 DEF Answered, QueueInv
  <2>3. Task(queue[i]) = c /\ i = 1 /\ Len(queue) \in Nat
    BY <2>1, <2>2 DEF Answered, QueueInv, Current, Task
  <2>4. /\ queue' \in Seq(Calls) /\ Len(queue') = Len(queue) - 1
        /\ \A j \in 1..Len(queue') : queue'[j] = IF j < i THEN queue[j] ELSE queue[j + 1]
    BY <2>1, <2>2, <2>3 DEF QueueInv
  <2>5. QueueInv'
    BY <2>1, <2>2, <2>4, QueueRemoved
  <2>6. AwaitInv'
    BY <2>1 DEF AwaitInv, AskedInv, Current
  <2> QED
    BY <2>5, <2>6
<1>4. ASSUME NEW c \in Callers, Leave(c)
      PROVE  QueueInv' /\ AwaitInv'
  <2>1. PICK i \in 1..Len(queue) : queue[i] = Current(c) /\ queue' = RemoveAt(queue, i)
    BY <1>4 DEF Leave
  <2>2. waits' = [waits EXCEPT ![c] = "free"] /\ UNCHANGED <<made, begun, written>>
    BY <1>4 DEF Leave
  <2>3. /\ queue' \in Seq(Calls) /\ Len(queue') = Len(queue) - 1
        /\ \A j \in 1..Len(queue') : queue'[j] = IF j < i THEN queue[j] ELSE queue[j + 1]
    <3>1. queue \in Seq(Calls)
      BY DEF QueueInv
    <3>2. PICK r : r = RemoveAt(queue, i)
      OBVIOUS
    <3>3. /\ r \in Seq(Calls) /\ Len(r) = Len(queue) - 1
          /\ \A j \in 1..(Len(queue) - 1) : r[j] = IF j < i THEN queue[j] ELSE queue[j + 1]
      BY <3>1, <3>2, RemovedAt
    <3> QED
      BY <2>1, <3>2, <3>3
  <2>4. QueueInv'
    BY <2>1, <2>2, <2>3, QueueRemoved
  <2>5. AwaitInv'
    BY <2>2 DEF AwaitInv, AskedInv, Current
  <2> QED
    BY <2>4, <2>5
<1>5. ASSUME NEW k \in begun \cup written, NEW r \in {"ok", "failed"}, Tell(k, r),
             begun \ {k} \subseteq begun', written \ {k} \subseteq written',
             UNCHANGED <<made, queue>>
      PROVE  QueueInv' /\ AwaitInv'
  <2>1. k \in Calls /\ Task(k) \in Callers
    BY CallsMembers DEF Task, AskedInv, Asked
  <2>2. CASE Awaited(k)
    <3>1. queue # <<>> /\ k = queue[1] /\ waits[Task(k)] = "thread" /\ k = Current(Task(k))
      BY <2>1, <2>2, AwaitedIsHead DEF Awaited
    <3>2. waits' = [waits EXCEPT ![Task(k)] = r]
      BY <1>5, <2>2 DEF Tell, Task
    <3>3. \A d \in Callers : made'[d] = made[d]
                             /\ (d # Task(k) => waits'[d] = waits[d])
                             /\ waits'[Task(k)] = r
      BY <1>5, <2>1, <3>2 DEF AskedInv
    <3>4. \A i \in 1..Len(queue) : i > 1 => Task(queue[i]) # Task(k)
      BY <3>1 DEF QueueInv
    <3>5. \A i \in 1..Len(queue) : Task(queue[i]) \in Callers
      BY CallsMembers DEF QueueInv, Task
    <3>6. \A j \in 1..Len(queue') :
             /\ queue'[j] = <<queue'[j][1], made'[queue'[j][1]]>>
             /\ waits'[queue'[j][1]] # "free"
             /\ j > 1 => waits'[queue'[j][1]] = "lock"
      BY <1>5, <3>3, <3>4, <3>5 DEF QueueInv, Task, Current
    <3>7. \A d \in Callers : waits'[d] # "free" => waits[d] # "free"
      BY <3>1, <3>3
    <3>8. QueueInv'
      BY <1>5, <3>3, <3>6, <3>7 DEF QueueInv, Task, Current
    <3>9. AwaitInv'
      <4> SUFFICES ASSUME NEW d \in Callers, waits'[d] = "thread"
                   PROVE  <<d, made'[d]>> \in begun' \cup written'
        BY DEF AwaitInv, Current
      <4>1. d # Task(k) /\ waits[d] = "thread" /\ made'[d] = made[d]
        BY <1>5, <3>3
      <4>2. <<d, made[d]>> \in begun \cup written /\ <<d, made[d]>> # k
        BY <4>1 DEF AwaitInv, Current, Task
      <4> QED
        BY <1>5, <4>1, <4>2
    <3> QED
      BY <3>8, <3>9
  <2>3. CASE ~Awaited(k)
    <3>1. waits' = waits
      BY <1>5, <2>3 DEF Tell
    <3>2. QueueInv'
      BY <1>5, <3>1 DEF QueueInv, Current, Task
    <3>3. AwaitInv'
      <4> SUFFICES ASSUME NEW d \in Callers, waits[d] = "thread"
                   PROVE  <<d, made[d]>> \in begun' \cup written'
        BY <1>5, <3>1 DEF AwaitInv, Current
      <4>1. <<d, made[d]>> \in begun \cup written /\ <<d, made[d]>> # k
        BY <2>3 DEF AwaitInv, Awaited, Current, Task
      <4> QED
        BY <1>5, <4>1
    <3> QED
      BY <3>2, <3>3
  <2> QED
    BY <2>2, <2>3
<1>6. ASSUME NEW k \in Calls, Execute(k)
      PROVE  QueueInv' /\ AwaitInv'
  <2>1. UNCHANGED <<made, waits, queue>> /\ begun' \cup written' = begun \cup written
    BY <1>6 DEF Execute
  <2> QED
    BY <2>1 DEF QueueInv, AwaitInv, Current, Task
<1>7. ASSUME NEW k \in Calls, Commit(k) \/ Fail(k)
      PROVE  QueueInv' /\ AwaitInv'
  BY <1>5, <1>7 DEF Commit, Fail
<1>8. CASE Close
  BY <1>8 DEF Close, QueueInv, AwaitInv, Current, Task
<1> QED
  BY <1>1, <1>2, <1>3, <1>4, <1>6, <1>7, <1>8 DEF CallsNext, Thread, Enter

\* While no task has been cancelled within a call, there is one thread at most.
LEMMA ThreadNext ==
  ASSUME StoreAssumption, AskedInv, QueueInv, ThreadInv, CallsNext, ~ragged',
         good \subseteq db
  PROVE  ThreadInv' /\ good' \subseteq db'
<1> USE DEF lock, threads, conn
<1>1. ASSUME NEW c \in Callers, Ask(c)
      PROVE  ThreadInv' /\ good' \subseteq db'
  <2>1. \A k \in begun \cup written :
           k[1] \in Callers /\ k[1] # c /\ waits[k[1]] = "thread" /\ k = <<k[1], made[k[1]]>>
    BY <1>1, OneThread DEF Task, Current, Ask
  <2>2. \A d \in Callers : d # c => waits'[d] = waits[d] /\ made'[d] = made[d]
    BY <1>1 DEF AskedInv, Ask
  <2>3. \A k \in begun \cup written : Awaited(k)'
    BY <2>1, <2>2 DEF Awaited, Task, Current
  <2> QED
    BY <1>1, <2>3 DEF ThreadInv, Ask
<1>2. ASSUME NEW c \in Callers, waits[c] = "lock", queue # <<>>, Head(queue) = Current(c),
             begun' = begun \cup {Current(c)}, waits' = [waits EXCEPT ![c] = "thread"],
             UNCHANGED <<made, queue, written, conn, ragged>>
      PROVE  ThreadInv' /\ good' \subseteq db'
  <2>1. begun \cup written = {}
    BY <1>2, OneThread DEF QueueInv, Current, Task
  <2>2. made'[c] = made[c] /\ waits'[c] = "thread"
    BY <1>2 DEF AskedInv
  <2> QED
    BY <1>2, <2>1, <2>2 DEF ThreadInv, Awaited, Task, Current
<1>3. ASSUME NEW c \in Callers, Return(c)
      PROVE  ThreadInv' /\ good' \subseteq db'
  <2>1. PICK i \in 1..Len(queue) : queue[i] = Current(c)
    BY <1>3 DEF Return, Answered, QueueInv
  <2>2. Task(queue[i]) = c /\ i = 1
    BY <1>3, <2>1 DEF Return, Answered, QueueInv, Current, Task
  <2>3. begun \cup written = {}
    BY <1>3, <2>1, <2>2, OneThread DEF Return, Answered, QueueInv
  <2> QED
    BY <1>3, <2>3 DEF ThreadInv, Return
<1>4. ASSUME NEW k \in Calls, Execute(k)
      PROVE  ThreadInv' /\ good' \subseteq db'
  <2>1. begun \cup written = {k} /\ Awaited(k)
    BY <1>4, OneThread DEF Execute, Awaited
  <2>2. /\ begun' = {} /\ written' = {k} /\ txn' = {k}
        /\ UNCHANGED <<made, waits, queue, good, db>>
    BY <1>4, <2>1 DEF Execute, ThreadInv
  <2> QED
    BY <2>1, <2>2 DEF ThreadInv, Awaited, Current, Task
<1>5. ASSUME NEW k \in Calls, Commit(k) \/ Fail(k)
      PROVE  ThreadInv' /\ good' \subseteq db'
  <2>1. begun \cup written = {k}
    BY <1>5, OneThread DEF Commit, Fail
  <2>2. begun' = {} /\ written' = {} /\ txn' = {}
    BY <1>5, <2>1 DEF Commit, Fail, ThreadInv
  <2>3. good' \subseteq db'
    BY <1>5 DEF Commit, Fail, ThreadInv
  <2> QED
    BY <2>2, <2>3 DEF ThreadInv
<1>6. CASE Close
  <2>1. begun \cup written = {}
    BY <1>6, OneThread DEF Close
  <2> QED
    BY <1>6, <2>1 DEF Close, ThreadInv
<1>7. ASSUME NEW c \in Callers, Leave(c)
      PROVE  FALSE
  BY <1>7 DEF Leave
<1> QED
  BY <1>1, <1>2, <1>3, <1>4, <1>5, <1>6, <1>7 DEF CallsNext, Thread, Enter

LEMMA SerialNext ==
  ASSUME StoreAssumption, SerialInv, [CallsNext]_callVars
  PROVE  SerialInv'
<1>1. CASE CallsNext
  <2>1. AskedInv' /\ QueueInv' /\ AwaitInv'
    BY <1>1, AskedNext, QueueNext DEF SerialInv
  <2>2. ragged => ragged'
    BY <1>1 DEF CallsNext, Enter, Close, Ask, Return, Leave, Thread, Execute, Commit, Fail
  <2>3. ~ragged' => ThreadInv' /\ good' \subseteq db'
    BY <1>1, <2>2, ThreadNext DEF SerialInv
  <2> QED
    BY <2>1, <2>3 DEF SerialInv
<1>2. CASE UNCHANGED callVars
  BY <1>2 DEF callVars, lock, threads, conn, SerialInv, AskedInv, Asked, QueueInv, ThreadInv,
              AwaitInv, Awaited, Current, Task
<1> QED
  BY <1>1, <1>2

\* Each step of the calls is one of the serial store, or none.
LEMMA SerialStep ==
  ASSUME StoreAssumption, SerialInv, SerialInv', CallsNext
  PROVE  [Serial!Next]_(Serial!vars)
<1> DEFINE line == IF ragged THEN <<>> ELSE Line
<1>1. /\ Serial!vars = <<Asked, line, db, good, ragged>>
      /\ (Serial!vars)' = <<Asked', line', db', good', ragged'>>
  BY DEF Serial!vars, Asked
<1>2. CASE ragged'
  <2>1. Asked \subseteq Asked' /\ Asked' \subseteq Calls
    BY AskedGrows DEF SerialInv, Asked
  <2>2. db \subseteq db' /\ good \subseteq good' /\ db' \subseteq Asked'
    BY DEF CallsNext, Enter, Close, Ask, Return, Leave, Thread, Execute, Commit, Fail,
           SerialInv, AskedInv, conn
  <2>3. Serial!Loose
    BY <1>2, <2>1, <2>2 DEF Serial!Loose, Asked
  <2> QED
    BY <2>3 DEF Serial!Next
<1>3. CASE ~ragged'
  <2>1. ~ragged /\ UNCHANGED ragged
    <3>1. ragged => ragged'
      BY DEF CallsNext, Enter, Close, Ask, Return, Leave, Thread, Execute, Commit, Fail
    <3>2. ragged = FALSE /\ ragged' = FALSE
      BY <3>1, <1>3 DEF SerialInv, AskedInv
    <3> QED
      BY <3>2
  <2>2. AskedInv /\ QueueInv /\ ThreadInv
    BY <2>1 DEF SerialInv
  <2>3. line = Line /\ line' = Line'
    BY <2>1, <1>3
  <2>4. \A i \in 1..Len(queue) : Task(queue[i]) \in Callers
    BY <2>2, CallsMembers DEF QueueInv, Task
  <2>5. ASSUME NEW c \in Callers, Ask(c)
        PROVE  Serial!Next
    <3> DEFINE k == <<c, made[c] + 1>>
    <3>1. k \in Calls \ Asked /\ Asked' = Asked \cup {k}
      BY <2>2, <2>5, AskedGrows
    <3>2. queue' = Append(queue, k) /\ waits[c] = "free"
          /\ waits' = [waits EXCEPT ![c] = "lock"] /\ Task(k) = c
          /\ UNCHANGED <<db, good, ragged>>
      BY <2>5 DEF Ask, Task, conn
    <3> HIDE DEF k
    <3>3. \A d \in Callers : d # c => waits'[d] = waits[d]
      BY <3>2, <2>2 DEF AskedInv
    <3>4. waits'[c] = "lock"
      BY <3>2, <2>2 DEF AskedInv
    <3>5. Line' = Append(Line, k)
      <4>1. CASE queue = <<>>
        <5>1. queue' = <<k>> /\ Head(queue') = k
          BY <3>2, <4>1
        <5> QED
          BY <5>1, <4>1, <3>2, <3>4 DEF Line, Answered, Task
      <4>2. CASE queue # <<>>
        <5>1. /\ 1 \in 1..Len(queue) /\ Head(queue) = queue[1]
              /\ queue' # <<>> /\ Head(queue') = Head(queue)
              /\ Tail(queue') = Append(Tail(queue), k)
          BY <3>1, <3>2, <4>2, <2>2 DEF QueueInv
        <5>2. Task(queue[1]) # c /\ Task(queue[1]) \in Callers
          BY <5>1, <3>2, <2>2, <2>4 DEF QueueInv
        <5>3. waits'[Head(queue')[1]] = waits[Head(queue)[1]]
          BY <5>1, <5>2, <3>3 DEF Task
        <5> QED
          BY <5>1, <5>3, <3>2, <4>2 DEF Line, Answered, Task
      <4> QED
        BY <4>1, <4>2
    <3>6. \E l \in Calls : Serial!Ask(l)
      <4>1. k \in Calls
        BY <3>1
      <4>2. /\ ~ragged /\ k \notin Asked /\ Asked' = Asked \cup {k}
            /\ line' = Append(line, k) /\ UNCHANGED <<db, good, ragged>>
        BY <2>1, <2>3, <3>1, <3>2, <3>5
      <4> HIDE DEF line
      <4> QED
        BY <4>1, <4>2 DEF Serial!Ask, Asked, line
    <3> QED
      BY <3>6 DEF Serial!Next
  <2>6. ASSUME \A c \in Callers : ~Ask(c)
        PROVE  Asked' = Asked
    BY <2>2, <2>6, AskedGrows
  <2>7. ASSUME NEW c \in Callers, waits[c] = "lock", queue # <<>>, Head(queue) = Current(c),
               waits' = [waits EXCEPT ![c] = "thread"],
               UNCHANGED <<made, queue, conn, ragged>>
        PROVE  UNCHANGED Serial!vars
    <3>1. Task(Head(queue)) = c /\ waits'[c] = "thread"
      BY <2>2, <2>7 DEF Task, Current, AskedInv
    <3>2. Line' = Line
      BY <2>7, <3>1 DEF Line, Answered, Task
    <3>3. Asked' = Asked
      BY <2>7 DEF Asked, Calls
    <3> QED
      BY <1>1, <2>1, <2>3, <2>7, <3>2, <3>3 DEF conn
  <2>8. ASSUME NEW c \in Callers, Return(c)
        PROVE  UNCHANGED Serial!vars
    <3>1. Answered(c) /\ queue' = Tail(queue) /\ waits' = [waits EXCEPT ![c] = "free"]
          /\ UNCHANGED <<made, db, good, ragged>>
      BY <2>8 DEF Return, conn
    <3>2. PICK i \in 1..Len(queue) : queue[i] = Current(c)
      BY <2>2, <3>1 DEF Answered, QueueInv
    <3>3. /\ Task(queue[i]) = c /\ i = 1 /\ queue # <<>> /\ Head(queue) = queue[1]
      BY <2>2, <3>1, <3>2 DEF Answered, QueueInv, Current, Task
    <3>4. Line = Tail(queue)
      BY <3>1, <3>3 DEF Line
    <3>5. Line' = Tail(queue)
      <4>1. CASE Tail(queue) = <<>>
        BY <3>1, <4>1 DEF Line
      <4>2. CASE Tail(queue) # <<>>
        <5>1. 2 \in 1..Len(queue) /\ Head(queue') = queue[2]
          BY <2>2, <3>1, <4>2 DEF QueueInv
        <5>2. Task(queue[2]) # c /\ waits[Task(queue[2])] = "lock"
              /\ Task(queue[2]) \in Callers
          BY <2>2, <2>4, <3>3, <5>1 DEF QueueInv
        <5>3. waits'[Head(queue')[1]] = "lock"
          BY <2>2, <3>1, <5>1, <5>2 DEF AskedInv, Task
        <5> QED
          BY <3>1, <5>3 DEF Line, Answered, Task
      <4> QED
        BY <4>1, <4>2
    <3>6. Asked' = Asked
      BY <3>1 DEF Asked, Calls
    <3> QED
      BY <1>1, <2>1, <2>3, <3>1, <3>4, <3>5, <3>6
  <2>9. ASSUME NEW k \in begun \cup written, NEW r \in {"ok", "failed"}, Tell(k, r),
               UNCHANGED <<made, queue>>
        PROVE  /\ line # <<>> /\ k = Head(line) /\ line' = Tail(line) /\ Asked' = Asked
               /\ begun \cup written = {k}
    <3>1. /\ queue # <<>> /\ k = queue[1] /\ Task(k) \in Callers /\ Awaited(k)
          /\ begun \cup written = {k}
      BY <2>2, <2>9, OneThread DEF Awaited
    <3>2. Head(queue) = k /\ waits[Task(k)] = "thread"
      BY <2>2, <3>1 DEF QueueInv, Awaited
    <3>3. waits'[Task(k)] = r
      BY <2>2, <2>9, <3>1 DEF Tell, AskedInv, Task
    <3>4. Line = queue
      BY <3>2 DEF Line, Answered
    <3>5. Line' = Tail(queue)
      BY <2>9, <3>1, <3>2, <3>3 DEF Line, Answered, Task
    <3>6. Asked' = Asked
      BY <2>9 DEF Asked, Calls
    <3> QED
      BY <2>3, <3>1, <3>2, <3>4, <3>5, <3>6
  <2>10. ASSUME NEW k \in Calls, Execute(k)
         PROVE  UNCHANGED Serial!vars
    <3>1. UNCHANGED <<made, waits, queue, db, good, ragged>>
      BY <2>10 DEF Execute, lock
    <3> QED
      BY <1>1, <3>1 DEF Line, Answered, Asked, Calls
  <2>11. ASSUME NEW k \in Calls, Commit(k)
         PROVE  Serial!Next
    <3>1. /\ line # <<>> /\ k = Head(line) /\ line' = Tail(line) /\ Asked' = Asked
          /\ begun \cup written = {k}
      BY <2>9, <2>11 DEF Commit
    <3>2. txn = {k} /\ db' = db \cup {k} /\ good' = good \cup {k}
      BY <2>2, <2>11, <3>1 DEF Commit, ThreadInv
    <3>3. Serial!Answer
      BY <2>1, <3>1, <3>2 DEF Serial!Answer, Asked
    <3> QED
      BY <3>3 DEF Serial!Next
  <2>12. ASSUME NEW k \in Calls, Fail(k)
         PROVE  Serial!Next
    <3>1. /\ line # <<>> /\ k = Head(line) /\ line' = Tail(line) /\ Asked' = Asked
          /\ UNCHANGED <<db, good>>
      BY <2>9, <2>12 DEF Fail
    <3>2. Serial!Answer
      BY <2>1, <3>1 DEF Serial!Answer, Asked
    <3> QED
      BY <3>2 DEF Serial!Next
  <2>13. ASSUME Close
         PROVE  UNCHANGED Serial!vars
    <3>1. UNCHANGED <<made, waits, queue, db, good, ragged>>
      BY <2>13 DEF Close, lock
    <3> QED
      BY <1>1, <3>1 DEF Line, Answered, Asked, Calls
  <2>14. ASSUME NEW c \in Callers, Leave(c)
         PROVE  FALSE
    BY <2>14, <1>3 DEF Leave
  <2> QED
    BY <2>5, <2>7, <2>8, <2>10, <2>11, <2>12, <2>13, <2>14 DEF CallsNext, Thread, Enter
<1> QED
  BY <1>2, <1>3

----------------------------------------------------------------------------
(* The process makes no step that is not one of the calls'.                *)

LEMMA StepIsCall ==
  ASSUME ProcessAssumption, Next
  PROVE  [CallsNext]_callVars
<1>1. "main" \in Callers /\ Tasks \subseteq Callers
  BY DEF ProcessAssumption
<1>2. "entry" \in Callers /\ Loops \subseteq Callers
  BY <1>1 DEF Tasks
<1> USE <1>1, <1>2 DEF CallsNext
<1>3. CASE Main
  BY <1>3 DEF Main, Hydrate, Hydrated, GatherEnds, Unwound, CloseStore, Exit
<1>4. CASE Signal
  BY <1>4 DEF Signal
<1>5. CASE Stop
  BY <1>5 DEF Stop
<1>6. CASE Worker
  BY <1>6 DEF Worker
<1>7. ASSUME NEW t \in Tasks, Step(t)
      PROVE  [CallsNext]_callVars
  <2>1. CASE Cancelled(t)
    BY <2>1 DEF Cancelled
  <2>2. CASE Entry
    BY <2>2 DEF Entry, StartEntry, Claimed, Work, Worked, Finally, Finished
  <2>3. CASE t \in Loops /\ Loop(t)
    BY <2>3 DEF Loop, Turn, Call, Called, Rest
  <2> QED
    BY <1>7, <2>1, <2>2, <2>3 DEF Step
<1> QED
  BY <1>3, <1>4, <1>5, <1>6, <1>7 DEF Next

\* The lock, the threads and the one connection are a serial store until a task is
\* cancelled within a call, whoever calls and however often (datastore.py:4-7).
THEOREM CallsRefine == CallsSpec => ImplementsSerialStore
<1> USE StoreAssumption
<1>1. CallsInit => SerialInv
  BY SerialInit
<1>2. SerialInv /\ [CallsNext]_callVars => SerialInv'
  BY SerialNext
<1>3. CallsInit => Serial!Init
  BY DEF CallsInit, Serial!Init, Line, Calls, StoreAssumption
<1>4. SerialInv /\ SerialInv' /\ [CallsNext]_callVars => [Serial!Next]_(Serial!vars)
  <2>1. ASSUME UNCHANGED callVars
        PROVE  UNCHANGED Serial!vars
    BY <2>1 DEF callVars, lock, threads, conn, Serial!vars, Line, Answered, Task, Calls
  <2> QED
    BY <2>1, SerialStep
<1> QED
  BY <1>1, <1>2, <1>3, <1>4, PTL DEF CallsSpec, ImplementsSerialStore, Serial!Spec

\* The bot's process uses it so.
THEOREM Refines == Spec => ImplementsSerialStore
<1>1. Init => CallsInit
  BY DEF Init
<1>2. [Next]_vars => [CallsNext]_callVars
  BY StepIsCall, ProcessAssumption DEF vars
<1>3. Spec => CallsSpec
  BY <1>1, <1>2, PTL DEF Spec, CallsSpec
<1> QED
  BY <1>3, CallsRefine

LEMMA SerialHolds == Spec => []SerialInv
<1>1. Init => SerialInv
  BY SerialInit, StoreAssumption DEF Init
<1>2. SerialInv /\ [Next]_vars => SerialInv'
  BY SerialNext, StepIsCall, StoreAssumption, ProcessAssumption DEF vars
<1> QED
  BY <1>1, <1>2, PTL DEF Spec

\* The first in the queue can go on: it can take the lock, its thread is there to
\* end, or its answer is.
FirstGoesOn ==
  queue # <<>> =>
    LET c == Task(Head(queue))
    IN /\ Head(queue) = Current(c)
       /\ \/ waits[c] = "lock" \/ Answered(c)
          \/ waits[c] = "thread" /\ Current(c) \in begun \cup written

\* Nobody but the first has the lock, and whoever is within a call is in the queue.
LockIsKept ==
  \A c \in Callers : Within(c) => \E i \in 1..Len(queue) :
    queue[i] = Current(c) /\ (i > 1 => waits[c] = "lock")

\* The lock is never lost, nor held by two: wherever tasks are cancelled within a
\* call, whoever waits is in the queue, and the first of it can go on
\* (datastore.py:151-153).
THEOREM LockHolds == Spec => [](FirstGoesOn /\ LockIsKept)
<1>1. SerialInv => FirstGoesOn
  <2> SUFFICES ASSUME SerialInv, queue # <<>>
               PROVE  LET c == Task(Head(queue))
                      IN /\ Head(queue) = Current(c)
                         /\ \/ waits[c] = "lock" \/ Answered(c)
                            \/ waits[c] = "thread" /\ Current(c) \in begun \cup written
    BY DEF FirstGoesOn
  <2>1. queue \in Seq(Calls)
    BY DEF SerialInv, QueueInv
  <2>2. 1 \in 1..Len(queue) /\ Head(queue) = queue[1] /\ queue[1] \in Calls
    BY <2>1
  <2>3. PICK c : c = Task(queue[1])
    OBVIOUS
  <2>4. c \in Callers
    BY <2>2, <2>3, CallsMembers, StoreAssumption DEF Task
  <2>5. queue[1] = Current(c) /\ waits[c] # "free"
    BY <2>2, <2>3 DEF SerialInv, QueueInv
  <2>6. waits[c] \in {"free", "lock", "thread", "ok", "failed"}
    BY <2>4 DEF SerialInv, AskedInv
  <2>7. waits[c] = "thread" => Current(c) \in begun \cup written
    BY <2>4 DEF SerialInv, AwaitInv
  <2> QED
    BY <2>2, <2>3, <2>5, <2>6, <2>7 DEF Answered
<1>2. SerialInv => LockIsKept
  <2> SUFFICES ASSUME SerialInv, NEW c \in Callers, Within(c)
               PROVE  \E i \in 1..Len(queue) :
                        queue[i] = Current(c) /\ (i > 1 => waits[c] = "lock")
    BY DEF LockIsKept
  <2>1. PICK i \in 1..Len(queue) : queue[i] = Current(c)
    BY DEF SerialInv, QueueInv, Within
  <2>2. i > 1 => waits[c] = "lock"
    BY <2>1 DEF SerialInv, QueueInv, Task, Current
  <2> QED
    BY <2>1, <2>2
<1> QED
  BY <1>1, <1>2, SerialHolds, PTL

----------------------------------------------------------------------------
(* Shutdown.                                                               *)

\* Tasks exist between run()'s hydration and its end; the store is closed after.
PhaseInv ==
  /\ pc \in [Tasks -> Steps]
  /\ phase = "hydrate" => \A t \in Tasks : pc[t] = "none"
  /\ phase \in {"closing", "exiting", "exited"} => Live = {}
  /\ ~open => phase \in {"exiting", "exited"} /\ queue = <<>>

\* After a stop a task that is not about to be cancelled is one that was created
\* since and has begun nothing, or in the finally of a cancelled handler.
StopInv ==
  /\ made \in [Callers -> Nat]
  /\ cancel \subseteq Tasks
  /\ ~running => \A t \in Live \ cancel : pc[t] \in {"start", "poll", "dying", "last"}

LEMMA PhaseNext ==
  ASSUME ProcessAssumption, PhaseInv, [Next]_vars
  PROVE  PhaseInv'
<1> USE DEF PhaseInv
<1>1. CASE UNCHANGED vars
  BY <1>1 DEF vars, callVars, lock, conn, Live
<1>2. CASE Main
  <2>1. CASE Hydrate
    BY <2>1 DEF Hydrate, Ask, conn, Live
  <2>2. CASE Hydrated
    BY <2>2 DEF Hydrated, Return, conn, Live, Steps, Ended
  <2>3. CASE GatherEnds
    BY <2>3 DEF GatherEnds, callVars, lock, conn, Live
  <2>4. CASE Unwound
    BY <2>4 DEF Unwound, callVars, lock, conn, Live
  <2>5. CASE CloseStore
    BY <2>5 DEF CloseStore, Close, lock, Live
  <2>6. CASE Exit
    BY <2>6 DEF Exit, callVars, lock, conn, Live
  <2> QED
    BY <1>2, <2>1, <2>2, <2>3, <2>4, <2>5, <2>6 DEF Main
<1>3. CASE Stop
  BY <1>3 DEF Stop, callVars, lock, conn, Live
<1>4. CASE Worker
  <2>1. UNCHANGED <<phase, pc>> /\ queue' = queue /\ open' = open
    BY <1>4 DEF Worker, Enter, Thread, Execute, Commit, Fail, lock, conn
  <2> QED
    BY <2>1 DEF Live
<1>5. ASSUME NEW t \in Live, NEW step \in Steps, t \in Tasks, UNCHANGED <<phase, open>>,
             pc' = [pc EXCEPT ![t] = step] \/ pc' = pc, step # "none"
      PROVE  PhaseInv'
  <2>1. phase \notin {"hydrate", "closing", "exiting", "exited"}
    BY <1>5 DEF Live
  <2>2. open
    BY <2>1
  <2> QED
    BY <1>5, <2>1, <2>2
<1>6. ASSUME NEW c, Ask(c) \/ Return(c) \/ Leave(c)
      PROVE  UNCHANGED open
  BY <1>6 DEF Ask, Return, Leave, conn
<1>7. CASE Signal
  BY <1>5, <1>6, <1>7 DEF Signal, Goes, To, callVars, conn, Steps, Ended, Live
<1>8. ASSUME NEW t \in Tasks, Cancelled(t)
      PROVE  PhaseInv'
  BY <1>5, <1>6, <1>8 DEF Cancelled, To, callVars, conn, Steps, Ended, Live
<1>9. CASE Entry
  <2>1. "entry" \in Tasks
    BY DEF Tasks
  <2>2. CASE StartEntry
    BY <1>5, <2>1, <2>2 DEF StartEntry, Goes, To, callVars, conn, Steps
  <2>3. CASE Claimed
    BY <1>5, <1>6, <2>1, <2>3 DEF Claimed, Goes, To, Steps
  <2>4. CASE Work
    BY <1>5, <1>6, <2>1, <2>4 DEF Work, Goes, Steps
  <2>5. CASE Worked
    BY <1>5, <1>6, <2>1, <2>5 DEF Worked, Goes, To, Steps
  <2>6. CASE Finally
    BY <1>5, <1>6, <2>1, <2>6 DEF Finally, Goes, To, Steps, Live, Ended
  <2>7. CASE Finished
    BY <1>5, <1>6, <2>1, <2>7 DEF Finished, Goes, To, Steps, Ended
  <2> QED
    BY <1>9, <2>2, <2>3, <2>4, <2>5, <2>6, <2>7 DEF Entry
<1>10. ASSUME NEW t \in Loops, Loop(t)
       PROVE  PhaseInv'
  <2>1. t \in Tasks
    BY DEF Tasks
  <2>2. CASE Turn(t)
    BY <1>5, <2>1, <2>2 DEF Turn, Goes, To, callVars, conn, Steps, Ended
  <2>3. CASE Call(t)
    BY <1>5, <1>6, <2>1, <2>3 DEF Call, Goes, Steps
  <2>4. CASE Called(t)
    BY <1>5, <1>6, <2>1, <2>4 DEF Called, Goes, To, Steps
  <2>5. CASE Rest(t)
    BY <1>5, <2>1, <2>5 DEF Rest, Goes, To, callVars, conn, Steps
  <2> QED
    BY <1>10, <2>2, <2>3, <2>4, <2>5 DEF Loop
<1> QED
  BY <1>1, <1>2, <1>3, <1>4, <1>7, <1>8, <1>9, <1>10 DEF Next, Step

\* The store is closed when no task is left to call it.
THEOREM ClosedHolds == Spec => []ClosedLast
<1>1. Init => PhaseInv
  BY DEF Init, CallsInit, PhaseInv, Live, Steps, Ended
<1>2. PhaseInv /\ [Next]_vars => PhaseInv'
  BY PhaseNext, ProcessAssumption
<1>3. PhaseInv => ClosedLast
  BY DEF PhaseInv, ClosedLast
<1> QED
  BY <1>1, <1>2, <1>3, PTL DEF Spec

\* While the bot runs no task is cancelled, nor has one been within a call.
CalmInv ==
  running => /\ cancel = {} /\ ~ragged
             /\ \A t \in Tasks : pc[t] \notin {"cancelled", "dying", "last"}

LEMMA CalmNext ==
  ASSUME PhaseInv, CalmInv, [Next]_vars
  PROVE  CalmInv'
<1> USE DEF CalmInv
<1>1. pc \in [Tasks -> Steps]
  BY DEF PhaseInv
<1>2. CASE UNCHANGED vars
  BY <1>2 DEF vars, callVars
<1>3. CASE Main
  <2>1. CASE Hydrate
    BY <2>1 DEF Hydrate, Ask
  <2>2. CASE Hydrated
    BY <2>2 DEF Hydrated, Return
  <2>3. CASE GatherEnds
    <3>1. running => Live = {}
      BY <2>3 DEF GatherEnds
    <3> QED
      BY <2>3, <3>1 DEF GatherEnds, callVars
  <2>4. CASE Unwound \/ CloseStore \/ Exit
    BY <2>4 DEF Unwound, CloseStore, Close, Exit, callVars
  <2> QED
    BY <1>3, <2>1, <2>2, <2>3, <2>4 DEF Main
<1>4. CASE Stop
  BY <1>4 DEF Stop
<1>5. CASE Worker
  BY <1>5 DEF Worker, Enter, Thread, Execute, Commit, Fail
<1>6. CASE Signal
  BY <1>6, <1>1 DEF Signal, To, Ask, callVars
<1>7. ASSUME NEW t \in Tasks, Cancelled(t)
      PROVE  CalmInv'
  BY <1>7 DEF Cancelled
<1>8. CASE Entry
  <2>1. CASE StartEntry
    BY <2>1, <1>1 DEF StartEntry, To, callVars
  <2>2. CASE Claimed
    BY <2>2, <1>1 DEF Claimed, To, Return
  <2>3. CASE Work
    BY <2>3 DEF Work, Ask
  <2>4. CASE Worked
    BY <2>4, <1>1 DEF Worked, To, Return
  <2>5. CASE Finally
    <3>1. "entry" \in Tasks
      BY DEF Tasks
    <3> QED
      BY <2>5, <3>1, <1>1 DEF Finally, To, Ask
  <2>6. CASE Finished
    <3>1. "entry" \in Tasks
      BY DEF Tasks
    <3> QED
      BY <2>6, <3>1, <1>1 DEF Finished, To, Return
  <2> QED
    BY <1>8, <2>1, <2>2, <2>3, <2>4, <2>5, <2>6 DEF Entry
<1>9. ASSUME NEW t \in Loops, Loop(t)
      PROVE  CalmInv'
  <2>1. CASE Turn(t)
    BY <2>1, <1>1 DEF Turn, To, callVars
  <2>2. CASE Call(t)
    BY <2>2 DEF Call, Ask
  <2>3. CASE Called(t)
    BY <2>3, <1>1 DEF Called, To, Return
  <2>4. CASE Rest(t)
    BY <2>4, <1>1 DEF Rest, To, callVars
  <2> QED
    BY <1>9, <2>1, <2>2, <2>3, <2>4 DEF Loop
<1> QED
  BY <1>2, <1>3, <1>4, <1>5, <1>6, <1>7, <1>8, <1>9 DEF Next, Step

\* What OneTransaction says, and that a reported success is in the database.
SerialWhileRunning == running => OneTransaction /\ good \subseteq db

\* Until a stop the store is what the comment at its head says: no two threads share
\* the connection, and what reported success is committed (datastore.py:4-7).
THEOREM RunningIsSerial == Spec => []SerialWhileRunning
<1>1. Init => PhaseInv /\ CalmInv
  BY DEF Init, CallsInit, PhaseInv, Live, Steps, Ended, CalmInv
<1>2. PhaseInv /\ [Next]_vars => PhaseInv'
  BY PhaseNext, ProcessAssumption
<1>3. PhaseInv /\ CalmInv /\ [Next]_vars => CalmInv'
  BY CalmNext
<1>4. SerialInv /\ CalmInv => SerialWhileRunning
  <2> SUFFICES ASSUME SerialInv, CalmInv, running
               PROVE  OneTransaction /\ good \subseteq db
    BY DEF SerialWhileRunning
  <2>1. AskedInv /\ QueueInv /\ ThreadInv /\ good \subseteq db
    BY DEF SerialInv, CalmInv
  <2> QED
    BY <2>1, OneThread, StoreAssumption DEF OneTransaction
<1> QED
  BY <1>1, <1>2, <1>3, <1>4, SerialHolds, PTL DEF Spec

LEMMA StopNext ==
  ASSUME ProcessAssumption, PhaseInv, StopInv, Next
  PROVE  /\ StopInv'
         /\ ~running => \A t \in Tasks : made'[t] # made[t] => pc'[t] \in {"final", "last"}
<1> USE DEF StopInv
<1>1. Tasks \subseteq Callers /\ "main" \in Callers \ Tasks /\ "entry" \in Tasks
      /\ Loops \subseteq Tasks \ {"entry"}
  BY DEF ProcessAssumption, Tasks, Loops
<1>2. pc \in [Tasks -> Steps]
  BY DEF PhaseInv
<1> DEFINE Quiet == \A t \in Tasks : made'[t] = made[t]
           Same  == UNCHANGED <<running, cancel>>
<1>3. ASSUME NEW c \in Callers, Ask(c)
      PROVE  made' \in [Callers -> Nat] /\ \A d \in Callers : d # c => made'[d] = made[d]
  BY <1>3 DEF Ask
<1>4. ASSUME NEW c, Return(c) \/ Leave(c)
      PROVE  made' = made
  BY <1>4 DEF Return, Leave
<1>5. CASE Main
  <2>1. Quiet /\ made' \in [Callers -> Nat] /\ running' = running
    BY <1>1, <1>3, <1>4, <1>5
       DEF Main, Hydrate, Hydrated, GatherEnds, Unwound, CloseStore, Close, Exit, callVars, lock
  <2>2. CASE Hydrated
    BY <1>2, <2>1, <2>2 DEF Hydrated, Live, Steps, Ended
  <2>3. CASE GatherEnds
    BY <2>1, <2>3 DEF GatherEnds, Live
  <2>4. CASE UNCHANGED <<pc, cancel>>
    BY <2>1, <2>4 DEF Live
  <2> QED
    BY <1>5, <2>1, <2>2, <2>3, <2>4 DEF Main, Hydrate, Unwound, CloseStore, Exit
<1>6. CASE Stop
  BY <1>6 DEF Stop, callVars, lock, Live
<1>7. CASE Worker
  <2>1. UNCHANGED <<running, pc, cancel, made>>
    BY <1>7 DEF Worker, Enter, Thread, Execute, Commit, Fail, lock
  <2> QED
    BY <2>1 DEF Live
\* A task that goes on takes its next step and may make a call.
<1>8. ASSUME NEW t \in Tasks, NEW step \in Steps, Goes(t), pc' = [pc EXCEPT ![t] = step], Same,
             made' = made \/ (Ask(t) /\ (running \/ step \in {"final", "last"})),
             ~running => step \in {"poll", "last"} \cup Ended
      PROVE  StopInv' /\ (~running => \A u \in Tasks : made'[u] # made[u]
                                                       => pc'[u] \in {"final", "last"})
  <2>1. made' \in [Callers -> Nat] /\ \A d \in Callers : d # t => made'[d] = made[d]
    BY <1>1, <1>3, <1>8
  <2>2. Live' \ {t} = Live \ {t} /\ \A u \in Tasks : u # t => pc'[u] = pc[u]
    BY <1>2, <1>8 DEF Live
  <2>3. pc'[t] = step
    BY <1>2, <1>8
  <2>4. ~running => \A u \in Live' \ cancel' : pc'[u] \in {"start", "poll", "dying", "last"}
    BY <1>2, <1>8, <2>2, <2>3 DEF Live, Ended
  <2> QED
    BY <1>1, <1>8, <2>1, <2>2, <2>3, <2>4
<1>9. ASSUME NEW t \in Tasks, Goes(t), ~running
      PROVE  pc[t] \in {"start", "poll", "dying", "last"}
  BY <1>9 DEF Goes
<1>10. ASSUME NEW t \in Tasks, UNCHANGED callVars
       PROVE  made' = made
  BY <1>10 DEF callVars, lock
<1>11. CASE Signal
  BY <1>1, <1>8, <1>10, <1>11 DEF Signal, To, Steps, Ended
<1>12. CASE Entry
  <2>1. CASE StartEntry
    BY <1>1, <1>8, <1>10, <2>1 DEF StartEntry, To, Steps, Ended
  <2>2. CASE Claimed
    BY <1>1, <1>4, <1>8, <1>9, <2>2 DEF Claimed, To, Steps, Ended
  <2>3. CASE Work
    <3>1. running
      BY <1>1, <1>9, <2>3 DEF Work
    <3> QED
      BY <1>1, <1>3, <2>3, <3>1 DEF Work, Live
  <2>4. CASE Worked
    BY <1>1, <1>4, <1>8, <1>9, <2>4 DEF Worked, To, Steps, Ended
  <2>5. CASE Finished
    BY <1>1, <1>4, <1>8, <1>9, <2>5 DEF Finished, To, Steps, Ended
  <2>6. CASE Finally
    <3>1. Ask("entry") /\ Same
      BY <2>6 DEF Finally
    <3>2. PICK step \in {"final", "last"} : To("entry", step)
      BY <2>6 DEF Finally
    <3>3. ~running /\ "entry" \notin cancel => step = "last"
      <4>1. ~running /\ "entry" \notin cancel /\ "entry" \in Live => pc["entry"] # "raised"
                                                                  /\ pc["entry"] # "work"
        OBVIOUS
      <4>2. pc["entry"] \in {"work", "raised", "dying"} => "entry" \in Live
        BY <1>1 DEF Live, Ended
      <4>3. pc' = [pc EXCEPT !["entry"] = step] /\ pc'["entry"] = step
        BY <3>2, <1>1, <1>2 DEF To
      <4> QED
        BY <2>6, <4>1, <4>2, <4>3, <1>1, <1>2 DEF Finally, To
    <3>4. made' \in [Callers -> Nat] /\ \A d \in Callers : d # "entry" => made'[d] = made[d]
      BY <1>1, <1>3, <3>1
    <3>5. pc'["entry"] = step /\ \A u \in Tasks : u # "entry" => pc'[u] = pc[u]
      BY <1>1, <1>2, <3>2 DEF To
    <3>6. ~running => \A u \in Live' \ cancel' : pc'[u] \in {"start", "poll", "dying", "last"}
      BY <1>1, <3>1, <3>3, <3>5 DEF Live
    <3> QED
      BY <1>1, <3>1, <3>4, <3>5, <3>6
  <2> QED
    BY <1>12, <2>1, <2>2, <2>3, <2>4, <2>5, <2>6 DEF Entry
<1>13. ASSUME NEW t \in Loops, Loop(t)
       PROVE  StopInv' /\ (~running => \A u \in Tasks : made'[u] # made[u]
                                                        => pc'[u] \in {"final", "last"})
  <2>1. t \in Tasks
    BY <1>1
  <2>2. CASE Turn(t)
    BY <1>8, <1>10, <2>1, <2>2 DEF Turn, To, Steps, Ended
  <2>3. CASE Call(t)
    <3>1. running
      BY <1>9, <2>1, <2>3 DEF Call
    <3> QED
      BY <1>1, <1>3, <2>1, <2>3, <3>1 DEF Call, Live
  <2>4. CASE Called(t)
    BY <1>4, <1>8, <1>9, <2>1, <2>4 DEF Called, To, Steps, Ended
  <2>5. CASE Rest(t)
    BY <1>8, <1>9, <1>10, <2>1, <2>5 DEF Rest, To, Steps, Ended
  <2> QED
    BY <1>13, <2>2, <2>3, <2>4, <2>5 DEF Loop
<1>14. ASSUME NEW t \in Tasks, Cancelled(t)
       PROVE  StopInv' /\ (~running => \A u \in Tasks : made'[u] # made[u]
                                                        => pc'[u] \in {"final", "last"})
  <2>1. made' = made
    BY <1>4, <1>10, <1>14 DEF Cancelled
  <2>2. PICK step \in {"dying", "cancelled"} : pc' = [pc EXCEPT ![t] = step]
    BY <1>14 DEF Cancelled, To
  <2>3. pc'[t] = step /\ \A u \in Tasks : u # t => pc'[u] = pc[u]
    BY <1>2, <2>2
  <2>4. cancel' = cancel \ {t} /\ running' = running
    BY <1>14 DEF Cancelled
  <2> QED
    BY <2>1, <2>3, <2>4 DEF Live, Ended
<1> QED
  BY <1>5, <1>6, <1>7, <1>11, <1>12, <1>13, <1>14 DEF Next, Step

\* After a stop nothing is begun.
THEOREM NothingBegun == Spec => NothingBegunAfterStop
<1>1. Init => PhaseInv /\ StopInv
  BY DEF Init, CallsInit, PhaseInv, StopInv, Live, Steps, Ended
<1>2. PhaseInv /\ [Next]_vars => PhaseInv'
  BY PhaseNext, ProcessAssumption
<1>3. PhaseInv /\ StopInv /\ [Next]_vars => StopInv'
  BY StopNext, ProcessAssumption DEF vars, callVars, lock, StopInv, Live
<1>4. PhaseInv /\ StopInv /\ [Next]_vars =>
        [~running => \A t \in Tasks : made'[t] # made[t] => pc'[t] \in {"final", "last"}]_vars
  BY StopNext, ProcessAssumption
<1> QED
  BY <1>1, <1>2, <1>3, <1>4, PTL DEF Spec, NothingBegunAfterStop

----------------------------------------------------------------------------
(* What a stop leaves to be done.                                          *)

\* At most so many steps of main, of a task, of a call and of the threads.
MainLeft(f) == CASE f = "tasks" -> 4 [] f = "unwind" -> 3 [] f = "closing" -> 2
                 [] f = "exiting" -> 1 [] OTHER -> 0
StepsLeft(step) == CASE step = "raised" -> 40 [] step = "start" -> 35
                     [] step \in {"poll", "claim", "work", "final", "busy", "sleep"} -> 30
                     [] step = "dying" -> 20 [] step = "last" -> 10 [] OTHER -> 0
CallLeft(wait) == CASE wait = "lock" -> 6 [] wait = "thread" -> 3
                    [] wait \in {"ok", "failed"} -> 1 [] OTHER -> 0
ThreadsLeft(b, r) == 2 * Cardinality(b) + Cardinality(r)

\* The share of a caller; main has its own steps.
Share(c, p, w) == CallLeft(w[c]) + IF c = "main" THEN 0 ELSE StepsLeft(p[c])

LeftOf(f, p, w, b, r) ==
  MainLeft(f) + ThreadsLeft(b, r) + Share("main", p, w) + Share("entry", p, w)
    + Share("exit", p, w) + Share("maint", p, w)

Left == LeftOf(phase, pc, waits, begun, written)

LEMMA SharesTyped ==
  ASSUME NEW c, NEW p, NEW w, NEW f
  PROVE  Share(c, p, w) \in Nat /\ MainLeft(f) \in Nat
<1>1. MainLeft(f) \in Nat
  BY DEF MainLeft
<1>2. StepsLeft(p[c]) \in Nat
  BY DEF StepsLeft
<1>3. CallLeft(w[c]) \in Nat
  BY DEF CallLeft
<1> QED
  BY <1>1, <1>2, <1>3 DEF Share

\* Less is left when one caller, the threads and main together have less.
LEMMA LeftLess ==
  ASSUME ProcessAssumption, NEW c \in Callers, NEW f, NEW g, NEW p, NEW q, NEW w, NEW v,
         NEW b, NEW r, NEW bb, NEW rr,
         IsFiniteSet(b), IsFiniteSet(r), IsFiniteSet(bb), IsFiniteSet(rr),
         \A d \in Callers \ {c} : Share(d, q, v) = Share(d, p, w),
         Share(c, q, v) + ThreadsLeft(bb, rr) + MainLeft(g)
           < Share(c, p, w) + ThreadsLeft(b, r) + MainLeft(f)
  PROVE  LeftOf(g, q, v, bb, rr) < LeftOf(f, p, w, b, r)
<1>1. Callers = {"main", "entry", "exit", "maint"}
  BY DEF ProcessAssumption, Tasks, Loops
<1>2. ThreadsLeft(b, r) \in Nat /\ ThreadsLeft(bb, rr) \in Nat
  BY FS_CardinalityType DEF ThreadsLeft
<1>3. /\ \A d \in Callers : Share(d, p, w) \in Nat /\ Share(d, q, v) \in Nat
      /\ MainLeft(f) \in Nat /\ MainLeft(g) \in Nat
  BY SharesTyped
<1>4. CASE c = "main"
  BY <1>1, <1>2, <1>3, <1>4 DEF LeftOf
<1>5. CASE c = "entry"
  BY <1>1, <1>2, <1>3, <1>5 DEF LeftOf
<1>6. CASE c = "exit"
  BY <1>1, <1>2, <1>3, <1>6 DEF LeftOf
<1>7. CASE c = "maint"
  BY <1>1, <1>2, <1>3, <1>7 DEF LeftOf
<1> QED
  BY <1>1, <1>4, <1>5, <1>6, <1>7

\* The sets of threads are finite.
FewInv == IsFiniteSet(begun) /\ IsFiniteSet(written)

LEMMA FewNext ==
  ASSUME FewInv, [CallsNext]_callVars
  PROVE  FewInv'
<1> USE DEF FewInv
<1>1. ASSUME NEW k, begun' = begun \/ begun' = begun \cup {k} \/ begun' = begun \ {k},
             written' = written \/ written' = written \cup {k} \/ written' = written \ {k}
      PROVE  FewInv'
  BY <1>1, FS_AddElement, FS_RemoveElement
<1>2. ASSUME NEW c \in Callers, Enter(c)
      PROVE  FewInv'
  BY <1>1, <1>2 DEF Enter
<1>3. ASSUME NEW k \in Calls, Thread(k)
      PROVE  FewInv'
  BY <1>1, <1>3 DEF Thread, Execute, Commit, Fail
<1>4. CASE UNCHANGED threads
  BY <1>4 DEF threads
<1>5. CASE Close \/ UNCHANGED callVars
  BY <1>4, <1>5 DEF Close, callVars
<1>6. ASSUME NEW c \in Callers, Ask(c) \/ Return(c) \/ Leave(c)
      PROVE  FewInv'
  BY <1>4, <1>6 DEF Ask, Return, Leave
<1> QED
  BY <1>2, <1>3, <1>5, <1>6 DEF CallsNext

\* A thread's step, with what it tells the task that waits for it.
LEMMA WorkerLess ==
  ASSUME ProcessAssumption, StoreAssumption, AskedInv, FewInv, FewInv', Worker
  PROVE  Left' < Left
<1>1. UNCHANGED <<phase, pc>> /\ waits \in [Callers -> {"free", "lock", "thread", "ok", "failed"}]
  BY DEF Worker, AskedInv
<1>2. /\ IsFiniteSet(begun) /\ IsFiniteSet(written)
      /\ IsFiniteSet(begun') /\ IsFiniteSet(written')
  BY DEF FewInv
<1>3. /\ Cardinality(begun) \in Nat /\ Cardinality(written) \in Nat
      /\ Cardinality(begun') \in Nat /\ Cardinality(written') \in Nat
  BY <1>2, FS_CardinalityType
<1>4. MainLeft(phase) \in Nat /\ \A c : StepsLeft(pc[c]) \in Nat
  BY DEF MainLeft, StepsLeft
<1>5. ASSUME NEW c \in Callers, NEW s, waits' = [waits EXCEPT ![c] = s],
             CallLeft(s) + ThreadsLeft(begun', written')
               < CallLeft(waits[c]) + ThreadsLeft(begun, written),
             CallLeft(s) \in Nat, CallLeft(waits[c]) \in Nat
      PROVE  Left' < Left
  <2>1. \A d \in Callers \ {c} : Share(d, pc', waits') = Share(d, pc, waits)
    BY <1>1, <1>5 DEF Share
  <2>2. PICK x, y, z, m : /\ x = ThreadsLeft(begun', written') /\ y = ThreadsLeft(begun, written)
                          /\ z = StepsLeft(pc[c]) /\ m = MainLeft(phase)
    OBVIOUS
  <2>3. x \in Nat /\ y \in Nat /\ z \in Nat /\ m \in Nat
    BY <1>3, <1>4, <2>2 DEF ThreadsLeft
  <2>4. /\ Share(c, pc', waits') = CallLeft(s) + IF c = "main" THEN 0 ELSE z
        /\ Share(c, pc, waits) = CallLeft(waits[c]) + IF c = "main" THEN 0 ELSE z
    BY <1>1, <1>5, <2>2 DEF Share
  <2>5. Share(c, pc', waits') + x + m < Share(c, pc, waits) + y + m
    BY <1>5, <2>2, <2>3, <2>4
  <2>6. LeftOf(phase', pc', waits', begun', written') < LeftOf(phase, pc, waits, begun, written)
    BY <1>1, <1>2, <2>1, <2>2, <2>5, LeftLess
  <2> QED
    BY <2>6 DEF Left
<1>6. CASE \E c \in Callers : Enter(c)
  <2>1. PICK c \in Callers : /\ waits[c] = "lock" /\ waits' = [waits EXCEPT ![c] = "thread"]
                             /\ begun' = begun \cup {Current(c)} /\ written' = written
    BY <1>6 DEF Enter
  <2>2. Cardinality(begun') <= Cardinality(begun) + 1
    BY <1>2, <1>3, <2>1, FS_AddElement
  <2>3. CallLeft("thread") = 3 /\ CallLeft("lock") = 6
    BY DEF CallLeft
  <2>4. CallLeft("thread") + ThreadsLeft(begun', written')
          < CallLeft(waits[c]) + ThreadsLeft(begun, written)
    BY <1>3, <2>1, <2>2, <2>3 DEF ThreadsLeft
  <2>5. CallLeft("thread") \in Nat /\ CallLeft(waits[c]) \in Nat
    BY <2>1, <2>3
  <2> QED
    BY <1>5, <2>1, <2>4, <2>5
<1>7. ASSUME NEW k \in Calls, waits' = waits \/ \E s \in {"ok", "failed"} : Tell(k, s),
             ThreadsLeft(begun', written') < ThreadsLeft(begun, written)
      PROVE  Left' < Left
  <2>1. k[1] \in Callers
    BY CallsMembers
  <2>2. PICK s : waits' = [waits EXCEPT ![k[1]] = s] /\ s \in {waits[k[1]], "ok", "failed"}
                 /\ (s # waits[k[1]] => waits[k[1]] = "thread")
    <3>1. CASE waits' = waits
      BY <1>1, <2>1, <3>1
    <3>2. CASE waits' # waits
      BY <1>7, <3>2 DEF Tell, Awaited, Task
    <3> QED
      BY <3>1, <3>2
  <2>3. /\ CallLeft(s) \in Nat /\ CallLeft(waits[k[1]]) \in Nat
        /\ CallLeft(s) <= CallLeft(waits[k[1]])
    BY <2>2 DEF CallLeft
  <2>4. ThreadsLeft(begun', written') \in Nat /\ ThreadsLeft(begun, written) \in Nat
    BY <1>3 DEF ThreadsLeft
  <2>5. CallLeft(s) + ThreadsLeft(begun', written')
          < CallLeft(waits[k[1]]) + ThreadsLeft(begun, written)
    BY <1>7, <2>3, <2>4
  <2>6. waits' = [waits EXCEPT ![k[1]] = s]
    BY <2>2
  <2> QED
    BY <1>5, <2>1, <2>3, <2>5, <2>6
<1>8. ASSUME NEW k \in Calls, Execute(k)
      PROVE  Left' < Left
  <2>1. /\ k \in begun /\ begun' = begun \ {k} /\ written' = written \cup {k}
        /\ waits' = waits
    BY <1>8 DEF Execute, lock
  <2>2. Cardinality(begun') = Cardinality(begun) - 1
    BY <1>2, <2>1, FS_RemoveElement
  <2>3. Cardinality(written') <= Cardinality(written) + 1
    BY <1>2, <1>3, <2>1, FS_AddElement
  <2>4. ThreadsLeft(begun', written') < ThreadsLeft(begun, written)
    BY <1>3, <2>2, <2>3 DEF ThreadsLeft
  <2> QED
    BY <1>7, <2>1, <2>4
<1>9. ASSUME NEW k \in Calls, Commit(k)
      PROVE  Left' < Left
  <2>1. k \in written /\ begun' = begun /\ written' = written \ {k} /\ Tell(k, "ok")
    BY <1>9 DEF Commit
  <2>2. Cardinality(written') = Cardinality(written) - 1
    BY <1>2, <2>1, FS_RemoveElement
  <2>3. ThreadsLeft(begun', written') < ThreadsLeft(begun, written)
    BY <1>3, <2>1, <2>2 DEF ThreadsLeft
  <2> QED
    BY <1>7, <2>1, <2>3
<1>10. ASSUME NEW k \in Calls, Fail(k)
       PROVE  Left' < Left
  <2>1. /\ k \in begun \cup written /\ begun' = begun \ {k} /\ written' = written \ {k}
        /\ Tell(k, "failed")
    BY <1>10 DEF Fail
  <2>2. /\ Cardinality(begun') = Cardinality(begun) - IF k \in begun THEN 1 ELSE 0
        /\ Cardinality(written') = Cardinality(written) - IF k \in written THEN 1 ELSE 0
    BY <1>2, <1>3, <2>1, FS_RemoveElement
  <2>3. ThreadsLeft(begun', written') < ThreadsLeft(begun, written)
    BY <1>3, <2>1, <2>2 DEF ThreadsLeft
  <2> QED
    BY <1>7, <2>1, <2>3
<1> QED
  BY <1>6, <1>8, <1>9, <1>10 DEF Worker, Thread

\* A step of a task that lowers its own share, or ends it.
LEMMA TaskLess ==
  ASSUME ProcessAssumption, FewInv, NEW c \in Tasks, UNCHANGED <<phase, begun, written>>,
         \A d \in Callers \ {c} : Share(d, pc', waits') = Share(d, pc, waits),
         Share(c, pc', waits') < Share(c, pc, waits)
  PROVE  Left' < Left
<1>1. c \in Callers
  BY DEF ProcessAssumption
<1>2. PICK x, m : x = ThreadsLeft(begun, written) /\ m = MainLeft(phase)
  OBVIOUS
<1>3. x \in Nat /\ m \in Nat
  BY <1>2, FS_CardinalityType DEF FewInv, ThreadsLeft, MainLeft
<1>4. Share(c, pc', waits') \in Nat /\ Share(c, pc, waits) \in Nat
  BY SharesTyped
<1>5. Share(c, pc', waits') + x + m < Share(c, pc, waits) + x + m
  BY <1>3, <1>4
<1>6. LeftOf(phase, pc', waits', begun, written) < LeftOf(phase, pc, waits, begun, written)
  BY <1>1, <1>2, <1>5, LeftLess DEF FewInv
<1> QED
  BY <1>6 DEF Left

\* Once stopped, no step but another signal leaves as much to do as it found.
RunsDown == ~running /\ phase # "hydrate" => Stop \/ Left' < Left

LEMMA ShutdownLess ==
  ASSUME ProcessAssumption, StoreAssumption, AskedInv, FewInv, FewInv', PhaseInv, StopInv, Next
  PROVE  RunsDown
<1> SUFFICES ASSUME ~running, phase # "hydrate", ~Stop
             PROVE  Left' < Left
  BY DEF RunsDown
<1>1. Callers = Tasks \cup {"main"} /\ "entry" \in Tasks /\ Loops \subseteq Tasks
      /\ "main" \notin Tasks /\ "entry" \notin Loops
  BY DEF ProcessAssumption, Tasks, Loops
<1>2. /\ pc \in [Tasks -> Steps]
      /\ waits \in [Callers -> {"free", "lock", "thread", "ok", "failed"}]
      /\ \A t \in Live \ cancel : pc[t] \in {"start", "poll", "dying", "last"}
  BY DEF PhaseInv, AskedInv, StopInv
\* A task takes a step and a call of its goes on.
<1>3. ASSUME NEW t \in Tasks, NEW step, NEW wait, UNCHANGED <<phase, begun, written>>,
             pc' = [pc EXCEPT ![t] = step], waits' = [waits EXCEPT ![t] = wait],
             CallLeft(wait) + StepsLeft(step) < CallLeft(waits[t]) + StepsLeft(pc[t])
      PROVE  Left' < Left
  <2>1. \A d \in Callers \ {t} : Share(d, pc', waits') = Share(d, pc, waits)
    BY <1>1, <1>2, <1>3 DEF Share
  <2>2. /\ Share(t, pc', waits') = CallLeft(wait) + StepsLeft(step)
        /\ Share(t, pc, waits) = CallLeft(waits[t]) + StepsLeft(pc[t])
    BY <1>1, <1>2, <1>3 DEF Share
  <2> QED
    BY <1>3, <2>1, <2>2, TaskLess
\* It makes no call.
<1>4. ASSUME NEW t \in Tasks, NEW step, UNCHANGED <<phase, callVars>>,
             pc' = [pc EXCEPT ![t] = step], StepsLeft(step) < StepsLeft(pc[t])
      PROVE  Left' < Left
  <2>1. UNCHANGED <<begun, written>> /\ waits' = [waits EXCEPT ![t] = waits[t]]
    BY <1>1, <1>2, <1>4 DEF callVars, lock, threads
  <2>2. PICK x, y, z : x = CallLeft(waits[t]) /\ y = StepsLeft(step) /\ z = StepsLeft(pc[t])
    OBVIOUS
  <2>3. x \in Nat /\ y \in Nat /\ z \in Nat
    BY <2>2 DEF CallLeft, StepsLeft
  <2>4. CallLeft(waits[t]) + StepsLeft(step) < CallLeft(waits[t]) + StepsLeft(pc[t])
    BY <1>4, <2>2, <2>3
  <2> QED
    BY <1>3, <1>4, <2>1, <2>4
<1>5. CASE Main
  <2>1. ~Hydrate /\ ~Hydrated
    BY DEF Hydrate, Hydrated
  <2>2. UNCHANGED <<pc, waits, begun, written>>
    BY <1>5, <2>1
       DEF Main, GatherEnds, Unwound, CloseStore, Close, Exit, callVars, lock, threads
  <2>3. MainLeft(phase') < MainLeft(phase)
    <3>1. <<phase, phase'>> \in {<<"tasks", "unwind">>, <<"unwind", "closing">>,
                                 <<"closing", "exiting">>, <<"exiting", "exited">>}
      BY <1>5, <2>1 DEF Main, GatherEnds, Unwound, CloseStore, Exit
    <3>2. /\ MainLeft("tasks") = 4 /\ MainLeft("unwind") = 3 /\ MainLeft("closing") = 2
          /\ MainLeft("exiting") = 1 /\ MainLeft("exited") = 0
      BY DEF MainLeft
    <3> QED
      BY <3>1, <3>2
  <2>4. PICK x, y : x = Share("main", pc, waits) /\ y = ThreadsLeft(begun, written)
    OBVIOUS
  <2>5. x \in Nat /\ y \in Nat
    BY <2>4, SharesTyped, FS_CardinalityType DEF FewInv, ThreadsLeft
  <2>6. MainLeft(phase') \in Nat /\ MainLeft(phase) \in Nat
    BY DEF MainLeft
  <2>7. x + y + MainLeft(phase') < x + y + MainLeft(phase)
    BY <2>3, <2>5, <2>6
  <2>8. LeftOf(phase', pc, waits, begun, written) < LeftOf(phase, pc, waits, begun, written)
    <3>1. "main" \in Callers /\ x + y + MainLeft(phase') = x + y + MainLeft(phase')
      BY <1>1
    <3> QED
      BY <3>1, <2>4, <2>7, LeftLess DEF FewInv
  <2> QED
    BY <2>2, <2>8 DEF Left
<1>6. CASE Signal
  <2>1. pc["entry"] = "poll" /\ pc' = [pc EXCEPT !["entry"] = "ended"] /\ UNCHANGED <<phase, callVars>>
    BY <1>6 DEF Signal, To
  <2>2. StepsLeft("ended") < StepsLeft(pc["entry"])
    BY <2>1 DEF StepsLeft
  <2> QED
    BY <1>1, <1>4, <2>1, <2>2
<1>7. CASE Worker
  BY <1>7, WorkerLess
<1>8. ASSUME NEW t \in Tasks, Cancelled(t)
      PROVE  Left' < Left
  <2>1. PICK step : /\ pc' = [pc EXCEPT ![t] = step] /\ phase' = phase
                    /\ step = IF pc[t] = "work" THEN "dying" ELSE "cancelled"
    BY <1>8 DEF Cancelled, To
  <2>2. pc[t] \in Steps \ (Ended \cup {"none", "raised", "dying"})
    BY <1>2, <1>8 DEF Cancelled, Live
  <2>3. /\ StepsLeft(step) \in Nat /\ StepsLeft(pc[t]) \in Nat /\ StepsLeft(step) < StepsLeft(pc[t])
    BY <2>1, <2>2 DEF StepsLeft, Steps, Ended
  <2>4. CASE Within(t)
    <3>1. UNCHANGED <<begun, written>> /\ waits' = [waits EXCEPT ![t] = "free"]
      BY <1>8, <2>4 DEF Cancelled, Leave, threads
    <3>2. CallLeft("free") = 0 /\ CallLeft(waits[t]) \in Nat
      BY DEF CallLeft
    <3>3. CallLeft("free") + StepsLeft(step) < CallLeft(waits[t]) + StepsLeft(pc[t])
      BY <2>3, <3>2
    <3> QED
      BY <1>3, <2>1, <3>1, <3>3
  <2>5. CASE ~Within(t)
    BY <1>4, <1>8, <2>1, <2>3, <2>5 DEF Cancelled
  <2> QED
    BY <2>4, <2>5
<1>9. ASSUME NEW t \in Tasks, Goes(t)
      PROVE  pc[t] \in {"start", "poll", "dying", "last"}
  BY <1>2, <1>9 DEF Goes
<1>10. CASE Entry
  <2>1. CASE StartEntry
    <3>1. /\ pc["entry"] = "start" /\ pc' = [pc EXCEPT !["entry"] = "poll"]
          /\ UNCHANGED <<phase, callVars>>
      BY <2>1 DEF StartEntry, To
    <3>2. StepsLeft("poll") < StepsLeft(pc["entry"])
      BY <3>1 DEF StepsLeft
    <3> QED
      BY <1>1, <1>4, <3>1, <3>2
  <2>2. CASE Claimed \/ Work \/ Worked
    BY <1>1, <1>9, <2>2 DEF Claimed, Work, Worked
  <2>3. CASE Finally
    <3>1. /\ waits["entry"] = "free" /\ waits' = [waits EXCEPT !["entry"] = "lock"]
          /\ UNCHANGED <<phase, begun, written>>
      BY <2>3 DEF Finally, Ask, threads
    <3>2. PICK step : /\ pc' = [pc EXCEPT !["entry"] = step]
                      /\ \/ pc["entry"] = "raised" /\ step = "final"
                         \/ pc["entry"] = "dying" /\ step = "last"
      <4>1. ~(Goes("entry") /\ pc["entry"] = "work")
        BY <1>1, <1>9
      <4> QED
        BY <2>3, <4>1 DEF Finally, To
    <3>3. CallLeft("lock") + StepsLeft(step) < CallLeft(waits["entry"]) + StepsLeft(pc["entry"])
      BY <3>1, <3>2 DEF CallLeft, StepsLeft
    <3> QED
      BY <1>1, <1>3, <3>1, <3>2, <3>3
  <2>4. CASE Finished
    <3>1. pc["entry"] = "last"
      BY <1>1, <1>9, <2>4 DEF Finished
    <3>2. /\ waits["entry"] \in {"ok", "failed"} /\ waits' = [waits EXCEPT !["entry"] = "free"]
          /\ UNCHANGED <<phase, begun, written>> /\ pc' = [pc EXCEPT !["entry"] = "cancelled"]
      BY <2>4, <3>1 DEF Finished, Return, Answered, threads, To
    <3>3. CallLeft("free") + StepsLeft("cancelled")
            < CallLeft(waits["entry"]) + StepsLeft(pc["entry"])
      BY <3>1, <3>2 DEF CallLeft, StepsLeft
    <3> QED
      BY <1>1, <1>3, <3>2, <3>3
  <2> QED
    BY <1>10, <2>1, <2>2, <2>3, <2>4 DEF Entry
<1>11. ASSUME NEW t \in Loops, Loop(t)
       PROVE  Left' < Left
  <2>1. t \in Tasks
    BY <1>1
  <2>2. ~Call(t) /\ ~Called(t) /\ ~Rest(t)
    BY <1>9, <2>1 DEF Call, Called, Rest
  <2>3. pc[t] = "start" /\ pc' = [pc EXCEPT ![t] = "ended"] /\ UNCHANGED <<phase, callVars>>
    BY <1>9, <1>11, <2>1, <2>2 DEF Loop, Turn, To
  <2>4. StepsLeft("ended") < StepsLeft(pc[t])
    BY <2>3 DEF StepsLeft
  <2> QED
    BY <1>4, <2>1, <2>3, <2>4
<1> QED
  BY <1>5, <1>6, <1>7, <1>8, <1>10, <1>11 DEF Next, Step

\* After a stop main, the tasks, their calls and the threads have only so many steps
\* left, and each step but another signal leaves fewer: no task goes round in its loop
\* and no retry or finally begins again what was done (orchestrator.py:118-142).
THEOREM ShutdownRunsDown == Spec => [][RunsDown]_vars
<1>1. Init => PhaseInv /\ StopInv /\ FewInv
  BY FS_EmptySet DEF Init, CallsInit, PhaseInv, StopInv, FewInv, Live, Steps, Ended
<1>2. PhaseInv /\ [Next]_vars => PhaseInv'
  BY PhaseNext, ProcessAssumption
<1>3. PhaseInv /\ StopInv /\ [Next]_vars => StopInv'
  BY StopNext, ProcessAssumption DEF vars, callVars, lock, StopInv, Live
<1>4. FewInv /\ [Next]_vars => FewInv'
  BY FewNext, StepIsCall, ProcessAssumption DEF vars
<1>5. SerialInv /\ FewInv /\ FewInv' /\ PhaseInv /\ StopInv /\ [Next]_vars => [RunsDown]_vars
  BY ShutdownLess, ProcessAssumption, StoreAssumption DEF SerialInv
<1> QED
  BY <1>1, <1>2, <1>3, <1>4, <1>5, SerialHolds, PTL DEF Spec
=============================================================================
