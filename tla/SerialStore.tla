----------------------------- MODULE SerialStore ----------------------------
(***************************************************************************)
(* What the store promises the tasks that share it: calls take effect one  *)
(* at a time, in the order they were made, each wholly or not at all, and  *)
(* a call that reports success is in the database.  Once a task has been   *)
(* cancelled within a call the promise is weaker: what is in the database  *)
(* stays, and nothing gets there that nobody asked for.                    *)
(***************************************************************************)
EXTENDS Sequences

CONSTANT Calls          \* the calls tasks may make, each once

VARIABLES asked,        \* calls made so far
          line,         \* calls not answered yet, in the order they were made
          db,           \* calls whose writes are in the database
          good,         \* calls that reported success
          ragged        \* a task was cancelled within a call

vars == <<asked, line, db, good, ragged>>

Init == asked = {} /\ line = <<>> /\ db = {} /\ good = {} /\ ragged = FALSE

Ask(k) == /\ ~ragged /\ k \notin asked
          /\ asked' = asked \cup {k}
          /\ line' = Append(line, k)
          /\ UNCHANGED <<db, good, ragged>>

Answer == /\ ~ragged /\ line # <<>>
          /\ line' = Tail(line)
          /\ \/ db' = db \cup {Head(line)} /\ good' = good \cup {Head(line)}
             \/ UNCHANGED <<db, good>>
          /\ UNCHANGED <<asked, ragged>>

\* A task is cancelled within a call, or has been: order and isolation are off.
Loose == /\ ragged'
         /\ line' = <<>>
         /\ asked \subseteq asked' /\ asked' \subseteq Calls
         /\ db \subseteq db' /\ db' \subseteq asked'
         /\ good \subseteq good'

Next == (\E k \in Calls : Ask(k)) \/ Answer \/ Loose

Spec == Init /\ [][Next]_vars
=============================================================================
