------------------------------ MODULE CopyOnce ------------------------------
(***************************************************************************)
(* What the entry path promises of a trade it copies, without the tracker, *)
(* the handler, the store or the process that may die: a trade's key is    *)
(* claimed for good, at most one copy of it is sent to the exchange, and a *)
(* position is recorded only for a copy that was sent.  A crash, a restart *)
(* or a repeated delivery is not a step of this specification.             *)
(***************************************************************************)
EXTENDS Naturals

CONSTANT Keys           \* the idempotency keys of trades

VARIABLES claimed,      \* keys the bot has taken responsibility for
          orders,       \* how many times each key was sent to the exchange
          held          \* keys with a recorded position

vars == <<claimed, orders, held>>

Init == /\ claimed = {}
        /\ orders = [k \in Keys |-> 0]
        /\ held = {}

Claim(k) == /\ k \notin claimed
            /\ claimed' = claimed \cup {k}
            /\ UNCHANGED <<orders, held>>

Order(k) == /\ k \in claimed
            /\ orders[k] = 0
            /\ orders' = [orders EXCEPT ![k] = 1]
            /\ UNCHANGED <<claimed, held>>

Hold(k) == /\ orders[k] = 1
           /\ k \notin held
           /\ held' = held \cup {k}
           /\ UNCHANGED <<claimed, orders>>

Next == \E k \in Keys : Claim(k) \/ Order(k) \/ Hold(k)

Spec == Init /\ [][Next]_vars
=============================================================================
