------------------------- MODULE SignalIntakeProofs -------------------------
(***************************************************************************)
(* SignalIntake for any trades, keys, cache and page sizes: types, at most *)
(* one order per key over any number of restarts, the outbox over crashes, *)
(* the claims a life leaves open, what the cache knows, and the            *)
(* implementation of CopyOnce.                                             *)
(***************************************************************************)
EXTENDS SignalIntake, TLAPS, FiniteSetTheorems, SequenceTheorems

\* Where the handler holds a signal.
Holding == InTry \cup {"unwind"}

TypeInv == TypeOK /\ (pc \in Holding => batch # <<>>)

----------------------------------------------------------------------------
(* Lemmas about the operators.                                             *)

\* The bounded cache stays a sequence of keys within its capacity.
LEMMA RememberType ==
  ASSUME NEW s \in Seq(Keys), NEW ks \in Seq(Keys)
  PROVE  Remember(s, ks) \in Seq(Keys) /\ Len(Remember(s, ks)) <= SeenSize
<1> DEFINE all == s \o ks
<1>1. all \in Seq(Keys) /\ Len(all) \in Nat
  BY ConcatProperties, LenProperties
<1>2. SeenSize \in Nat
  BY IntakeAssumption
<1>3. CASE Len(all) <= SeenSize
  BY <1>1, <1>3 DEF Remember
<1>4. CASE ~(Len(all) <= SeenSize)
  <2>1. Remember(s, ks) = SubSeq(all, Len(all) - SeenSize + 1, Len(all))
    BY <1>4 DEF Remember
  <2>2. Len(all) - SeenSize + 1 \in 1..(Len(all) + 1)
    BY <1>1, <1>2, <1>4
  <2>3. \A i \in (Len(all) - SeenSize + 1)..Len(all) : all[i] \in Keys
    BY <1>1, <1>2, <1>4, ElementOfSeq
  <2>4. SubSeq(all, Len(all) - SeenSize + 1, Len(all)) \in Seq(Keys)
        /\ Len(SubSeq(all, Len(all) - SeenSize + 1, Len(all))) <= SeenSize
    BY <1>1, <1>2, <1>4, <2>2, <2>3, SubSeqProperties
  <2> QED BY <2>1, <2>4
<1> QED BY <1>3, <1>4

\* What a poll queues is a sequence of trades.
LEMMA BatchesType ==
  ASSUME NEW b \in Batches
  PROVE  b \in Seq(Trades) /\ Keyed(b) \in Seq(Keys)
<1>1. PICK n \in 0..PollLimit : b \in [1..n -> Trades]
  BY DEF Batches
<1>2. n \in Nat /\ DOMAIN b = 1..n
  BY <1>1, IntakeAssumption
<1>3. Keyed(b) \in [1..n -> Keys]
  BY <1>1, <1>2, IntakeAssumption DEF Keyed
<1> QED BY <1>1, <1>2, <1>3, SeqDef

----------------------------------------------------------------------------
(* Types.                                                                  *)

LEMMA HandType ==
  ASSUME batch \in Seq(Trades), batch # <<>>
  PROVE  k0 \in Keys /\ Tail(batch) \in Seq(Trades)
BY IntakeAssumption, HeadTailProperties DEF k0

LEMMA TypeInit == Init => TypeInv
BY IntakeAssumption, EmptySeq DEF Init, TypeInv, TypeOK, PCs, InTry, Holding

LEMMA TypeStep == TypeInv /\ [Next]_vars => TypeInv'
<1> SUFFICES ASSUME TypeInv, [Next]_vars PROVE TypeInv'
  OBVIOUS
<1> USE DEF TypeInv, TypeOK, PCs, InTry, Holding
<1>1. CASE Poll
  <2> PICK b \in Batches : batch' = b /\ seen' = Remember(seen, Keyed(b))
    BY <1>1 DEF Poll
  <2>1. b \in Seq(Trades) /\ Keyed(b) \in Seq(Keys)
    BY BatchesType
  <2>2. seen' \in Seq(Keys) /\ Len(seen') <= SeenSize
    BY <2>1, RememberType
  <2> QED BY <1>1, <2>1, <2>2 DEF Poll, exch
<1>2. CASE Claim
  <2>1. k0 \in Keys /\ Tail(batch) \in Seq(Trades)
    BY <1>2, HandType DEF Claim
  <2> QED BY <1>2, <2>1 DEF Claim, exch
<1>3. CASE Decline
  BY <1>3, HandType DEF Decline, exch
<1>4. CASE Send
  BY <1>4, HandType DEF Send
<1>5. CASE Ack
  BY <1>5, HandType DEF Ack, exch
<1>6. CASE Open
  BY <1>6, HandType DEF Open, exch
<1>7. CASE Finish
  BY <1>7, HandType DEF Finish, exch
<1>8. CASE Unwind
  <2>1. k0 \in Keys
    BY <1>8, HandType DEF Unwind
  <2>2. rows' \in [Keys -> {"absent", "processing", "done"}]
    BY <1>8, <2>1 DEF Unwind
  <2>3. seen' = <<>> /\ batch' = <<>> /\ pc' = "down"
    BY <1>8 DEF Unwind, Die
  <2> QED BY <1>8, <2>2, <2>3, EmptySeq, IntakeAssumption DEF Unwind, exch
<1>10. CASE Fail
  BY <1>10, HandType DEF Fail, Hurt, exch
<1>11. CASE FinishFails
  BY <1>11, HandType DEF FinishFails, Hurt, exch
<1>12. CASE ClaimFails
  BY <1>12, HandType DEF ClaimFails, Hurt, exch
<1>13. CASE Crash
  BY <1>13, EmptySeq, IntakeAssumption DEF Crash, Die, exch
<1>14. CASE Stop
  <2>1. UNCHANGED <<rows, placed, filled, resolved, disk, lives>>
    BY <1>14 DEF Stop, exch
  <2>2. CASE pc = "idle" /\ Die /\ UNCHANGED hurt
    BY <2>1, <2>2, EmptySeq, IntakeAssumption DEF Die
  <2>3. CASE pc \in InTry /\ pc' = "unwind" /\ Hurt /\ UNCHANGED <<seen, batch>>
    BY <2>1, <2>3, HandType DEF Hurt
  <2> QED BY <1>14, <2>2, <2>3 DEF Stop
<1>15. CASE Restart
  BY <1>15 DEF Restart, exch
<1>16. CASE UNCHANGED vars
  BY <1>16 DEF vars
<1> QED
  BY <1>1, <1>2, <1>3, <1>4, <1>5, <1>6, <1>7, <1>8, <1>10, <1>11,
     <1>12, <1>13, <1>14, <1>15, <1>16 DEF Next, Handler, Fault

LEMMA TypeCorrect == Spec => []TypeInv
BY TypeInit, TypeStep, PTL DEF Spec

\* The variables keep their types, and the tracker's cache its bound.
THEOREM TypesHold == Spec => []TypeOK
<1>1. TypeInv => TypeOK
  BY DEF TypeInv
<1> QED BY <1>1, TypeCorrect, PTL

----------------------------------------------------------------------------
(* At most one order for a key.                                            *)

\* An unclaimed key was never sent; a key is sent at most once; the key in
\* hand is claimed, unsent before Send and sent after it.
OrderInv ==
  /\ \A k \in Keys : placed[k] <= 1
  /\ \A k \in Keys : rows[k] = "absent" => placed[k] = 0
  /\ pc \in Holding => rows[k0] # "absent"
  /\ pc = "inner" => placed[k0] = 0
  /\ pc \in {"ack", "open"} => placed[k0] = 1

SafeInv == TypeInv /\ OrderInv

LEMMA SafeInit == Init => SafeInv
<1>1. Init => OrderInv
  BY DEF Init, OrderInv, Holding, InTry
<1> QED BY <1>1, TypeInit DEF SafeInv

LEMMA SafeStep == SafeInv /\ [Next]_vars => SafeInv'
<1> SUFFICES ASSUME SafeInv, [Next]_vars PROVE OrderInv'
  BY TypeStep DEF SafeInv
<1> USE DEF SafeInv, TypeInv, TypeOK, OrderInv, Holding, InTry, exch
<1>1. CASE Poll
  BY <1>1 DEF Poll
<1>2. CASE Claim
  <2>1. k0 \in Keys
    BY <1>2, HandType DEF Claim
  <2>2. CASE rows[k0] = "absent"
    <3>1. /\ rows' = [rows EXCEPT ![k0] = "processing"]
          /\ pc' = "inner" /\ batch' = batch /\ placed' = placed
      BY <1>2, <2>2 DEF Claim
    <3>2. k0' = k0
      BY <3>1 DEF k0
    <3> QED BY <2>1, <2>2, <3>1, <3>2
  <2>3. CASE rows[k0] # "absent"
    BY <1>2, <2>3 DEF Claim
  <2> QED BY <2>2, <2>3
<1>3. CASE Decline
  <2>1. k0' = k0
    BY <1>3 DEF Decline, k0
  <2> QED BY <1>3, <2>1 DEF Decline
<1>4. CASE Send
  <2>1. k0' = k0 /\ k0 \in Keys
    BY <1>4, HandType DEF Send, k0
  <2> QED BY <1>4, <2>1 DEF Send
<1>5. CASE Ack
  <2>1. k0' = k0
    BY <1>5 DEF Ack, k0
  <2> QED BY <1>5, <2>1 DEF Ack
<1>6. CASE Open
  <2>1. k0' = k0
    BY <1>6 DEF Open, k0
  <2> QED BY <1>6, <2>1 DEF Open
<1>7. CASE Finish
  <2>1. k0 \in Keys
    BY <1>7, HandType DEF Finish
  <2> QED BY <1>7, <2>1 DEF Finish
<1>8. CASE Unwind
  <2>1. k0 \in Keys
    BY <1>8, HandType DEF Unwind
  <2>2. pc' = "down" /\ placed' = placed
    BY <1>8 DEF Unwind, Die
  <2>3. \A k \in Keys : rows'[k] = "absent" => rows[k] = "absent"
    BY <1>8, <2>1 DEF Unwind
  <2> QED BY <2>2, <2>3
<1>10. CASE Fail
  <2>1. k0' = k0
    BY <1>10 DEF Fail, k0
  <2> QED BY <1>10, <2>1 DEF Fail
<1>11. CASE FinishFails
  BY <1>11 DEF FinishFails
<1>12. CASE ClaimFails
  BY <1>12 DEF ClaimFails
<1>13. CASE Crash
  BY <1>13 DEF Crash, Die
<1>14. CASE Stop
  <2>1. UNCHANGED <<rows, placed>>
    BY <1>14 DEF Stop
  <2>2. CASE pc = "idle" /\ Die
    BY <2>1, <2>2 DEF Die
  <2>3. CASE pc \in InTry /\ pc' = "unwind" /\ UNCHANGED <<seen, batch>>
    <3>1. k0' = k0
      BY <2>3 DEF k0
    <3> QED BY <2>1, <2>3, <3>1
  <2> QED BY <1>14, <2>2, <2>3 DEF Stop
<1>15. CASE Restart
  BY <1>15 DEF Restart
<1>16. CASE UNCHANGED vars
  <2>1. k0' = k0
    BY <1>16 DEF vars, k0
  <2> QED BY <1>16, <2>1 DEF vars
<1> QED
  BY <1>1, <1>2, <1>3, <1>4, <1>5, <1>6, <1>7, <1>8, <1>10, <1>11,
     <1>12, <1>13, <1>14, <1>15, <1>16 DEF Next, Handler, Fault

LEMMA SafeAlways == Spec => []SafeInv
BY SafeInit, SafeStep, PTL DEF Spec

\* However many times a trade is delivered and the process restarted, its key
\* is sent to the exchange at most once.
THEOREM OrderedAtMostOnce == Spec => []AtMostOneOrder
<1>1. SafeInv => AtMostOneOrder
  BY DEF SafeInv, OrderInv, AtMostOneOrder
<1> QED BY <1>1, SafeAlways, PTL

----------------------------------------------------------------------------
(* The outbox over crashes.                                                *)

\* A fill without a position row keeps its claim open: the handler that holds
\* the key has not reached its finally, or has persisted before it does.  What a
\* fault breaks of this it breaks for the key in hand alone.
OutboxInv ==
  /\ \A k \in filled : placed[k] = 1
  /\ pc \in Holding => rows[k0] = "processing"
  /\ pc = "unwind" => k0 \in hurt
  /\ pc = "finish" /\ k0 \notin hurt =>
       (k0 \in filled => k0 \in disk) /\ k0 \in disk \cup resolved
  /\ \A k \in (filled \ disk) \ hurt : rows[k] = "processing"
  /\ \A k \in Keys \ hurt : rows[k] = "done" => k \in disk \cup resolved

LEMMA OutboxInit == Init => OutboxInv
BY DEF Init, OutboxInv, InTry, Holding

LEMMA OutboxStep == SafeInv /\ OutboxInv /\ [Next]_vars => OutboxInv'
<1> SUFFICES ASSUME SafeInv, OutboxInv, [Next]_vars PROVE OutboxInv'
  OBVIOUS
<1> USE DEF SafeInv, TypeInv, TypeOK, OrderInv, OutboxInv, Holding, InTry, exch
<1>1. CASE Poll
  BY <1>1 DEF Poll
<1>2. CASE Claim
  <2>1. k0 \in Keys
    BY <1>2, HandType DEF Claim
  <2>2. CASE rows[k0] = "absent"
    <3>1. /\ rows' = [rows EXCEPT ![k0] = "processing"]
          /\ pc' = "inner" /\ batch' = batch
          /\ UNCHANGED <<placed, filled, resolved, disk, hurt>>
      BY <1>2, <2>2 DEF Claim
    <3>2. k0' = k0
      BY <3>1 DEF k0
    <3> QED BY <2>1, <2>2, <3>1, <3>2
  <2>3. CASE rows[k0] # "absent"
    BY <1>2, <2>3 DEF Claim
  <2> QED BY <2>2, <2>3
<1>3. CASE Decline
  <2>1. k0' = k0 /\ k0 \in Keys
    BY <1>3, HandType DEF Decline, k0
  <2>2. k0 \notin filled
    BY <1>3, <2>1 DEF Decline
  <2> QED BY <1>3, <2>1, <2>2 DEF Decline
<1>4. CASE Send
  <2>1. k0' = k0 /\ k0 \in Keys
    BY <1>4, HandType DEF Send, k0
  <2> QED BY <1>4, <2>1 DEF Send
<1>5. CASE Ack
  <2>1. k0' = k0
    BY <1>5 DEF Ack, k0
  <2> QED BY <1>5, <2>1 DEF Ack
<1>6. CASE Open
  <2>1. k0' = k0
    BY <1>6 DEF Open, k0
  <2> QED BY <1>6, <2>1 DEF Open
<1>7. CASE Finish
  <2>1. k0 \in Keys
    BY <1>7, HandType DEF Finish
  <2> QED BY <1>7, <2>1 DEF Finish
<1>8. CASE Unwind
  <2>1. k0 \in Keys /\ k0 \in hurt
    BY <1>8, HandType DEF Unwind
  <2>2. pc' = "down" /\ UNCHANGED <<placed, filled, resolved, disk, hurt>>
    BY <1>8 DEF Unwind, Die
  <2>3. \A k \in Keys : k # k0 => rows'[k] = rows[k]
    BY <1>8 DEF Unwind
  <2> QED BY <2>1, <2>2, <2>3
<1>9. CASE Crash
  BY <1>9 DEF Crash, Die
<1>10. CASE Restart
  BY <1>10 DEF Restart
<1>11. CASE UNCHANGED vars
  <2>1. k0' = k0
    BY <1>11 DEF vars, k0
  <2> QED BY <1>11, <2>1 DEF vars
<1>12. CASE Fail
  <2>1. k0' = k0
    BY <1>12 DEF Fail, k0
  <2> QED BY <1>12, <2>1 DEF Fail, Hurt
<1>13. CASE FinishFails \/ ClaimFails
  BY <1>13 DEF FinishFails, ClaimFails, Hurt
<1>14. CASE Stop
  <2>1. UNCHANGED <<rows, placed, filled, resolved, disk>>
    BY <1>14 DEF Stop
  <2>2. CASE pc = "idle" /\ Die /\ UNCHANGED hurt
    BY <2>1, <2>2 DEF Die
  <2>3. CASE pc \in InTry /\ pc' = "unwind" /\ Hurt /\ UNCHANGED <<seen, batch>>
    <3>1. k0' = k0
      BY <2>3 DEF k0
    <3> QED BY <2>1, <2>3, <3>1 DEF Hurt
  <2> QED BY <1>14, <2>2, <2>3 DEF Stop
<1> QED
  BY <1>1, <1>2, <1>3, <1>4, <1>5, <1>6, <1>7, <1>8, <1>9, <1>10, <1>11,
     <1>12, <1>13, <1>14 DEF Next, Handler, Fault

\* A filled copy without a recorded position has a claim the recovery scan can find,
\* over any number of crashes and of faults met by other keys.
THEOREM OutboxHolds == Spec => []OutboxCoversOrphans
<1>1. OutboxInv => OutboxCoversOrphans
  BY DEF OutboxInv, OutboxCoversOrphans
<1>2. SafeInv /\ OutboxInv /\ [Next]_vars => OutboxInv'
  BY OutboxStep
<1> QED BY <1>1, <1>2, OutboxInit, SafeAlways, PTL DEF Spec

\* A key marked done that met no fault itself has its position or an explicit
\* rejection.
THEOREM DoneHolds == Spec => []DoneMeansResolved
<1>1. OutboxInv => DoneMeansResolved
  BY DEF OutboxInv, DoneMeansResolved
<1>2. SafeInv /\ OutboxInv /\ [Next]_vars => OutboxInv'
  BY OutboxStep
<1> QED BY <1>1, <1>2, OutboxInit, SafeAlways, PTL DEF Spec

----------------------------------------------------------------------------
(* The claims a process leaves open, and what its cache knows.             *)

\* Open claims of keys no fault has met; the key in hand; the others.
Unhurt == {k \in Keys : rows[k] = "processing"} \ hurt
InHand == IF pc \in Holding THEN {k0} ELSE {}
Left   == Unhurt \ InHand
Queued == {Key[t] : t \in ElementsOf(batch)}

\* Each earlier life left one such claim at most, and this one none but in its hand.
OpenInv ==
  /\ pc # "down" => Cardinality(Left) <= lives - 1
  /\ pc = "down" => Cardinality(Unhurt) <= lives

LEMMA UnhurtFinite ==
  /\ IsFiniteSet(Unhurt) /\ Cardinality(Unhurt) \in Nat
  /\ IsFiniteSet(Left) /\ Cardinality(Left) \in Nat
  /\ Cardinality(Unhurt) <= Cardinality(Left) + 1
<1>1. IsFiniteSet(Unhurt) /\ Cardinality(Unhurt) \in Nat
  BY IntakeAssumption, FS_Subset, FS_CardinalityType DEF Unhurt
<1>2. IsFiniteSet(Left) /\ Cardinality(Left) \in Nat
  BY <1>1, FS_Subset, FS_CardinalityType DEF Left
<1>3. CASE Left = Unhurt
  BY <1>1, <1>3
<1>4. CASE pc \in Holding /\ k0 \in Unhurt
  BY <1>1, <1>2, <1>4, FS_RemoveElement DEF Left, InHand
<1> QED BY <1>1, <1>2, <1>3, <1>4 DEF Left, InHand

LEMMA OpenInit == Init => OpenInv
<1> SUFFICES ASSUME Init PROVE OpenInv
  OBVIOUS
<1>1. Left = {} /\ lives = 1 /\ pc = "idle"
  BY DEF Init, Left, Unhurt
<1> QED BY <1>1, FS_EmptySet DEF OpenInv

\* While the process lives, a step leaves no new claim behind: the one it makes is in
\* its hand, and it lets go of a claim by closing it or by a fault, which hurts its key.
LEMMA LeftShrinks ==
  ASSUME SafeInv, OutboxInv, [Next]_vars, pc # "down", pc' # "down"
  PROVE  Left' \subseteq Left /\ lives' = lives
<1> USE DEF SafeInv, TypeInv, TypeOK, Holding, InTry, Left, Unhurt, InHand
<1>1. CASE Poll
  BY <1>1 DEF Poll
<1>2. CASE Claim
  <2>1. k0 \in Keys
    BY <1>2, HandType DEF Claim
  <2>2. CASE rows[k0] = "absent"
    <3>1. /\ rows' = [rows EXCEPT ![k0] = "processing"]
          /\ pc' = "inner" /\ batch' = batch /\ hurt' = hurt /\ lives' = lives
      BY <1>2, <2>2 DEF Claim
    <3>2. k0' = k0
      BY <3>1 DEF k0
    <3> QED BY <1>2, <2>1, <3>1, <3>2 DEF Claim
  <2>3. CASE rows[k0] # "absent"
    BY <1>2, <2>3 DEF Claim
  <2> QED BY <2>2, <2>3
<1>3. CASE Decline \/ Send \/ Ack \/ Open \/ UNCHANGED vars
  <2>1. UNCHANGED <<batch, rows, hurt, lives>> /\ k0' = k0
    BY <1>3 DEF Decline, Send, Ack, Open, vars, k0
  <2>2. pc \in Holding => pc' \in Holding
    BY <1>3 DEF Decline, Send, Ack, Open, vars
  <2> QED BY <2>1, <2>2
<1>4. CASE Finish
  <2>1. k0 \in Keys
    BY <1>4, HandType DEF Finish
  <2> QED BY <1>4, <2>1 DEF Finish
<1>5. CASE FinishFails \/ ClaimFails
  BY <1>5 DEF FinishFails, ClaimFails, Hurt
<1>6. CASE Fail
  <2>1. k0' = k0
    BY <1>6 DEF Fail, k0
  <2> QED BY <1>6, <2>1 DEF Fail, Hurt
<1>7. CASE Stop
  <2>1. pc \in InTry /\ pc' = "unwind" /\ Hurt /\ UNCHANGED <<batch, rows, lives>>
    BY <1>7 DEF Stop, Die
  <2>2. k0' = k0
    BY <2>1 DEF k0
  <2> QED BY <2>1, <2>2 DEF Hurt
<1>8. ~Unwind /\ ~Crash /\ ~Restart
  BY DEF Unwind, Crash, Restart, Die
<1> QED
  BY <1>1, <1>2, <1>3, <1>4, <1>5, <1>6, <1>7, <1>8 DEF Next, Handler, Fault

LEMMA OpenStep ==
  SafeInv /\ OutboxInv /\ OpenInv /\ [Next]_vars => OpenInv'
<1> SUFFICES ASSUME SafeInv, OutboxInv, OpenInv, [Next]_vars PROVE OpenInv'
  OBVIOUS
<1>a. lives \in Nat /\ Cardinality(Unhurt) \in Nat /\ Cardinality(Left) \in Nat
      /\ Cardinality(Unhurt) <= lives
  BY UnhurtFinite DEF SafeInv, TypeInv, TypeOK, OpenInv
<1>1. CASE pc # "down" /\ pc' # "down"
  <2>1. Left' \subseteq Left /\ lives' = lives
    BY <1>1, LeftShrinks
  <2>2. Cardinality(Left') <= Cardinality(Left) /\ Cardinality(Left') \in Nat
    BY <2>1, UnhurtFinite, FS_Subset, FS_CardinalityType
  <2> QED BY <1>1, <1>a, <2>1, <2>2 DEF OpenInv
<1>2. CASE pc # "down" /\ pc' = "down"
  <2>1. CASE Unwind
    <3>1. k0 \in Keys /\ rows \in [Keys -> {"absent", "processing", "done"}]
      BY <2>1, HandType DEF Unwind, SafeInv, TypeInv, TypeOK, Holding
    <3>2. Unhurt' \subseteq Unhurt /\ lives' = lives
      BY <2>1, <3>1 DEF Unwind, Unhurt
    <3>3. Cardinality(Unhurt') <= Cardinality(Unhurt) /\ Cardinality(Unhurt') \in Nat
      BY <3>2, UnhurtFinite, FS_Subset, FS_CardinalityType
    <3> QED BY <1>2, <1>a, <3>2, <3>3 DEF OpenInv
  <2>2. CASE UNCHANGED <<rows, hurt, lives>>
    <3>1. Unhurt' = Unhurt
      BY <2>2 DEF Unhurt
    <3> QED BY <1>2, <1>a, <2>2, <3>1 DEF OpenInv
  <2>3. Unwind \/ UNCHANGED <<rows, hurt, lives>>
    BY <1>2 DEF Next, Handler, Fault, Poll, Claim, Decline, Send, Ack, Open, Finish,
       Fail, FinishFails, ClaimFails, Crash, Stop, Die, Restart, vars, InTry
  <2> QED BY <2>1, <2>2, <2>3
<1>3. CASE pc = "down"
  <2>1. Restart \/ UNCHANGED vars
    BY <1>3 DEF Next, Handler, Fault, Poll, Claim, Decline, Send, Ack, Open, Finish,
       Fail, FinishFails, ClaimFails, Crash, Stop, Unwind, InTry
  <2>2. Unhurt' = Unhurt
    BY <2>1 DEF Restart, vars, Unhurt
  <2>3. CASE Restart
    <3>1. pc' = "idle" /\ lives' = lives + 1
      BY <2>3 DEF Restart
    <3>2. Left' = Unhurt
      BY <2>2, <3>1 DEF Left, InHand, Holding, InTry
    <3> QED BY <1>a, <3>1, <3>2 DEF OpenInv
  <2>4. CASE UNCHANGED vars
    BY <1>3, <1>a, <2>2, <2>4 DEF OpenInv, vars
  <2> QED BY <2>1, <2>3, <2>4
<1> QED BY <1>1, <1>2, <1>3

\* Claims are made one at a time: over any number of lives and any number of keys,
\* each life leaves the recovery scan at most one beside those of the hurt keys.
THEOREM OneClaimHolds == Spec => []OneOpenClaimPerLife
<1>1. SafeInv /\ OpenInv => OneOpenClaimPerLife
  <2> SUFFICES ASSUME SafeInv, OpenInv PROVE OneOpenClaimPerLife
    OBVIOUS
  <2>1. lives \in Nat /\ Cardinality(Unhurt) \in Nat /\ Cardinality(Left) \in Nat
        /\ Cardinality(Unhurt) <= Cardinality(Left) + 1
    BY UnhurtFinite DEF SafeInv, TypeInv, TypeOK
  <2>2. pc = "idle" => Left = Unhurt
    BY DEF Left, InHand, Holding, InTry
  <2>3. Cardinality(Unhurt) <= IF pc = "idle" THEN lives - 1 ELSE lives
    BY <2>1, <2>2 DEF OpenInv
  <2> QED BY <2>3 DEF Unhurt, OneOpenClaimPerLife
<1> QED
  BY <1>1, OpenInit, OpenStep, OutboxInit, OutboxStep, SafeAlways, PTL DEF Spec

\* What the bounded cache keeps of a batch was in the cache or in the batch.
LEMMA RememberKeeps ==
  ASSUME NEW s \in Seq(Keys), NEW ks \in Seq(Keys)
  PROVE  ElementsOf(Remember(s, ks)) \subseteq ElementsOf(s) \cup ElementsOf(ks)
<1> DEFINE all == s \o ks
<1>1. all \in Seq(Keys) /\ Len(all) \in Nat /\ Len(all) = Len(s) + Len(ks)
  BY ConcatProperties, LenProperties
<1>2. \A i \in 1..Len(all) : all[i] \in ElementsOf(s) \cup ElementsOf(ks)
  <2> SUFFICES ASSUME NEW i \in 1..Len(all)
               PROVE  all[i] \in ElementsOf(s) \cup ElementsOf(ks)
    OBVIOUS
  <2>1. all[i] = IF i <= Len(s) THEN s[i] ELSE ks[i - Len(s)]
    BY <1>1, ConcatProperties
  <2>2. Len(s) \in Nat /\ Len(ks) \in Nat /\ i \in Nat
    BY LenProperties
  <2>3. CASE i <= Len(s)
    BY <1>1, <2>1, <2>2, <2>3 DEF ElementsOf
  <2>4. CASE ~(i <= Len(s))
    <3>1. i - Len(s) \in 1..Len(ks)
      BY <1>1, <2>2, <2>4
    <3> QED BY <3>1, <2>1, <2>4 DEF ElementsOf
  <2> QED BY <2>3, <2>4
<1>3. CASE Len(all) <= SeenSize
  BY <1>2, <1>3 DEF Remember, ElementsOf
<1>4. CASE ~(Len(all) <= SeenSize)
  <2> DEFINE from == Len(all) - SeenSize + 1
             sub  == SubSeq(all, from, Len(all))
  <2>1. Remember(s, ks) = sub
    BY <1>4 DEF Remember
  <2>2. SeenSize \in Nat /\ from \in 1..(Len(all) + 1)
    BY <1>1, <1>4, IntakeAssumption
  <2>3. \A i \in from..Len(all) : all[i] \in Keys
    BY <1>1, <2>2, ElementOfSeq
  <2>4. /\ Len(sub) = Len(all) - from + 1
        /\ \A i \in 1..Len(sub) : sub[i] = all[from + i - 1]
    BY <1>1, <2>2, <2>3, SubSeqProperties
  <2>5. \A i \in 1..Len(sub) : from + i - 1 \in 1..Len(all)
    BY <1>1, <2>2, <2>4
  <2> HIDE DEF sub
  <2> QED BY <2>1, <2>4, <2>5, <1>2 DEF ElementsOf
<1> QED BY <1>3, <1>4

\* A queue without its head has lost no other key.
LEMMA TailKeeps ==
  ASSUME NEW b \in Seq(Trades), b # <<>>
  PROVE  ElementsOf(b) \subseteq {Head(b)} \cup ElementsOf(Tail(b))
<1>1. Len(b) \in Nat /\ Len(Tail(b)) = Len(b) - 1 /\ Head(b) = b[1]
      /\ \A i \in 1..Len(Tail(b)) : Tail(b)[i] = b[i + 1]
  BY HeadTailProperties, LenProperties
<1>2. ASSUME NEW i \in 1..Len(b) PROVE b[i] \in {Head(b)} \cup ElementsOf(Tail(b))
  <2>1. CASE i = 1
    BY <1>1, <2>1
  <2>2. CASE i # 1
    <3>1. i - 1 \in 1..Len(Tail(b)) /\ (i - 1) + 1 = i
      BY <1>1, <2>2
    <3> QED BY <1>1, <3>1 DEF ElementsOf
  <2> QED BY <2>1, <2>2
<1> QED BY <1>2 DEF ElementsOf

\* A key the cache knows is claimed, still queued, or one whose claim failed.
CacheInv == \A k \in ElementsOf(seen) \ hurt : rows[k] # "absent" \/ k \in Queued

LEMMA CacheInit == Init => CacheInv
BY EmptySeq DEF Init, CacheInv, ElementsOf

LEMMA CacheStep == SafeInv /\ CacheInv /\ [Next]_vars => CacheInv'
<1> SUFFICES ASSUME SafeInv, CacheInv, [Next]_vars PROVE CacheInv'
  OBVIOUS
<1>a. /\ TypeInv /\ seen \in Seq(Keys) /\ batch \in Seq(Trades)
      /\ \A k \in ElementsOf(seen) \ hurt : rows[k] # "absent" \/ k \in Queued
  BY DEF SafeInv, TypeInv, TypeOK, CacheInv
<1>b. ElementsOf(seen) \subseteq Keys
  BY <1>a, ElementOfSeq DEF ElementsOf
<1>c. hurt \subseteq hurt'
  BY DEF Next, Handler, Fault, Poll, Claim, Decline, Send, Ack, Open, Finish, Unwind,
         Fail, FinishFails, ClaimFails, Hurt, Crash, Stop, Restart, vars
<1>1. CASE Poll
  <2> PICK b \in Batches : batch' = b /\ seen' = Remember(seen, Keyed(b))
    BY <1>1 DEF Poll
  <2> DEFINE ks == Keyed(b)
  <2>1. b \in Seq(Trades) /\ ks \in Seq(Keys)
    BY BatchesType
  <2>2. ElementsOf(seen') \subseteq ElementsOf(seen) \cup ElementsOf(ks)
    BY <1>a, <2>1, RememberKeeps
  <2>3. DOMAIN b = 1..Len(b) /\ DOMAIN ks = 1..Len(ks) /\ DOMAIN ks = DOMAIN b
    BY <2>1, LenProperties DEF Keyed
  <2>4. ElementsOf(ks) \subseteq Queued'
    BY <2>3 DEF ElementsOf, Queued, Keyed
  <2>5. Queued = {}
    BY <1>1, EmptySeq DEF Poll, Queued, ElementsOf
  <2>6. rows' = rows
    BY <1>1 DEF Poll
  <2> QED BY <1>a, <1>c, <2>2, <2>4, <2>5, <2>6 DEF CacheInv
<1>2. CASE batch # <<>> /\ batch' = Tail(batch) /\ seen' = seen
           /\ (rows'[k0] # "absent" \/ k0 \in hurt')
           /\ \A k \in Keys : rows'[k] = "absent" => rows[k] = "absent"
  <2>1. Queued \subseteq {k0} \cup Queued'
    BY <1>a, <1>2, TailKeeps DEF Queued, k0
  <2> QED BY <1>a, <1>b, <1>c, <1>2, <2>1 DEF CacheInv
<1>3. CASE UNCHANGED <<seen, batch>>
           /\ \A k \in Keys : rows'[k] = "absent" => rows[k] = "absent"
  <2>1. Queued' = Queued
    BY <1>3 DEF Queued
  <2> QED BY <1>a, <1>b, <1>c, <1>3, <2>1 DEF CacheInv
<1>4. CASE Die
  BY <1>4, EmptySeq DEF Die, CacheInv, ElementsOf
<1>5. CASE FinishFails \/ ClaimFails
  BY <1>5, <1>2, <1>a DEF FinishFails, ClaimFails, Hurt, TypeInv, Holding, InTry
<1>6. CASE Claim
  <2>1. k0 \in Keys /\ batch # <<>> /\ rows \in [Keys -> {"absent", "processing", "done"}]
    BY <1>6, <1>a, HandType DEF Claim, TypeInv, TypeOK
  <2>2. CASE rows[k0] = "absent"
    BY <1>6, <2>1, <2>2, <1>3 DEF Claim
  <2>3. CASE rows[k0] # "absent"
    BY <1>6, <2>1, <2>3, <1>2 DEF Claim
  <2> QED BY <2>2, <2>3
<1>7. CASE Finish
  <2>1. k0 \in Keys /\ batch # <<>> /\ rows \in [Keys -> {"absent", "processing", "done"}]
    BY <1>7, <1>a, HandType DEF Finish, TypeInv, TypeOK, Holding, InTry
  <2> QED BY <1>7, <2>1, <1>2 DEF Finish
<1>8. CASE UNCHANGED <<seen, batch, rows>>
  BY <1>8, <1>3
<1>9. \/ Poll
      \/ Claim \/ Finish \/ FinishFails \/ ClaimFails
      \/ Die \/ UNCHANGED <<seen, batch, rows>>
  BY DEF Next, Handler, Fault, Decline, Send, Ack, Open, Unwind, Fail, Crash, Stop,
         Restart, vars
<1> QED BY <1>1, <1>4, <1>5, <1>6, <1>7, <1>8, <1>9

\* Whatever the sizes of cache, pages and batches, the cache hides no trade that is
\* neither claimed nor queued, but one whose own claim failed.
THEOREM CacheHolds == Spec => []SeenIsOnlyACache
<1>1. CacheInv => SeenIsOnlyACache
  BY DEF CacheInv, SeenIsOnlyACache, Queued
<1> QED
  BY <1>1, CacheInit, CacheStep, SafeAlways, PTL DEF Spec

----------------------------------------------------------------------------
(* What a handler has ahead of it.                                         *)

Ahead(step) == CASE step = "inner" -> 5 [] step = "ack" -> 4 [] step = "open" -> 3
                 [] step = "finish" -> 2 [] step = "unwind" -> 1 [] OTHER -> 0

\* A step of or in a handler goes on with its key, or leaves the key settled.
HandlerGoesOn ==
  pc \in InTry =>
    /\ Ahead(pc') < Ahead(pc)
    /\ pc' \in InTry => batch' = batch
    /\ pc' \notin InTry => rows'[k0] = "done" \/ pc' = "down" \/ k0 \in hurt'

LEMMA HandlerStep == SafeInv /\ [Next]_vars => [HandlerGoesOn]_vars
<1> SUFFICES ASSUME SafeInv, Next, pc \in InTry
             PROVE  /\ Ahead(pc') < Ahead(pc)
                    /\ pc' \in InTry => batch' = batch
                    /\ pc' \notin InTry => rows'[k0] = "done" \/ pc' = "down" \/ k0 \in hurt'
  BY DEF HandlerGoesOn
<1> USE DEF InTry
<1>1. /\ Ahead("inner") = 5 /\ Ahead("ack") = 4 /\ Ahead("open") = 3 /\ Ahead("finish") = 2
      /\ Ahead("unwind") = 1 /\ Ahead("idle") = 0 /\ Ahead("down") = 0
  BY DEF Ahead
<1>2. k0 \in Keys /\ rows \in [Keys -> {"absent", "processing", "done"}]
  BY HandType DEF SafeInv, TypeInv, TypeOK, Holding
<1>3. CASE Decline \/ Send \/ Ack \/ Open
  BY <1>1, <1>3 DEF Decline, Send, Ack, Open
<1>4. CASE Finish
  BY <1>1, <1>2, <1>4 DEF Finish
<1>5. CASE Fail \/ FinishFails
  BY <1>1, <1>5 DEF Fail, FinishFails, Hurt
<1>6. CASE Crash \/ Stop
  BY <1>1, <1>6 DEF Crash, Stop, Die, Hurt
<1> QED
  BY <1>3, <1>4, <1>5, <1>6
  DEF Next, Handler, Fault, Poll, Claim, Unwind, ClaimFails, Restart

\* A handler comes to its end in a bounded number of steps, with the claim it was given
\* and no other, and leaves it done unless the process died or a fault met the key
\* (orchestrator.py:139-165).
THEOREM HandlerEnds == Spec => [][HandlerGoesOn]_vars
BY HandlerStep, SafeAlways, PTL DEF Spec

----------------------------------------------------------------------------
(* Implementation of CopyOnce.                                             *)

Claimed == {k \in Keys : rows[k] # "absent"}

LEMMA RefineInit == Init => Abstract!Init
BY DEF Init, Abstract!Init

\* Claim, Send and Open are the three steps of CopyOnce; all others stutter.
LEMMA RefineStep == SafeInv /\ [Next]_vars => [Abstract!Next]_(Abstract!vars)
<1> SUFFICES ASSUME SafeInv, [Next]_vars PROVE [Abstract!Next]_(Abstract!vars)
  OBVIOUS
<1> USE DEF SafeInv, TypeInv, TypeOK, OrderInv, Holding, InTry, exch
<1>1. CASE Claim /\ rows[k0] = "absent"
  <2>1. k0 \in Keys
    BY <1>1, HandType DEF Claim
  <2>2. rows' = [rows EXCEPT ![k0] = "processing"] /\ UNCHANGED <<placed, disk>>
    BY <1>1 DEF Claim
  <2>3. Claimed' = Claimed \cup {k0} /\ k0 \notin Claimed
    BY <1>1, <2>1, <2>2 DEF Claimed
  <2>4. \E k \in Keys : Abstract!Claim(k)
    BY <2>1, <2>2, <2>3 DEF Abstract!Claim, Claimed
  <2> QED BY <2>4 DEF Abstract!Next
<1>2. CASE Send
  <2>1. k0 \in Keys /\ rows[k0] # "absent" /\ placed[k0] = 0
    BY <1>2, HandType DEF Send
  <2>2. placed' = [placed EXCEPT ![k0] = 1] /\ UNCHANGED <<rows, disk>>
    BY <1>2, <2>1 DEF Send
  <2>3. Abstract!Order(k0)
    BY <2>1, <2>2 DEF Abstract!Order
  <2> QED BY <2>1, <2>3 DEF Abstract!Next
<1>3. CASE Open
  <2>1. k0 \in Keys /\ placed[k0] = 1
    BY <1>3, HandType DEF Open
  <2>2. disk' = disk \cup {k0} /\ UNCHANGED <<rows, placed>>
    BY <1>3 DEF Open
  <2>3. CASE k0 \in disk
    BY <2>2, <2>3 DEF Abstract!vars
  <2>4. CASE k0 \notin disk
    <3>1. Abstract!Hold(k0)
      BY <2>1, <2>2, <2>4 DEF Abstract!Hold
    <3> QED BY <2>1, <3>1 DEF Abstract!Next
  <2> QED BY <2>3, <2>4
<1>4. CASE Finish \/ Unwind
  <2>1. k0 \in Keys /\ rows[k0] # "absent"
    BY <1>4, HandType DEF Finish, Unwind
  <2>2. \/ rows' = rows
        \/ rows' = [rows EXCEPT ![k0] = "done"]
    BY <1>4 DEF Finish, Unwind
  <2>3. Claimed' = Claimed
    BY <2>1, <2>2 DEF Claimed
  <2>4. UNCHANGED <<placed, disk>>
    BY <1>4 DEF Finish, Unwind
  <2> QED BY <2>3, <2>4 DEF Abstract!vars, Claimed
<1>5. CASE UNCHANGED <<rows, placed, disk>>
  BY <1>5 DEF Abstract!vars
<1>6. \/ Claim /\ rows[k0] = "absent"
      \/ Send \/ Open \/ Finish \/ Unwind
      \/ UNCHANGED <<rows, placed, disk>>
  BY DEF Next, Handler, Fault, Poll, Claim, Decline, Ack, Fail,
         FinishFails, ClaimFails, Crash, Stop, Die, Restart, vars
<1> QED BY <1>1, <1>2, <1>3, <1>4, <1>5, <1>6

\* Whatever the tracker repeats and the process loses, the intake only ever
\* claims, orders once and then records: it implements CopyOnce.
THEOREM Refines == Spec => ImplementsCopyOnce
<1>1. Init => Abstract!Init
  BY RefineInit
<1>2. SafeInv /\ [Next]_vars => [Abstract!Next]_(Abstract!vars)
  BY RefineStep
<1> QED BY <1>1, <1>2, SafeAlways, PTL DEF Spec, ImplementsCopyOnce, Abstract!Spec
=============================================================================
