------------------------- MODULE RiskControlProofs --------------------------
(***************************************************************************)
(* RiskControl for any set of traders and any bounds: types, the mirrored  *)
(* halt, how many entries a stop lets through, the mode of an order, and   *)
(* how the tick brings memory to what an operator has written.             *)
(***************************************************************************)
EXTENDS RiskControl, TLAPS

USE DEF Up, yaml, store, memory, maint, entry, exit, world, ghost

----------------------------------------------------------------------------
(* Types.                                                                  *)

LEMMA TypeInit == Init => TypeOK
<1> SUFFICES ASSUME Init PROVE TypeOK
  OBVIOUS
<1>1. dryRun \in BOOLEAN /\ blind \in BOOLEAN
      /\ killFile \in BOOLEAN /\ breach \in BOOLEAN /\ paper \in BOOLEAN
      /\ tripped \in BOOLEAN /\ applied \in BOOLEAN
  BY RiskAssumption, Zenon DEF Init
<1> QED BY <1>1, RiskAssumption DEF Init, TypeOK, Reasons, Modes, NoLate

LEMMA TypeStep == TypeOK /\ [Next]_vars => TypeOK'
<1> SUFFICES ASSUME TypeOK, [Next]_vars PROVE TypeOK'
  OBVIOUS
<1> USE RiskAssumption DEF TypeOK, Reasons, Modes, Command
<1>1. CASE Operator
  <2>1. CASE SetHalt BY <2>1 DEF SetHalt
  <2>2. CASE Resume
    <3>1. tripped' \in BOOLEAN
      BY <2>2, Zenon DEF Resume
    <3> QED BY <2>2, <3>1 DEF Resume
  <2>3. CASE ToggleKill BY <2>3 DEF ToggleKill
  <2>4. CASE \E w \in Wallets : SetCutoff(w) BY <2>4 DEF SetCutoff
  <2>5. CASE \E w \in Wallets : ClearCutoff(w) BY <2>5 DEF ClearCutoff
  <2>6. CASE \E m \in Modes : SetMode(m) BY <2>6 DEF SetMode
  <2> QED BY <1>1, <2>1, <2>2, <2>3, <2>4, <2>5, <2>6 DEF Operator
<1>2. CASE Market
  BY <1>2 DEF Market
<1>3. CASE Tick
  <2>1. CASE ReadHalt BY <2>1 DEF ReadHalt
  <2>2. CASE ReadCutoffs BY <2>2 DEF ReadCutoffs
  <2>3. CASE Refresh BY <2>3 DEF Refresh
  <2>4. CASE ReadMode BY <2>4 DEF ReadMode
  <2>5. CASE ApplyMode BY <2>5 DEF ApplyMode, ForcePaper
  <2>6. CASE Evaluate
    <3>1. tripped' \in BOOLEAN
      BY <2>6, Zenon DEF Evaluate
    <3> QED BY <2>6, <3>1 DEF Evaluate
  <2>7. CASE Mirror BY <2>7 DEF Mirror
  <2> QED BY <1>3, <2>1, <2>2, <2>3, <2>4, <2>5, <2>6, <2>7 DEF Tick
<1>4. CASE ExitTask
  <2>1. CASE StoreCutoff BY <2>1 DEF StoreCutoff
  <2>2. CASE \E w \in Wallets : CutOff(w) BY <2>2 DEF CutOff
  <2> QED BY <1>4, <2>1, <2>2 DEF ExitTask
<1>5. CASE EntryTask
  <2>1. CASE Place BY <2>1 DEF Place
  <2>2. CASE EndEntry BY <2>2 DEF EndEntry
  <2>3. CASE \E w \in Wallets : PassGate(w) BY <2>3 DEF PassGate
  <2> QED BY <1>5, <2>1, <2>2, <2>3 DEF EntryTask
<1>6. CASE TickFails
  <2>1. tripped' \in BOOLEAN
    BY <1>6, Zenon DEF TickFails
  <2>2. /\ mpc' = "idle" /\ gotHalt' = "none" /\ gotCuts' = {} /\ gotMode' = "none"
        /\ ops' = ops + 1
        /\ UNCHANGED <<yaml, store, memory, entry, exit, killFile, breach, moves, lives,
                       late, botCut, applied>>
    BY <1>6, Zenon DEF TickFails, Command
  <2> QED BY <2>1, <2>2
<1>7. CASE StoreCutoffFails
  BY <1>7 DEF StoreCutoffFails
<1>8. CASE Crash
  <2>1. paper' \in BOOLEAN /\ tripped' \in BOOLEAN /\ applied' \in BOOLEAN
    BY <1>8, Zenon DEF Crash
  <2>2. /\ mpc' = "down" /\ gotHalt' = "none" /\ gotCuts' = {} /\ gotMode' = "none"
        /\ halt' = "none" /\ cuts' = {}
        /\ epc' = "idle" /\ xpc' = "idle" /\ places' = 0
        /\ late' = [late EXCEPT !.halt = 0]
        /\ UNCHANGED <<yaml, store, eWallet, xWallet, world, lives, botCut>>
    BY <1>8, Zenon DEF Crash
  <2> QED BY <2>1, <2>2
<1>9. CASE Restart
  BY <1>9 DEF Restart
<1>10. CASE UNCHANGED vars
  BY <1>10 DEF vars
<1> QED
  BY <1>1, <1>2, <1>3, <1>4, <1>5, <1>6, <1>7, <1>8, <1>9, <1>10 DEF Next

\* The variables keep their types; an execute posts at most MaxPlaces orders.
THEOREM TypesHold == Spec => []TypeOK
BY TypeInit, TypeStep, PTL DEF Spec

----------------------------------------------------------------------------
(* The mirrored halt.                                                      *)

\* What a tick read before its refresh is no older than the mirrored reason,
\* which only the tick itself writes; a halt about to be mirrored is in force.
MirrorInv ==
  /\ MirroredHaltInForce
  /\ kvHalt = "weekly_dd" /\ mpc \in {"cutoffs", "refresh"} => gotHalt # "none"
  /\ mpc = "mirror" => halt # "none"

LEMMA MirrorInit == Init => MirrorInv
BY DEF Init, MirrorInv, MirroredHaltInForce

LEMMA MirrorStep == TypeOK /\ MirrorInv /\ [Next]_vars => MirrorInv'
<1> SUFFICES ASSUME TypeOK, MirrorInv, [Next]_vars PROVE MirrorInv'
  OBVIOUS
<1> USE DEF MirrorInv, MirroredHaltInForce
<1>1. CASE Operator
  BY <1>1 DEF Operator, SetHalt, Resume, ToggleKill, SetCutoff, ClearCutoff, SetMode
<1>2. CASE ReadHalt
  BY <1>2 DEF ReadHalt
<1>3. CASE ReadCutoffs
  BY <1>3 DEF ReadCutoffs
<1>4. CASE Refresh
  BY <1>4 DEF Refresh
<1>5. CASE ReadMode \/ ApplyMode
  BY <1>5 DEF ReadMode, ApplyMode
<1>6. CASE Evaluate
  BY <1>6 DEF Evaluate
<1>7. CASE Mirror
  BY <1>7 DEF Mirror
<1>8. CASE Market \/ ExitTask \/ EntryTask \/ StoreCutoffFails
  <2>1. UNCHANGED <<kvHalt, halt, mpc, gotHalt>>
    BY <1>8 DEF Market, ExitTask, StoreCutoff, CutOff, EntryTask, Place, EndEntry,
                PassGate, StoreCutoffFails
  <2> QED BY <2>1
<1>9. CASE TickFails
  BY <1>9 DEF TickFails
<1>10. CASE Crash
  BY <1>10 DEF Crash
<1>11. CASE Restart
  BY <1>11 DEF Restart
<1>12. CASE UNCHANGED vars
  BY <1>12 DEF vars
<1> QED
  BY <1>1, <1>2, <1>3, <1>4, <1>5, <1>6, <1>7, <1>8, <1>9, <1>10, <1>11, <1>12
  DEF Next, Tick

\* A weekly halt the bot has mirrored in the store is in force in memory while
\* the tasks run, whatever fails, restarts or is written in between.
THEOREM MirroredHaltHolds == Spec => []MirroredHaltInForce
<1>1. MirrorInv => MirroredHaltInForce
  BY DEF MirrorInv
<1> QED BY <1>1, MirrorInit, MirrorStep, TypesHold, PTL DEF Spec

----------------------------------------------------------------------------
(* The tripped halt.                                                       *)

\* A halt the bot has tripped is in force, and in the store once the tick that
\* tripped it has mirrored it, so that no later tick reads its absence.
TripInv == tripped =>
  /\ Up => halt # "none"
  /\ mpc # "mirror" => kvHalt # "none"
  /\ mpc \in {"cutoffs", "refresh"} => gotHalt # "none"

LEMMA TripInit == Init => TripInv
BY DEF Init, TripInv

LEMMA TripStep == TypeOK /\ TripInv /\ [Next]_vars => TripInv'
<1> SUFFICES ASSUME TypeOK, TripInv, [Next]_vars PROVE TripInv'
  OBVIOUS
<1> USE DEF TripInv
<1>1. CASE Operator
  BY <1>1 DEF Operator, SetHalt, Resume, ToggleKill, SetCutoff, ClearCutoff, SetMode
<1>2. CASE ReadHalt
  BY <1>2 DEF ReadHalt
<1>3. CASE ReadCutoffs
  BY <1>3 DEF ReadCutoffs
<1>4. CASE Refresh
  BY <1>4 DEF Refresh
<1>5. CASE ReadMode \/ ApplyMode
  BY <1>5 DEF ReadMode, ApplyMode
<1>6. CASE Evaluate
  BY <1>6 DEF Evaluate
<1>7. CASE Mirror
  BY <1>7 DEF Mirror
<1>8. CASE Market \/ ExitTask \/ EntryTask \/ StoreCutoffFails
  <2>1. UNCHANGED <<kvHalt, halt, mpc, gotHalt, tripped>>
    BY <1>8 DEF Market, ExitTask, StoreCutoff, CutOff, EntryTask, Place, EndEntry,
                PassGate, StoreCutoffFails
  <2> QED BY <2>1
<1>9. CASE TickFails
  BY <1>9 DEF TickFails
<1>10. CASE Crash
  BY <1>10 DEF Crash
<1>11. CASE Restart
  BY <1>11 DEF Restart
<1>12. CASE UNCHANGED vars
  BY <1>12 DEF vars
<1> QED
  BY <1>1, <1>2, <1>3, <1>4, <1>5, <1>6, <1>7, <1>8, <1>9, <1>10, <1>11, <1>12
  DEF Next, Tick

\* Between the tripping of a halt and an operator's resume no entry passes the
\* gate, unless the mirroring of the halt failed.
THEOREM TripHolds == Spec => TripKeepsGateShut
<1>1. TripInv /\ [Next]_vars =>
        [(epc = "idle" /\ epc' = "gated") => ~tripped \/ blind]_vars
  <2> SUFFICES ASSUME TripInv, [Next]_vars, epc = "idle", epc' = "gated", ~blind
               PROVE  ~tripped
    OBVIOUS
  <2>1. \E w \in Wallets : PassGate(w)
    BY DEF Next, Operator, SetHalt, Resume, ToggleKill, SetCutoff, ClearCutoff,
           SetMode, Market, Tick, ReadHalt, ReadCutoffs, Refresh, ReadMode, ApplyMode,
           Evaluate, Mirror, ExitTask, StoreCutoff, CutOff, EntryTask, Place, EndEntry,
           TickFails, StoreCutoffFails, Crash, Restart, vars
  <2> QED BY <2>1 DEF PassGate, Allows, TripInv
<1> QED BY <1>1, TripInit, TripStep, TypesHold, PTL DEF Spec, TripKeepsGateShut

----------------------------------------------------------------------------
(* The entries a stop lets through.                                        *)

\* An entry that has posted nothing yet passed the gate after the stop was last
\* lifted, so nobody is late; a lifted stop has nobody late.
LateInv ==
  /\ StopsLetOneThrough
  /\ halt = "none" => late.halt = 0
  /\ ~killFile => late.kill = 0
  /\ epc = "gated" /\ places = 0 /\ ~blind => late.halt = 0 /\ late.kill = 0
  /\ ~Up => halt = "none"

LEMMA LateInit == Init => LateInv
BY DEF Init, LateInv, StopsLetOneThrough, NoLate

LEMMA LateStep == TypeOK /\ LateInv /\ [Next]_vars => LateInv'
<1> SUFFICES ASSUME TypeOK, LateInv, [Next]_vars PROVE LateInv'
  OBVIOUS
<1> USE DEF TypeOK, LateInv, StopsLetOneThrough
<1>1. CASE ToggleKill
  BY <1>1 DEF ToggleKill
<1>2. CASE SetHalt \/ Resume \/ (\E w \in Wallets : SetCutoff(w) \/ ClearCutoff(w))
           \/ (\E m \in Modes : SetMode(m))
  <2>1. UNCHANGED <<halt, killFile, blind, epc, places, late, mpc>>
    BY <1>2 DEF SetHalt, Resume, SetCutoff, ClearCutoff, SetMode
  <2> QED BY <2>1
<1>3. CASE Refresh
  BY <1>3 DEF Refresh
<1>4. CASE Evaluate
  BY <1>4 DEF Evaluate
<1>5. CASE Market \/ ReadHalt \/ ReadCutoffs \/ ReadMode \/ ApplyMode \/ Mirror
           \/ ExitTask \/ TickFails \/ StoreCutoffFails
  <2>1. UNCHANGED <<halt, killFile, blind, epc, places, late>> /\ (Up <=> Up')
    BY <1>5 DEF Market, ReadHalt, ReadCutoffs, ReadMode, ApplyMode, Mirror, ExitTask,
                StoreCutoff, CutOff, TickFails, StoreCutoffFails
  <2> QED BY <2>1
<1>6. CASE \E w \in Wallets : PassGate(w)
  BY <1>6 DEF PassGate, Allows
<1>7. CASE Place
  <2>1. UNCHANGED <<halt, killFile, blind, epc, mpc>> /\ places' # 0
    BY <1>7, RiskAssumption DEF Place
  <2>2. CASE places > 0 \/ blind
    BY <1>7, <2>1, <2>2 DEF Place
  <2>3. CASE places = 0 /\ ~blind
    <3>1. late' = [halt |-> IF halt = "none" THEN 0 ELSE 1,
                   kill |-> IF killFile THEN 1 ELSE 0]
      BY <1>7, <2>3 DEF Place
    <3> QED BY <2>1, <3>1
  <2> QED BY <2>2, <2>3
<1>8. CASE EndEntry
  BY <1>8 DEF EndEntry
<1>9. CASE Crash
  BY <1>9 DEF Crash
<1>10. CASE Restart
  BY <1>10 DEF Restart
<1>11. CASE UNCHANGED vars
  BY <1>11 DEF vars
<1> QED
  BY <1>1, <1>2, <1>3, <1>4, <1>5, <1>6, <1>7, <1>8, <1>9, <1>10, <1>11
  DEF Next, Operator, Tick, EntryTask

\* Outside blind-copy mode a halt or the kill-switch lets at most one more
\* entry begin, the one already past the gate.
THEOREM StopsHold == Spec => []StopsLetOneThrough
<1>1. TypeOK /\ LateInv /\ [Next]_vars => LateInv'
  BY LateStep
<1>2. LateInv => StopsLetOneThrough
  BY DEF LateInv
<1> QED BY <1>1, <1>2, LateInit, TypesHold, PTL DEF Spec

----------------------------------------------------------------------------
(* The mode of an order.                                                   *)

\* An override this process has applied is still the store's, so a tick that
\* reads it again reads the same.
ModeInv ==
  /\ dryRun => paper
  /\ applied => /\ paper /\ kvMode = "paper"
                /\ mpc = "setmode" => gotMode = "paper"

LEMMA ModeInit == Init => ModeInv
BY DEF Init, ModeInv

LEMMA ModeStep == ModeInv /\ [Next]_vars => ModeInv'
<1> SUFFICES ASSUME ModeInv, [Next]_vars PROVE ModeInv'
  OBVIOUS
<1> USE DEF ModeInv
<1>1. CASE \E m \in Modes : SetMode(m)
  <2> SUFFICES ASSUME NEW m \in Modes, SetMode(m) PROVE ModeInv'
    BY <1>1
  <2>1. kvMode' = m /\ UNCHANGED <<dryRun, paper, mpc, gotMode>>
    BY Zenon DEF SetMode
  <2>2. applied' => applied /\ m = "paper"
    BY Zenon DEF SetMode
  <2> QED BY <2>1, <2>2
<1>2. CASE ReadMode
  BY <1>2 DEF ReadMode
<1>3. CASE ApplyMode
  <2>1. /\ paper' = ForcePaper(gotMode) /\ mpc = "setmode" /\ mpc' = "evaluate"
        /\ applied' = (applied \/ (gotMode = "paper" /\ kvMode = "paper"))
        /\ dryRun' = dryRun /\ kvMode' = kvMode
    BY <1>3 DEF ApplyMode
  <2>2. dryRun' => paper'
    BY <2>1, Zenon DEF ForcePaper
  <2>3. applied' => gotMode = "paper" /\ kvMode = "paper"
    BY <2>1, Zenon
  <2>4. gotMode = "paper" => paper'
    BY <2>1, Zenon DEF ForcePaper
  <2>5. mpc' # "setmode"
    BY <2>1
  <2> QED BY <2>1, <2>2, <2>3, <2>4, <2>5, Zenon
<1>4. CASE Crash
  BY <1>4, Zenon DEF Crash
<1>5. CASE SetHalt \/ Resume \/ ToggleKill \/ Market
           \/ (\E w \in Wallets : SetCutoff(w) \/ ClearCutoff(w))
  <2>1. UNCHANGED <<dryRun, paper, applied, kvMode, mpc, gotMode>>
    BY <1>5 DEF SetHalt, Resume, ToggleKill, Market, SetCutoff, ClearCutoff
  <2> QED BY <2>1
<1>6. CASE \/ ReadHalt \/ ReadCutoffs \/ Refresh \/ Evaluate \/ Mirror
           \/ TickFails \/ Restart
  <2>1. UNCHANGED <<dryRun, paper, applied, kvMode>> /\ mpc' # "setmode"
    BY <1>6 DEF ReadHalt, ReadCutoffs, Refresh, Evaluate, Mirror, TickFails, Restart
  <2> QED BY <2>1
<1>7. CASE ExitTask \/ EntryTask \/ StoreCutoffFails
  <2>1. UNCHANGED <<dryRun, paper, applied, kvMode, mpc, gotMode>>
    BY <1>7 DEF ExitTask, StoreCutoff, CutOff, EntryTask, Place, EndEntry, PassGate,
                StoreCutoffFails
  <2> QED BY <2>1
<1>8. CASE UNCHANGED vars
  BY <1>8 DEF vars
<1> QED BY <1>1, <1>2, <1>3, <1>4, <1>5, <1>6, <1>7, <1>8 DEF Next, Operator, Tick

\* No order goes out live under dry_run, nor between the application of "paper"
\* and an operator's next word on the mode: no override, refresh or restart, and
\* no operator's write between the tick's read and its use, makes it so.
THEOREM ModeHolds == Spec => OrdersObeyMode
<1>1. ModeInv /\ [Next]_vars =>
        [places' > places /\ (dryRun \/ applied) => paper]_vars
  BY DEF ModeInv
<1> QED BY <1>1, ModeInit, ModeStep, PTL DEF Spec, OrdersObeyMode
----------------------------------------------------------------------------
(* How far the tick is from what an operator has written.                  *)

\* The steps between a place of the tick and the end of it.
Round == [down |-> 8, idle |-> 7, cutoffs |-> 6, refresh |-> 5, mode |-> 4,
          setmode |-> 3, evaluate |-> 2, mirror |-> 1]

\* The steps until memory has a value, where current says that this tick has not
\* passed the reading of it, or has read it: else the next tick reads it.
Rounds(current) == Round[mpc] + IF current THEN 0 ELSE 8

HaltRounds   == Rounds(\/ mpc \in {"down", "idle"}
                       \/ mpc \in {"cutoffs", "refresh"} /\ gotHalt # "none")
ResumeRounds == Rounds(\/ mpc \in {"down", "idle"}
                       \/ mpc \in {"cutoffs", "refresh"} /\ gotHalt = "none")
CutRounds(w) == Rounds(\/ mpc \in {"down", "idle", "cutoffs"}
                       \/ mpc = "refresh" /\ w \in gotCuts)
ModeRounds   == Rounds(\/ mpc \in {"down", "idle", "cutoffs", "refresh", "mode"}
                       \/ mpc = "setmode" /\ gotMode = "paper")

\* Every step of the tick and every restart brings it nearer, and only a crash or
\* a store call that raises takes it away again.
Nearer(before, after) == /\ Tick \/ Restart => after < before
                         /\ ~(Crash \/ TickFails) => after <= before

\* What stands in the store over a step is in memory after it, or nearer to it.
TickHears ==
  /\ kvHalt = "operator" /\ kvHalt' = "operator"
       => halt' # "none" \/ Nearer(HaltRounds, HaltRounds')
  /\ \A w \in Wallets : w \in kvCuts /\ w \in kvCuts'
       => w \in cuts' \/ Nearer(CutRounds(w), CutRounds(w)')
  /\ kvMode = "paper" /\ kvMode' = "paper"
       => paper' \/ Nearer(ModeRounds, ModeRounds')
  /\ kvHalt = "none" /\ ~breach /\ kvHalt' = "none" /\ ~breach'
       => halt' = "none" \/ Nearer(ResumeRounds, ResumeRounds')

LEMMA RoundsTyped == TypeOK => Round[mpc] \in 1..8
  BY DEF TypeOK, Round

\* A step that leaves the tick where it is leaves what it has ahead of it.
LEMMA TickStays ==
  ASSUME TypeOK, UNCHANGED maint
  PROVE  /\ HaltRounds' <= HaltRounds /\ ModeRounds' <= ModeRounds
         /\ ResumeRounds' <= ResumeRounds
         /\ \A w \in Wallets : CutRounds(w)' <= CutRounds(w)
<1>1. Round[mpc] \in 1..8 /\ Round' = Round
  BY RoundsTyped DEF Round
<1>2. HaltRounds' = HaltRounds /\ ModeRounds' = ModeRounds
      /\ ResumeRounds' = ResumeRounds
      /\ \A w \in Wallets : CutRounds(w)' = CutRounds(w)
  BY <1>1 DEF HaltRounds, ModeRounds, ResumeRounds, CutRounds, Rounds
<1>3. HaltRounds \in Nat /\ ModeRounds \in Nat /\ ResumeRounds \in Nat
      /\ \A w \in Wallets : CutRounds(w) \in Nat
  BY <1>1 DEF HaltRounds, ModeRounds, ResumeRounds, CutRounds, Rounds
<1> QED BY <1>2, <1>3

\* The steps that are none of the tick's, nor end it.
LEMMA OthersLeaveTick ==
  ASSUME \/ Operator \/ Market \/ ExitTask \/ EntryTask \/ StoreCutoffFails
         \/ UNCHANGED vars
  PROVE  UNCHANGED maint
<1>1. CASE Operator
  BY <1>1 DEF Operator, SetHalt, Resume, ToggleKill, SetCutoff, ClearCutoff, SetMode
<1>2. CASE Market \/ StoreCutoffFails \/ UNCHANGED vars
  BY <1>2 DEF Market, StoreCutoffFails, vars
<1>3. CASE ExitTask \/ EntryTask
  BY <1>3 DEF ExitTask, StoreCutoff, CutOff, EntryTask, Place, EndEntry, PassGate
<1> QED BY <1>1, <1>2, <1>3

\* A step of the tick and a restart.
LEMMA TickNears ==
  ASSUME TypeOK, Tick \/ Restart
  PROVE  /\ kvHalt = "operator" /\ kvHalt' = "operator"
              => halt' # "none" \/ HaltRounds' < HaltRounds
         /\ \A w \in Wallets : w \in kvCuts /\ w \in kvCuts'
              => w \in cuts' \/ CutRounds(w)' < CutRounds(w)
         /\ kvMode = "paper" /\ kvMode' = "paper" => paper' \/ ModeRounds' < ModeRounds
         /\ kvHalt = "none" /\ ~breach /\ kvHalt' = "none" /\ ~breach'
              => halt' = "none" \/ ResumeRounds' < ResumeRounds
<1> USE DEF HaltRounds, ModeRounds, ResumeRounds, CutRounds, Rounds, Round
<1>1. CASE ReadHalt BY <1>1 DEF ReadHalt
<1>2. CASE ReadCutoffs BY <1>2 DEF ReadCutoffs
<1>3. CASE Refresh BY <1>3 DEF Refresh
<1>4. CASE ReadMode BY <1>4 DEF ReadMode
<1>5. CASE ApplyMode
  <2>1. /\ mpc = "setmode" /\ mpc' = "evaluate" /\ gotMode' = "none"
        /\ UNCHANGED <<yaml, store, halt, cuts, gotHalt, gotCuts, world>>
    BY <1>5 DEF ApplyMode
  <2>2. gotMode = "paper" => paper'
    BY <1>5, Zenon DEF ApplyMode, ForcePaper
  <2>3. gotMode # "paper" => ModeRounds' < ModeRounds
    BY <2>1
  <2>4. /\ HaltRounds' < HaltRounds /\ ResumeRounds' < ResumeRounds
        /\ \A w \in Wallets : CutRounds(w)' < CutRounds(w)
    BY <2>1
  <2> HIDE DEF HaltRounds, ModeRounds, ResumeRounds, CutRounds, Rounds, Round
  <2> QED BY <2>2, <2>3, <2>4, Zenon
<1>6. CASE Evaluate
  <2>1. /\ mpc = "evaluate" /\ mpc' \in {"idle", "mirror"}
        /\ UNCHANGED <<yaml, store, cuts, paper, gotHalt, gotCuts, gotMode, world>>
    BY <1>6 DEF Evaluate
  <2>2. /\ HaltRounds' < HaltRounds /\ ModeRounds' < ModeRounds
        /\ ResumeRounds' < ResumeRounds
        /\ \A w \in Wallets : CutRounds(w)' < CutRounds(w)
    BY <2>1
  <2> HIDE DEF HaltRounds, ModeRounds, ResumeRounds, CutRounds, Rounds, Round
  <2> QED BY <2>2, Zenon
<1>7. CASE Mirror BY <1>7 DEF Mirror
<1>8. CASE Restart BY <1>8 DEF Restart
<1> QED BY <1>1, <1>2, <1>3, <1>4, <1>5, <1>6, <1>7, <1>8 DEF Tick

\* What an operator has written and lets stand is heard within the tick that has
\* not read past it or the one after it: each step of the tick brings memory
\* nearer to it, whatever the other tasks, the operators and the market do, and
\* only a crash or a failing call puts it off.  With the tick's fairness, which
\* TLC adds, this is OperatorTakesEffect.
THEOREM TickIsHeard == Spec => [][TickHears]_vars
<1>1. TypeOK /\ [Next]_vars => [TickHears]_vars
  <2> SUFFICES ASSUME TypeOK, [Next]_vars PROVE TickHears
    OBVIOUS
  <2>1. HaltRounds \in Nat /\ ModeRounds \in Nat /\ ResumeRounds \in Nat
        /\ \A w \in Wallets : CutRounds(w) \in Nat
    BY RoundsTyped DEF HaltRounds, ModeRounds, ResumeRounds, CutRounds, Rounds
  <2>2. TypeOK'
    BY TypeStep
  <2>3. HaltRounds' \in Nat /\ ModeRounds' \in Nat /\ ResumeRounds' \in Nat
        /\ \A w \in Wallets : CutRounds(w)' \in Nat
    BY <2>2 DEF HaltRounds, ModeRounds, ResumeRounds, CutRounds, Rounds, TypeOK, Round
  <2>4. CASE Tick \/ Restart
    <3>1. \A a, b \in Nat : a < b => a <= b
      OBVIOUS
    <3> QED BY <2>1, <2>3, <2>4, <3>1, TickNears DEF TickHears, Nearer
  <2>5. CASE ~(Tick \/ Restart) /\ ~(Crash \/ TickFails)
    <3>1. UNCHANGED maint
      BY <2>5, OthersLeaveTick DEF Next
    <3> QED BY <2>5, <3>1, TickStays DEF TickHears, Nearer
  <2>6. CASE ~(Tick \/ Restart) /\ (Crash \/ TickFails)
    BY <2>6 DEF TickHears, Nearer
  <2> QED BY <2>4, <2>5, <2>6
<1> QED BY <1>1, TypesHold, PTL DEF Spec
=============================================================================
