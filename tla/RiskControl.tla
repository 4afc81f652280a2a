---------------------------- MODULE RiskControl -----------------------------
(***************************************************************************)
(* The stops of the bot: the weekly-drawdown halt, the per-trader cutoffs, *)
(* the kill-switch file and the paper/live override, as they travel        *)
(* between the operators (CLI and dashboard, other processes writing the   *)
(* same SQLite file), the maintenance tick that re-reads them, the exit    *)
(* loop that cuts traders off, and the entry gate that obeys them.         *)
(*                                                                         *)
(* The three tasks share one event loop, so what runs between two awaits   *)
(* is one action.  A store call takes effect in one action and its result  *)
(* is used in a later one; the store's lock is not modelled, since two     *)
(* calls of different tasks may be granted it in either order.             *)
(***************************************************************************)
EXTENDS Naturals, FiniteSets

CONSTANTS Wallets,      \* tracked traders
          Faults,       \* which of "crash" and "store" (a call raises) can happen
          MaxPlaces,    \* orders one execute may post (1 + repost_count)
          MaxOps,       \* bound: commands, kill-file changes and failed store calls
          MaxMoves,     \* bound: changes of the market between breach and none
          MaxLives      \* bound: process lifetimes

ASSUME RiskAssumption ==
  /\ Faults \subseteq {"crash", "store"}
  /\ MaxPlaces \in Nat \ {0}
  /\ MaxOps \in Nat /\ MaxMoves \in Nat /\ MaxLives \in Nat \ {0}

VARIABLES
  dryRun, blind,              \* the YAML: execution.dry_run, blind_copy.enabled
  kvHalt, kvCuts, kvMode,     \* the store: halt reason, cutoffs, execution_mode
  killFile,                   \* the kill-switch file exists
  breach,                     \* the weekly drawdown is at or over its stop
  halt, cuts, paper,          \* memory: _halt_reason, _trader_cutoffs, _force_paper
  mpc, gotHalt, gotCuts, gotMode,   \* maintenance tick and what it has read
  epc, eWallet, places,       \* entry task: gate passed, orders posted
  xpc, xWallet,               \* exit task: cutoff to be stored
  lives, ops, moves,          \* what the bounds count
  late,                       \* gated entries begun since the stop they ignore came
  tripped,                    \* the bot tripped a halt, mirrored it, and nobody resumed
  botCut,                     \* traders the bot cut off and nobody restored
  applied                     \* this process applied the override "paper", which stands

yaml  == <<dryRun, blind>>
store == <<kvHalt, kvCuts, kvMode>>
memory == <<halt, cuts, paper>>
maint == <<mpc, gotHalt, gotCuts, gotMode>>
entry == <<epc, eWallet, places>>
exit  == <<xpc, xWallet>>
world == <<killFile, breach, ops, moves>>
ghost == <<late, tripped, botCut, applied>>
vars  == <<yaml, store, killFile, breach, memory, maint, entry, exit, lives, ops, moves,
           ghost>>

Reasons == {"none", "operator", "weekly_dd"}
Modes   == {"none", "paper", "live"}
Up      == mpc # "down"

NoLate == [halt |-> 0, kill |-> 0]

----------------------------------------------------------------------------
(* Operators: bot.cli and the dashboard's controls.                        *)

\* The one budget for what the world does to the bot: a command, a change of the
\* kill-switch file, a store call that raises.
Command == ops < MaxOps /\ ops' = ops + 1

SetHalt == /\ Command
           /\ kvHalt' = "operator"
           /\ UNCHANGED <<yaml, kvCuts, kvMode, killFile, breach, memory, maint, entry,
                          exit, lives, moves, ghost>>

Resume == /\ Command
          /\ kvHalt' = "none"
          /\ tripped' = FALSE
          /\ UNCHANGED <<yaml, kvCuts, kvMode, killFile, breach, memory, maint, entry,
                         exit, lives, moves, late, botCut, applied>>

SetCutoff(w) == /\ Command
                /\ kvCuts' = kvCuts \cup {w}
                /\ UNCHANGED <<yaml, kvHalt, kvMode, killFile, breach, memory, maint,
                               entry, exit, lives, moves, ghost>>

ClearCutoff(w) == /\ Command
                  /\ kvCuts' = kvCuts \ {w}
                  /\ botCut' = botCut \ {w}
                  /\ UNCHANGED <<yaml, kvHalt, kvMode, killFile, breach, memory, maint,
                                 entry, exit, lives, moves, late, tripped, applied>>

\* The dashboard refuses "live" when the YAML pins dry_run.
SetMode(m) == /\ Command
              /\ m = "live" => ~dryRun
              /\ kvMode' = m
              /\ applied' = (applied /\ m = "paper")
              /\ UNCHANGED <<yaml, kvHalt, kvCuts, killFile, breach, memory, maint, entry,
                             exit, lives, moves, late, tripped, botCut>>

\* touch or rm of the kill-switch file.
ToggleKill == /\ Command
              /\ killFile' = ~killFile
              /\ late' = [late EXCEPT !.kill = 0]
              /\ UNCHANGED <<yaml, store, breach, memory, maint, entry, exit, lives, moves,
                             tripped, botCut, applied>>

\* Marks move equity across the weekly stop, either way.
Market == /\ moves < MaxMoves /\ moves' = moves + 1
          /\ breach' = ~breach
          /\ UNCHANGED <<yaml, store, killFile, memory, maint, entry, exit, lives, ops,
                         ghost>>

----------------------------------------------------------------------------
(* The maintenance tick, every 60 s.                                       *)

ReadHalt == /\ mpc = "idle"
            /\ gotHalt' = kvHalt
            /\ mpc' = "cutoffs"
            /\ UNCHANGED <<yaml, store, memory, gotCuts, gotMode, entry, exit, world,
                           lives, ghost>>

ReadCutoffs == /\ mpc = "cutoffs"
               /\ gotCuts' = kvCuts
               /\ mpc' = "refresh"
               /\ UNCHANGED <<yaml, store, memory, gotHalt, gotMode, entry, exit, world,
                              lives, ghost>>

\* Variant the checks must reject: a DB without a reason leaves the halt alone.
RefreshKeepsHalt ==
  /\ mpc = "refresh"
  /\ halt' = IF gotHalt = "none" THEN halt ELSE gotHalt
  /\ cuts' = gotCuts
  /\ mpc' = "mode" /\ gotHalt' = "none" /\ gotCuts' = {}
  /\ UNCHANGED <<yaml, store, paper, gotMode, entry, exit, world, lives, ghost>>

\* refresh_external_state: memory becomes what the tick has read.
Refresh ==
  /\ mpc = "refresh"
  /\ halt' = gotHalt
  /\ cuts' = gotCuts
  /\ late' = IF gotHalt = "none" THEN [late EXCEPT !.halt = 0] ELSE late
  /\ mpc' = "mode" /\ gotHalt' = "none" /\ gotCuts' = {}
  /\ UNCHANGED <<yaml, store, paper, gotMode, entry, exit, world, lives, tripped, botCut,
                 applied>>

ReadMode == /\ mpc = "mode"
            /\ gotMode' = kvMode
            /\ mpc' = "setmode"
            /\ UNCHANGED <<yaml, store, memory, gotHalt, gotCuts, entry, exit, world, lives,
                           ghost>>

\* Variant: the override is taken as it is, YAML or not.
ForcePaperUnclamped(mode) == mode = "paper"

\* set_force_paper: clamped to the YAML's dry_run.
ForcePaper(mode) == dryRun \/ mode = "paper"

\* The anchors are then rolled and stored (module Portfolio) before "evaluate".
ApplyMode == /\ mpc = "setmode"
             /\ paper' = ForcePaper(gotMode)
             /\ applied' = (applied \/ (gotMode = "paper" /\ kvMode = "paper"))
             /\ mpc' = "evaluate" /\ gotMode' = "none"
             /\ UNCHANGED <<yaml, store, halt, cuts, gotHalt, gotCuts, entry, exit, world,
                            lives, late, tripped, botCut>>

\* Variant: the reason is mirrored in the store before it is in force.
EvaluateMirrorsFirst ==
  /\ mpc = "evaluate"
  /\ IF breach /\ halt = "none"
     THEN kvHalt' = "weekly_dd" /\ mpc' = "idle" /\ UNCHANGED <<halt, tripped>>
     ELSE mpc' = "idle" /\ UNCHANGED <<kvHalt, halt, tripped>>
  /\ UNCHANGED <<yaml, kvCuts, kvMode, cuts, paper, gotHalt, gotCuts, gotMode, entry, exit,
                 world, lives, late, botCut, applied>>

\* Variant: a tripped halt stays in memory only.
EvaluateKeepsToItself ==
  /\ mpc = "evaluate"
  /\ mpc' = "idle"
  /\ IF breach THEN halt' = "weekly_dd" /\ tripped' = (tripped \/ halt = "none")
     ELSE UNCHANGED <<halt, tripped>>
  /\ UNCHANGED <<yaml, store, cuts, paper, gotHalt, gotCuts, gotMode, entry, exit, world,
                 lives, late, botCut, applied>>

\* evaluate_portfolio trips the halt; only a newly tripped one is mirrored.
Evaluate ==
  /\ mpc = "evaluate"
  /\ IF breach
     THEN /\ halt' = "weekly_dd"
          /\ tripped' = (tripped \/ halt = "none")
          /\ mpc' = IF halt = "none" THEN "mirror" ELSE "idle"
     ELSE mpc' = "idle" /\ UNCHANGED <<halt, tripped>>
  /\ UNCHANGED <<yaml, store, cuts, paper, gotHalt, gotCuts, gotMode, entry, exit, world,
                 lives, late, botCut, applied>>

\* kv_set("global_halt_reason", ...).
Mirror == /\ mpc = "mirror"
          /\ kvHalt' = "weekly_dd"
          /\ mpc' = "idle"
          /\ UNCHANGED <<yaml, kvCuts, kvMode, memory, gotHalt, gotCuts, gotMode, entry,
                         exit, world, lives, ghost>>

\* A store call raises (the file is locked by another writer): the tick ends.
TickFails == /\ "store" \in Faults /\ Command
             /\ mpc \in {"cutoffs", "mode", "evaluate", "mirror"}
             /\ mpc' = "idle" /\ gotHalt' = "none" /\ gotCuts' = {} /\ gotMode' = "none"
             /\ tripped' = (tripped /\ mpc # "mirror")
             /\ UNCHANGED <<yaml, store, memory, entry, exit, killFile, breach, moves,
                            lives, late, botCut, applied>>

----------------------------------------------------------------------------
(* The exit loop.                                                          *)

\* A losing close trips a trader's cutoff in memory ...
CutOff(w) == /\ Up /\ xpc = "idle"
             /\ cuts' = cuts \cup {w}
             /\ botCut' = botCut \cup {w}
             /\ xpc' = "store" /\ xWallet' = w
             /\ UNCHANGED <<yaml, store, halt, paper, maint, entry, world, lives, late,
                            tripped, applied>>

\* ... and then in the store.
StoreCutoff == /\ xpc = "store"
               /\ kvCuts' = kvCuts \cup {xWallet}
               /\ xpc' = "idle"
               /\ UNCHANGED <<yaml, kvHalt, kvMode, memory, maint, entry, xWallet, world,
                              lives, ghost>>

StoreCutoffFails == /\ "store" \in Faults /\ Command
                    /\ xpc = "store" /\ xpc' = "idle"
                    /\ UNCHANGED <<yaml, store, memory, maint, entry, xWallet, killFile,
                                   breach, moves, lives, ghost>>

----------------------------------------------------------------------------
(* The entry task.                                                         *)

\* Variant: a gate that does not look at the halt or the kill-switch.
AllowsIgnoringStops(w) == w \notin cuts

\* check_entry as far as stops go; the caps on size are module Portfolio's.
\* Blind copy goes straight to execution.
Allows(w) == blind \/ (~killFile /\ halt = "none" /\ w \notin cuts)

PassGate(w) == /\ Up /\ epc = "idle"
               /\ Allows(w)
               /\ epc' = "gated" /\ eWallet' = w /\ places' = 0
               /\ UNCHANGED <<yaml, store, memory, maint, exit, world, lives, ghost>>

\* Variant: the repost loop is not counted.
PlaceUncounted ==
  /\ epc = "gated" /\ places <= MaxPlaces
  /\ places' = places + 1
  /\ UNCHANGED <<yaml, store, memory, maint, epc, eWallet, exit, world, lives, ghost>>

\* place_limit in the mode of the moment; the first order begins the entry.
Place == /\ epc = "gated"
         /\ places < MaxPlaces /\ places' = places + 1
         /\ late' = IF places > 0 \/ blind THEN late
                    ELSE [halt |-> late.halt + IF halt = "none" THEN 0 ELSE 1,
                          kill |-> late.kill + IF killFile THEN 1 ELSE 0]
         /\ UNCHANGED <<yaml, store, memory, maint, epc, eWallet, exit, world, lives,
                        tripped, botCut, applied>>

EndEntry == /\ epc = "gated"
            /\ epc' = "idle" /\ places' = 0
            /\ UNCHANGED <<yaml, store, memory, maint, eWallet, exit, world, lives, ghost>>

----------------------------------------------------------------------------
(* Process.                                                                *)

Crash == /\ "crash" \in Faults
         /\ Up /\ lives < MaxLives
         /\ mpc' = "down" /\ gotHalt' = "none" /\ gotCuts' = {} /\ gotMode' = "none"
         /\ halt' = "none" /\ cuts' = {} /\ paper' = dryRun
         /\ epc' = "idle" /\ xpc' = "idle" /\ places' = 0
         /\ late' = [late EXCEPT !.halt = 0]
         /\ tripped' = (tripped /\ mpc # "mirror") /\ applied' = FALSE
         /\ UNCHANGED <<yaml, store, eWallet, xWallet, world, lives, botCut>>

\* run(): hydrate halt and cutoffs; the mode starts at the YAML's.
Restart == /\ mpc = "down" /\ mpc' = "idle"
           /\ halt' = kvHalt /\ cuts' = kvCuts
           /\ lives' = lives + 1
           /\ UNCHANGED <<yaml, store, paper, gotHalt, gotCuts, gotMode, entry, exit, world,
                          ghost>>

----------------------------------------------------------------------------
Init == /\ kvHalt = "none" /\ kvCuts = {} /\ kvMode = "none"
        /\ dryRun \in BOOLEAN /\ blind \in BOOLEAN
        /\ killFile = FALSE /\ breach = FALSE
        /\ halt = "none" /\ cuts = {} /\ paper = dryRun
        /\ mpc = "idle" /\ gotHalt = "none" /\ gotCuts = {} /\ gotMode = "none"
        /\ epc = "idle" /\ eWallet \in Wallets /\ places = 0
        /\ xpc = "idle" /\ xWallet \in Wallets
        /\ lives = 1 /\ ops = 0 /\ moves = 0
        /\ late = NoLate /\ tripped = FALSE /\ botCut = {} /\ applied = FALSE

Operator == \/ SetHalt \/ Resume \/ ToggleKill
            \/ \E w \in Wallets : SetCutoff(w) \/ ClearCutoff(w)
            \/ \E m \in Modes : SetMode(m)

Tick == \/ ReadHalt \/ ReadCutoffs \/ Refresh \/ ReadMode \/ ApplyMode
        \/ Evaluate \/ Mirror

ExitTask  == StoreCutoff \/ \E w \in Wallets : CutOff(w)
EntryTask == Place \/ EndEntry \/ \E w \in Wallets : PassGate(w)

Next == \/ Operator \/ Market
        \/ Tick \/ ExitTask \/ EntryTask
        \/ TickFails \/ StoreCutoffFails
        \/ Crash \/ Restart

Spec == Init /\ [][Next]_vars

\* The maintenance loop runs for ever and the process is restarted; nobody
\* owes a signal, a loss or a command.
FairSpec == Spec /\ WF_vars(Tick) /\ WF_vars(Restart)

----------------------------------------------------------------------------
TypeOK ==
  /\ kvHalt \in Reasons /\ kvCuts \subseteq Wallets /\ kvMode \in Modes
  /\ dryRun \in BOOLEAN /\ blind \in BOOLEAN
  /\ killFile \in BOOLEAN /\ breach \in BOOLEAN
  /\ halt \in Reasons /\ cuts \subseteq Wallets /\ paper \in BOOLEAN
  /\ mpc \in {"down", "idle", "cutoffs", "refresh", "mode", "setmode", "evaluate",
              "mirror"}
  /\ gotHalt \in Reasons /\ gotCuts \subseteq Wallets /\ gotMode \in Modes
  /\ epc \in {"idle", "gated"} /\ eWallet \in Wallets /\ places \in 0..MaxPlaces
  /\ xpc \in {"idle", "store"} /\ xWallet \in Wallets
  /\ lives \in Nat /\ ops \in Nat /\ moves \in Nat
  /\ late \in [halt : Nat, kill : Nat]
  /\ tripped \in BOOLEAN /\ botCut \subseteq Wallets /\ applied \in BOOLEAN

\* A weekly halt the bot has mirrored is in force in memory whenever the tasks
\* run, over restarts, failed ticks and operators' writes of any kind: memory is
\* tripped before the store, and hydrate and refresh bring it back.
MirroredHaltInForce == Up /\ kvHalt = "weekly_dd" => halt # "none"

\* A halt or the kill-switch lets through at most the one entry already past
\* the gate: check_entry runs in the single entry task, after every await that
\* precedes execution (orchestrator.py:253, 267).  Blind copy, which skips the
\* gate, is not counted.
StopsLetOneThrough == late.halt <= 1 /\ late.kill <= 1

\* A weekly halt the bot has tripped and mirrored keeps the gate shut until an
\* operator resumes, over restarts and failing ticks (risk_manager.py:94-98).
TripKeepsGateShut ==
  [][(epc = "idle" /\ epc' = "gated") => ~tripped \/ blind]_vars

\* The gate lets no trader through whom the bot has cut off until an operator restores
\* him, whatever the tick has read in between.  Blind copy, which never asks the gate,
\* is not counted.
CutOffStaysOut ==
  [][\A w \in botCut : ~blind => ~(epc = "idle" /\ epc' = "gated" /\ eWallet' = w)]_vars

\* No order goes out live while the YAML pins dry_run, a ceiling no override
\* lifts, nor once the running process has applied "paper" and until an operator
\* takes it back, whatever an entry began under (clob_client.py:97-104, 141).
OrdersObeyMode == [][places' > places /\ (dryRun \/ applied) => paper]_vars

\* What an operator writes reaches memory: a halt, a cutoff, an override, and a
\* resume unless the stop trips again.
OperatorTakesEffect ==
  /\ (kvHalt = "operator") ~> (halt # "none" \/ kvHalt # "operator")
  /\ \A w \in Wallets : (w \in kvCuts) ~> (w \in cuts \/ w \notin kvCuts)
  /\ (kvMode = "paper") ~> (paper \/ kvMode # "paper")
  /\ (kvHalt = "none" /\ ~breach) ~> (halt = "none" \/ kvHalt # "none" \/ breach)
=============================================================================
