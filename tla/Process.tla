------------------------------ MODULE Process -------------------------------
(***************************************************************************)
(* The bot's process from start to exit: main() runs the orchestrator,     *)
(* which hydrates from the store, starts its three tasks and gathers them; *)
(* a signal stops it; the store is closed and the process ends.  Every     *)
(* store call goes through StoreCalls, which shutdown puts to the test:    *)
(* stopping is cancelling tasks wherever they wait.                        *)
(*                                                                         *)
(* What the tasks do with the store is left open but for its shape: the    *)
(* entry task claims a signal, makes any calls, and marks the claim done   *)
(* in a finally; the two loops make calls and sleep.  A task that waits    *)
(* for the exchange, a book or a timer makes no call.                      *)
(***************************************************************************)
EXTENDS StoreCalls

CONSTANTS Hydrates,     \* store calls of run() before its tasks exist
          MaxStops      \* bound: SIGINT and SIGTERM received

Loops == {"exit", "maint"}
Tasks == Loops \cup {"entry"}

ASSUME ProcessAssumption ==
  /\ Callers = Tasks \cup {"main"}
  /\ Hydrates \in 1..MaxCalls["main"] /\ MaxStops \in Nat

VARIABLES
  phase,        \* main: "hydrate", "tasks", "unwind", "closing", "exiting", "exited"
  running,      \* Orchestrator._running
  pc,           \* where each task is
  cancel,       \* tasks whose next step is a CancelledError
  stops         \* signals received

vars == <<callVars, phase, running, pc, cancel, stops>>

Ended   == {"ended", "cancelled"}
Steps   == {"none", "start", "poll", "claim", "work", "raised", "final", "dying", "last",
            "busy", "sleep"} \cup Ended
Live    == {t \in Tasks : pc[t] \notin Ended \cup {"none"}}
Goes(t) == t \in Live /\ t \notin cancel
To(t, step) == pc' = [pc EXCEPT ![t] = step]

----------------------------------------------------------------------------
(* main(): run() up to its tasks.                                          *)

Hydrate ==
  /\ phase = "hydrate" /\ made["main"] < Hydrates
  /\ Ask("main")
  /\ UNCHANGED <<phase, running, pc, cancel, stops>>

\* A call that raises ends run(), but for the last: the scan of old claims is in a
\* try of its own.  After the last the tasks are created, stopped or not.
Hydrated ==
  /\ phase = "hydrate" /\ Return("main")
  /\ phase' = IF made["main"] = Hydrates THEN "tasks"
              ELSE IF waits["main"] = "failed" THEN "closing" ELSE "hydrate"
  /\ pc' = IF phase' = "tasks" THEN [t \in Tasks |-> "start"] ELSE pc
  /\ UNCHANGED <<running, cancel, stops>>

----------------------------------------------------------------------------
(* The entry task.  The tracker's own flag is set when its stream starts,  *)
(* so it ends no stream: a stop before that is overwritten, and a later    *)
(* one cancels the task.                                                   *)

StartEntry ==
  /\ Goes("entry") /\ pc["entry"] = "start"
  /\ To("entry", "poll")
  /\ UNCHANGED <<callVars, phase, running, cancel, stops>>

\* Variant the checks must reject: the entry loop does not look at _running.
SignalAnyway ==
  /\ Goes("entry") /\ pc["entry"] = "poll"
  /\ made["entry"] + 3 <= MaxCalls["entry"]
  /\ Ask("entry") /\ To("entry", "claim")
  /\ UNCHANGED <<phase, running, cancel, stops>>

\* A signal: claim it, or return when the orchestrator has been stopped.
Signal ==
  /\ Goes("entry") /\ pc["entry"] = "poll"
  /\ IF running
     THEN made["entry"] + 3 <= MaxCalls["entry"] /\ Ask("entry") /\ To("entry", "claim")
     ELSE To("entry", "ended") /\ UNCHANGED callVars
  /\ UNCHANGED <<phase, running, cancel, stops>>

\* Claimed, or a duplicate, or the call raised outside of the try.
Claimed ==
  /\ Goes("entry") /\ pc["entry"] = "claim"
  /\ Return("entry")
  /\ \/ waits["entry"] = "ok" /\ To("entry", "work")
     \/ To("entry", "poll")
  /\ UNCHANGED <<phase, running, cancel, stops>>

Work ==
  /\ Goes("entry") /\ pc["entry"] = "work"
  /\ made["entry"] + 2 <= MaxCalls["entry"]
  /\ Ask("entry")
  /\ UNCHANGED <<phase, running, pc, cancel, stops>>

Worked ==
  /\ Goes("entry") /\ pc["entry"] = "work"
  /\ Return("entry")
  /\ To("entry", IF waits["entry"] = "failed" THEN "raised" ELSE "work")
  /\ UNCHANGED <<phase, running, cancel, stops>>

\* finally: await mark_signal_done(key), after a return, an exception or a
\* CancelledError.
Finally ==
  /\ \/ Goes("entry") /\ pc["entry"] = "work" /\ To("entry", "final")
     \/ pc["entry"] = "raised" /\ To("entry", "final")
     \/ pc["entry"] = "dying" /\ To("entry", "last")
  /\ Ask("entry")
  /\ UNCHANGED <<phase, running, cancel, stops>>

Finished ==
  /\ Goes("entry") /\ pc["entry"] \in {"final", "last"}
  /\ Return("entry")
  /\ To("entry", IF pc["entry"] = "last" THEN "cancelled" ELSE "poll")
  /\ UNCHANGED <<phase, running, cancel, stops>>

----------------------------------------------------------------------------
(* The exit and the maintenance loop: while self._running: a pass; sleep.  *)

Turn(t) ==
  /\ Goes(t) /\ pc[t] \in {"start", "sleep"}
  /\ To(t, IF running THEN "busy" ELSE "ended")
  /\ UNCHANGED <<callVars, phase, running, cancel, stops>>

Call(t) ==
  /\ Goes(t) /\ pc[t] = "busy"
  /\ Ask(t)
  /\ UNCHANGED <<phase, running, pc, cancel, stops>>

Called(t) ==
  /\ Goes(t) /\ pc[t] = "busy"
  /\ Return(t)
  /\ To(t, IF waits[t] = "failed" THEN "sleep" ELSE "busy")
  /\ UNCHANGED <<phase, running, cancel, stops>>

Rest(t) ==
  /\ Goes(t) /\ pc[t] = "busy" /\ ~Within(t)
  /\ To(t, "sleep")
  /\ UNCHANGED <<callVars, phase, running, cancel, stops>>

----------------------------------------------------------------------------
(* Shutdown.                                                               *)

\* Variant: the entry loop catches BaseException.
CancelledCaught(t) ==
  /\ t \in Live \cap cancel /\ pc[t] \notin {"raised", "dying"}
  /\ IF Within(t) THEN Leave(t) ELSE UNCHANGED callVars
  /\ To(t, CASE pc[t] = "work" -> "raised" [] pc[t] \in {"claim", "final"} -> "poll"
             [] OTHER -> "cancelled")
  /\ cancel' = cancel \ {t}
  /\ UNCHANGED <<phase, running, stops>>

\* CancelledError at the task's await.  Nobody catches it; a handler past its
\* claim still runs its finally, and one in its finally does not.
Cancelled(t) ==
  /\ t \in Live \cap cancel /\ pc[t] \notin {"raised", "dying"}
  /\ IF Within(t) THEN Leave(t) ELSE UNCHANGED callVars
  /\ To(t, IF pc[t] = "work" THEN "dying" ELSE "cancelled")
  /\ cancel' = cancel \ {t}
  /\ UNCHANGED <<phase, running, stops>>

\* stop(), from the signal handler, which is there before run() begins.  While
\* run() hydrates there are no tasks to cancel.
Stop ==
  /\ stops < MaxStops /\ phase # "exited"
  /\ stops' = stops + 1
  /\ running' = FALSE
  /\ cancel' = Live
  /\ UNCHANGED <<callVars, phase, pc>>

\* Variant: main goes on without waiting for the tasks it has cancelled.
GatherLeaves ==
  /\ phase = "tasks"
  /\ (\E t \in Tasks : pc[t] = "cancelled") \/ Live = {}
  /\ phase' = "closing"
  /\ cancel' = Live
  /\ UNCHANGED <<callVars, running, pc, stops>>

\* gather raises with the first task that was cancelled, or all have returned:
\* those that still run are cancelled, once more if need be.
GatherEnds ==
  /\ phase = "tasks"
  /\ (\E t \in Tasks : pc[t] = "cancelled") \/ Live = {}
  /\ phase' = "unwind"
  /\ cancel' = Live
  /\ UNCHANGED <<callVars, running, pc, stops>>

\* The second gather waits for all of them.
Unwound ==
  /\ phase = "unwind" /\ Live = {}
  /\ phase' = "closing"
  /\ UNCHANGED <<callVars, running, pc, cancel, stops>>

CloseStore ==
  /\ phase = "closing" /\ Close
  /\ phase' = "exiting"
  /\ UNCHANGED <<running, pc, cancel, stops>>

\* asyncio.run joins the worker threads.
Exit ==
  /\ phase = "exiting" /\ begun \cup written = {}
  /\ phase' = "exited"
  /\ UNCHANGED <<callVars, running, pc, cancel, stops>>

----------------------------------------------------------------------------
Init ==
  /\ CallsInit
  /\ phase = "hydrate" /\ running = TRUE
  /\ pc = [t \in Tasks |-> "none"] /\ cancel = {} /\ stops = 0

Main  == Hydrate \/ Hydrated \/ GatherEnds \/ Unwound \/ CloseStore \/ Exit
Entry == StartEntry \/ Claimed \/ Work \/ Worked \/ Finally \/ Finished
Loop(t) == Turn(t) \/ Call(t) \/ Called(t) \/ Rest(t)

Step(t) == Cancelled(t) \/ (t = "entry" /\ Entry) \/ (t \in Loops /\ Loop(t))

\* A task that is handed the lock with a CancelledError pending gets the error: it
\* starts no thread.
Worker == /\ (\E c \in Callers \ cancel : Enter(c)) \/ \E k \in Calls : Thread(k)
          /\ UNCHANGED <<phase, running, pc, cancel, stops>>

Next == Main \/ Signal \/ Stop \/ Worker \/ \E t \in Tasks : Step(t)

Spec == Init /\ [][Next]_vars

\* The event loop runs what can run, threads end (SQLite's busy timeout is five
\* seconds) and the exchange answers or times out; nobody owes a signal.
FairSpec == Spec /\ WF_vars(Main) /\ WF_vars(Worker) /\ \A t \in Tasks : WF_vars(Step(t))

----------------------------------------------------------------------------
TypeOK ==
  /\ CallsTypeOK
  /\ phase \in {"hydrate", "tasks", "unwind", "closing", "exiting", "exited"}
  /\ running \in BOOLEAN /\ stops \in Nat
  /\ pc \in [Tasks -> Steps] /\ cancel \subseteq Live

\* After a stop no task begins anything: the only calls are those of run() before
\* its tasks exist, and the finally of a handler in flight (orchestrator.py:142).  A stop
\* that comes while run() hydrates cancels nothing, and the tasks are created.
NothingBegunAfterStop ==
  [][~running => \A t \in Tasks : made'[t] # made[t] => pc'[t] \in {"final", "last"}]_vars

\* The store is closed when no task is left to call it (orchestrator.py:127-130,
\* main.py:181-185), however stops and cancellations fall.
ClosedLast == ~open => Live = {} /\ queue = <<>>

\* A stop that finds the tasks ends the process, whatever they wait for.  (One
\* that comes while run() hydrates does so only with the next signal.)
StopEnds == (cancel # {}) ~> (phase = "exited")
=============================================================================
