----------------------------- MODULE Coordinator -----------------------------
(***************************************************************************)
(* The regeneration coordinator of internal/watch/coordinator.go.          *)
(*                                                                         *)
(* Watcher goroutines report changes with Invalidate.  A debounce timer    *)
(* per project turns a burst of changes into one call of start, which      *)
(* spawns a worker goroutine; the worker takes one of maxConcurrent        *)
(* permits, generates, reports and finishes.  Changes that arrive while a  *)
(* worker runs set pending, and finish turns pending into a fresh timer.   *)
(*                                                                         *)
(* Every critical section of c.mu is one action.  What happens outside the *)
(* mutex (a timer firing, the wait for a permit, Generate, the report,     *)
(* wg.Wait) is an action of its own, so these steps interleave freely.     *)
(*                                                                         *)
(* Timers are where the code is subtle.  time.Timer.Stop cannot recall a   *)
(* timer that has fired and whose goroutine is waiting for c.mu, and start *)
(* drops the handle in p.timer even when that handle is a newer timer than *)
(* the one that is calling it.  So a project may have, besides the timer   *)
(* p.timer refers to, armed timers nobody can stop and calls of start that *)
(* have not yet taken the mutex.                                           *)
(***************************************************************************)
EXTENDS Naturals, FiniteSets

CONSTANTS Projects,       \* project ids, all different from ""
          MaxConcurrent,  \* capacity of the permits channel
          MaxChanges      \* bound: changes recorded per project

ASSUME MaxConcurrentAssumption == MaxConcurrent \in Nat \ {0}
ASSUME MaxChangesAssumption == MaxChanges \in Nat

VARIABLES
  timer,       \* p.timer: "nil", "armed", or "spent" (fired, Stop is too late)
  orphans,     \* number of armed timers that p.timer does not refer to
  calls,       \* number of fired timers whose start(id) waits for c.mu
  running,     \* p.running
  pending,     \* p.pending
  waiting,     \* number of workers in the select on permits / ctx.Done
  generating,  \* number of workers inside generator.Generate
  reporting,   \* number of workers past Generate, before finish
  permits,     \* len(c.permits)
  wg,          \* the WaitGroup's counter
  cancelled,   \* c.ctx.Err() # nil
  closed,      \* c.closed
  returned,    \* some call of Close has returned
  version,     \* history: changes recorded so far
  built        \* history: version when the latest generation began

projectVars == <<timer, orphans, calls, running, pending>>
workerVars  == <<waiting, generating, reporting, permits, wg>>
closeVars   == <<cancelled, closed, returned>>
history     == <<version, built>>
vars == <<projectVars, workerVars, closeVars, history>>

-----------------------------------------------------------------------------
(* A change is outstanding: no generation began since it was recorded. *)
Dirty(p) == built[p] < version[p]

Init ==
  /\ timer = [p \in Projects |-> "nil"]
  /\ orphans = [p \in Projects |-> 0]
  /\ calls = [p \in Projects |-> 0]
  /\ running = [p \in Projects |-> FALSE]
  /\ pending = [p \in Projects |-> FALSE]
  /\ waiting = [p \in Projects |-> 0]
  /\ generating = [p \in Projects |-> 0]
  /\ reporting = [p \in Projects |-> 0]
  /\ permits = 0 /\ wg = 0
  /\ cancelled = FALSE /\ closed = FALSE /\ returned = FALSE
  /\ version = [p \in Projects |-> 0]
  /\ built = [p \in Projects |-> 0]

-----------------------------------------------------------------------------
(* Invalidate: a running project only remembers the change, an idle one    *)
(* replaces its timer.  Stop succeeds on an armed timer (which is then     *)
(* gone) and does nothing to a spent one (its call of start still comes).  *)
Record(p) ==
  /\ ~closed
  /\ version[p] < MaxChanges
  /\ version' = [version EXCEPT ![p] = @ + 1]
  /\ UNCHANGED <<orphans, calls, running, workerVars, closeVars, built>>

Rearm(p) == timer' = [timer EXCEPT ![p] = "armed"] /\ UNCHANGED pending

\* Mutant: a change during a run is taken to be covered by that run.
InvalidateForgetful(p) ==
  /\ Record(p)
  /\ IF running[p] THEN UNCHANGED <<timer, pending>> ELSE Rearm(p)

Invalidate(p) ==
  /\ Record(p)
  /\ IF running[p]
       THEN /\ pending' = [pending EXCEPT ![p] = TRUE]
            /\ UNCHANGED timer
       ELSE Rearm(p)

(* The timer p.timer refers to fires. *)
Fire(p) ==
  /\ timer[p] = "armed"
  /\ timer' = [timer EXCEPT ![p] = "spent"]
  /\ calls' = [calls EXCEPT ![p] = @ + 1]
  /\ UNCHANGED <<orphans, running, pending, workerVars, closeVars, history>>

(* An armed timer that p.timer no longer refers to fires. *)
FireOrphan(p) ==
  /\ orphans[p] > 0
  /\ orphans' = [orphans EXCEPT ![p] = @ - 1]
  /\ calls' = [calls EXCEPT ![p] = @ + 1]
  /\ UNCHANGED <<timer, running, pending, workerVars, closeVars, history>>

(* start is refused: the coordinator is closed or the project runs. *)
StartRefused(p) ==
  /\ calls[p] > 0
  /\ closed \/ running[p]
  /\ calls' = [calls EXCEPT ![p] = @ - 1]
  /\ UNCHANGED <<timer, orphans, running, pending, workerVars, closeVars, history>>

(* Clearing or overwriting p.timer leaves an armed timer behind. *)
Drop(p) == orphans' = [orphans EXCEPT ![p] = @ + IF timer[p] = "armed" THEN 1 ELSE 0]

(* start takes the project and spawns its worker. *)
Launch(p) ==
  /\ calls[p] > 0
  /\ calls' = [calls EXCEPT ![p] = @ - 1]
  /\ Drop(p)
  /\ timer' = [timer EXCEPT ![p] = "nil"]
  /\ running' = [running EXCEPT ![p] = TRUE]
  /\ waiting' = [waiting EXCEPT ![p] = @ + 1]
  /\ wg' = wg + 1
  /\ UNCHANGED <<pending, generating, reporting, permits, closeVars, history>>

\* Mutants: start without its test of p.running, or of c.closed.
StartOverlapping(p) == ~closed /\ Launch(p)
StartAfterClose(p) == ~running[p] /\ Launch(p)

Start(p) == ~closed /\ ~running[p] /\ Launch(p)

-----------------------------------------------------------------------------
(* The worker takes a permit and calls Generate.  The select may choose    *)
(* this branch even when the context is already cancelled.                 *)
Enter(p) ==
  /\ waiting[p] > 0
  /\ permits' = permits + 1
  /\ waiting' = [waiting EXCEPT ![p] = @ - 1]
  /\ generating' = [generating EXCEPT ![p] = @ + 1]
  /\ built' = [built EXCEPT ![p] = version[p]]
  /\ UNCHANGED <<projectVars, reporting, wg, closeVars, version>>

\* Mutant: Generate is called without waiting for a permit.
BeginUnbounded(p) == Enter(p)

BeginGenerate(p) == permits < MaxConcurrent /\ Enter(p)

(* Generate returns, with or without an error, and the permit is freed. *)
Leave(p) ==
  /\ generating[p] > 0
  /\ generating' = [generating EXCEPT ![p] = @ - 1]
  /\ reporting' = [reporting EXCEPT ![p] = @ + 1]
  /\ UNCHANGED <<projectVars, waiting, wg, closeVars, history>>

\* Mutant: the permit is not given back.
EndKeepingPermit(p) == Leave(p) /\ UNCHANGED permits

EndGenerate(p) == Leave(p) /\ permits' = permits - 1

(* finish and the deferred wg.Done: changes that came during the run get a *)
(* new timer, unless the coordinator is being closed.                      *)
Idle(p) ==
  /\ running' = [running EXCEPT ![p] = FALSE]
  /\ wg' = wg - 1
  /\ UNCHANGED <<calls, closeVars, history>>

\* Mutant: pending is cleared but no timer is armed.
finishWithoutFollowUp(p) ==
  /\ Idle(p)
  /\ pending' = [pending EXCEPT ![p] = FALSE]
  /\ UNCHANGED <<orphans, timer>>

finish(p) ==
  /\ Idle(p)
  /\ IF pending[p] /\ ~cancelled
       THEN /\ pending' = [pending EXCEPT ![p] = FALSE]
            /\ Drop(p)
            /\ timer' = [timer EXCEPT ![p] = "armed"]
       ELSE UNCHANGED <<pending, orphans, timer>>

(* The worker has reported its result (onResult) and finishes. *)
FinishGeneration(p) ==
  /\ reporting[p] > 0
  /\ reporting' = [reporting EXCEPT ![p] = @ - 1]
  /\ finish(p)
  /\ UNCHANGED <<waiting, generating, permits>>

(* The worker sees ctx.Done before it gets a permit and gives up. *)
GiveUp(p) ==
  /\ waiting[p] > 0
  /\ cancelled
  /\ waiting' = [waiting EXCEPT ![p] = @ - 1]
  /\ UNCHANGED <<generating, reporting>>

\* Mutants: the worker frees a permit it never took, or returns without
\* finish and wg.Done.
AbandonFreeingPermit(p) == GiveUp(p) /\ finish(p) /\ permits' = permits - 1
AbandonSilently(p) == GiveUp(p) /\ UNCHANGED <<projectVars, permits, wg, closeVars, history>>

AbandonWait(p) == GiveUp(p) /\ finish(p) /\ UNCHANGED permits

-----------------------------------------------------------------------------
(* Close cancels the context before it takes the mutex ... *)
CloseCancel ==
  /\ ~cancelled
  /\ cancelled' = TRUE
  /\ UNCHANGED <<projectVars, workerVars, closed, returned, history>>

(* ... then shuts the door and stops the timers it can still reach ... *)
CloseStop ==
  /\ cancelled /\ ~closed
  /\ closed' = TRUE
  /\ timer' = [p \in Projects |-> IF timer[p] = "armed" THEN "spent" ELSE timer[p]]
  /\ UNCHANGED <<orphans, calls, running, pending, workerVars, cancelled, returned, history>>

(* ... and returns when the WaitGroup is empty. *)
CloseReturn ==
  /\ closed /\ ~returned
  /\ wg = 0
  /\ returned' = TRUE
  /\ UNCHANGED <<projectVars, workerVars, cancelled, closed, history>>

-----------------------------------------------------------------------------
(* What timers and workers do by themselves, Generate's return excepted. *)
Scheduled(p) ==
  \/ Fire(p) \/ FireOrphan(p) \/ StartRefused(p) \/ Start(p)
  \/ BeginGenerate(p) \/ FinishGeneration(p) \/ AbandonWait(p)

Next ==
  \/ \E p \in Projects : Invalidate(p) \/ Scheduled(p) \/ EndGenerate(p)
  \/ CloseCancel \/ CloseStop \/ CloseReturn

Spec == Init /\ [][Next]_vars

(* Timers fire, goroutines are scheduled, Generate returns, and a goroutine *)
(* that waits for a permit is not overtaken for ever: the runtime serves    *)
(* the senders blocked on a channel in FIFO order, hence SF.  Nothing       *)
(* obliges anyone to call Invalidate or Close; a Close that has cancelled   *)
(* goes on to the mutex.                                                    *)
Fairness ==
  /\ \A p \in Projects :
       /\ WF_vars(Fire(p)) /\ WF_vars(FireOrphan(p))
       /\ WF_vars(StartRefused(p)) /\ WF_vars(Start(p))
       /\ SF_vars(BeginGenerate(p)) /\ WF_vars(EndGenerate(p))
       /\ WF_vars(FinishGeneration(p)) /\ WF_vars(AbandonWait(p))
  /\ WF_vars(CloseStop) /\ WF_vars(CloseReturn)

FairSpec == Spec /\ Fairness

-----------------------------------------------------------------------------
(* Types: the counters of goroutines and timers never go below zero. *)
TypeOK ==
  /\ timer \in [Projects -> {"nil", "armed", "spent"}]
  /\ orphans \in [Projects -> Nat]
  /\ calls \in [Projects -> Nat]
  /\ running \in [Projects -> BOOLEAN]
  /\ pending \in [Projects -> BOOLEAN]
  /\ waiting \in [Projects -> Nat]
  /\ generating \in [Projects -> Nat]
  /\ reporting \in [Projects -> Nat]
  /\ permits \in Nat /\ wg \in Nat
  /\ cancelled \in BOOLEAN /\ closed \in BOOLEAN /\ returned \in BOOLEAN
  /\ version \in [Projects -> 0..MaxChanges]
  /\ built \in [Projects -> 0..MaxChanges]

(* "Preventing same-project overlap" (the comment on Coordinator): however *)
(* stale timers, follow-ups and new changes interleave, a project has at   *)
(* most one worker goroutine, and none when it is not marked running.      *)
NoSameProjectOverlap ==
  \A p \in Projects :
    waiting[p] + generating[p] + reporting[p] = IF running[p] THEN 1 ELSE 0

(* The permits channel bounds the projects that generate at the same time: *)
(* no path of the worker leaks a permit or frees one it does not hold.     *)
Generating == {p \in Projects : generating[p] > 0}
ConcurrencyBounded ==
  /\ permits = Cardinality(Generating)
  /\ permits <= MaxConcurrent

(* No change is lost: while the coordinator is open, a recorded change for *)
(* which no generation has begun is owed one by something that will really *)
(* run it.  For a running project only a worker that has not begun or the  *)
(* pending flag counts (a timer that fires now is refused); for an idle    *)
(* one only a timer or a call of start counts (pending is read by finish). *)
NoLostChange ==
  ~cancelled =>
    \A p \in Projects : Dirty(p) =>
      IF running[p]
        THEN waiting[p] > 0 \/ pending[p]
        ELSE timer[p] = "armed" \/ orphans[p] > 0 \/ calls[p] > 0

(* "Close ... waits for active generations": once some Close has returned  *)
(* no worker exists, although timers nobody could stop may still fire.     *)
QuietAfterClose ==
  returned => \A p \in Projects :
                waiting[p] + generating[p] + reporting[p] = 0

(* Once the changes stop, every recorded change is followed by the start   *)
(* of a generation, unless the coordinator is closed first.                *)
ChangeIsRegenerated ==
  \A p \in Projects : Dirty(p) ~> (~Dirty(p) \/ cancelled)

(* Close returns: no worker waits for a permit that is never freed, and no *)
(* late timer keeps the WaitGroup from draining.                           *)
CloseTerminates == cancelled ~> returned

(* The coordinator implements Regeneration: the busy projects are the ones *)
(* with a worker inside Generate, and it has halted when Close returned.   *)
Abs == INSTANCE Regeneration
         WITH seen <- version, taken <- built, busy <- Generating, halted <- returned
ImplementsRegeneration == Abs!AbsFairSpec
=============================================================================
