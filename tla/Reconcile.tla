------------------------------ MODULE Reconcile ------------------------------
(***************************************************************************)
(* The daemon's reconciliation loop (watchRegistry and watchRealWithSink   *)
(* of internal/app/app.go) around the coordinator.                         *)
(*                                                                         *)
(* Every second the loop loads the registry.  When the fingerprint of the  *)
(* registered projects has changed it stops the watcher and the            *)
(* coordinator, waits for them, and starts new ones for the projects it    *)
(* loaded.  A coordinator therefore lives from one reconciliation to the   *)
(* next, and what it owed when it was closed is gone with it.              *)
(*                                                                         *)
(* The fingerprint holds a project's compilation database path, so a       *)
(* project's first successful generation changes it too.                   *)
(***************************************************************************)
EXTENDS Coordinator

CONSTANT MaxEdition  \* bound: changes of the fingerprint made by commands

ASSUME MaxEditionAssumption == MaxEdition \in Nat

VARIABLES
  edition,    \* the fingerprint the registry would have if loaded now
  byCommand,  \* how many of its changes came from commands (add, doctor, ...)
  generated,  \* projects whose record names a compilation database
  seen,       \* fingerprint: of the projects the running watcher watches
  target,     \* next: the fingerprint loaded by the reconciliation under way
  watcher     \* "up", "stopping" (watchCtx cancelled), "closed" (w.Close
              \* returned), or "ended" (the daemon's watch has ended for good)

registryVars == <<edition, byCommand, generated>>
loopVars == <<seen, target, watcher>>
allVars == <<vars, registryVars, loopVars>>

(* The first turn of the loop has started a watcher for what it loaded. *)
RInit ==
  /\ Init
  /\ edition = 0 /\ byCommand = 0 /\ generated \in SUBSET Projects
  /\ seen = 0 /\ target = 0 /\ watcher = "up"

-----------------------------------------------------------------------------
(* The watcher reports a change until it is closed. *)
FileChange(p) ==
  /\ watcher \in {"up", "stopping"}
  /\ Invalidate(p)
  /\ UNCHANGED <<registryVars, loopVars>>

(* A command changes the set of projects, a root or a toolchain. *)
Command ==
  /\ byCommand < MaxEdition
  /\ byCommand' = byCommand + 1
  /\ edition' = edition + 1
  /\ UNCHANGED <<vars, generated, loopVars>>

(* The worker saves the record of a successful Generate before it returns. *)
(* A first success gives the record its compilation database, and so       *)
(* changes the fingerprint; a failure saves only InvalidationReason, which *)
(* the fingerprint does not hold.                                          *)
Save(p) ==
  /\ generating[p] > 0
  /\ p \notin generated
  /\ generated' = generated \cup {p}
  /\ edition' = edition + 1
  /\ UNCHANGED <<vars, byCommand, loopVars>>

-----------------------------------------------------------------------------
(* A tick that sees another fingerprint: stopCurrent cancels watchCtx. *)
Noticed(next) ==
  /\ watcher = "up"
  /\ edition # seen
  /\ target' = edition
  /\ watcher' = next
  /\ UNCHANGED <<vars, registryVars, seen>>

\* Mutant: stopCurrent waits for the watcher without cancelling it.
TickWithoutStop == Noticed("up")

Tick == Noticed("stopping")

(* watchRealWithSink returns: its deferred calls close the watcher first ... *)
WatcherCloses ==
  /\ watcher = "stopping"
  /\ watcher' = "closed"
  /\ UNCHANGED <<vars, registryVars, seen, target>>

(* ... and then the coordinator, whose own steps follow. *)
CoordinatorCloses ==
  /\ watcher = "closed"
  /\ CloseCancel \/ CloseStop \/ CloseReturn
  /\ UNCHANGED <<registryVars, loopVars>>

(* A new coordinator: no project state, empty permits, an open context.    *)
(* The old one's workers are not touched, its timers call a closed object. *)
Renew ==
  /\ watcher = "closed"
  /\ timer' = [p \in Projects |-> "nil"]
  /\ orphans' = [p \in Projects |-> 0] /\ calls' = [p \in Projects |-> 0]
  /\ running' = [p \in Projects |-> FALSE] /\ pending' = [p \in Projects |-> FALSE]
  /\ permits' = 0 /\ wg' = 0
  /\ cancelled' = FALSE /\ closed' = FALSE /\ returned' = FALSE
  /\ seen' = target
  /\ watcher' = "up"
  /\ UNCHANGED <<waiting, generating, reporting, history, registryVars, target>>

\* Mutant: stopCurrent does not wait for the old watcher and coordinator.
RestartAtOnce == closed /\ target # seen /\ Renew

Restart == returned /\ target # seen /\ Renew

(* The watcher fails, the registry cannot be loaded, or the daemon is told *)
(* to stop: the same deferred calls run ...                                *)
Stopped ==
  /\ watcher = "up"
  /\ target' = seen
  /\ watcher' = "stopping"
  /\ UNCHANGED <<vars, registryVars, seen>>

(* ... and watchRegistry returns.  It also returns when the watcher that   *)
(* stopCurrent stopped had failed at the same time.                        *)
WatchEnds ==
  /\ watcher = "closed" /\ returned
  /\ watcher' = "ended"
  /\ UNCHANGED <<vars, registryVars, seen, target>>

RNext ==
  \/ \E p \in Projects :
       \/ FileChange(p) \/ Save(p)
       \/ (Scheduled(p) \/ EndGenerate(p)) /\ UNCHANGED <<registryVars, loopVars>>
  \/ Command \/ Tick \/ WatcherCloses \/ CoordinatorCloses \/ Restart
  \/ Stopped \/ WatchEnds

RSpec == RInit /\ [][RNext]_allVars

(* The ticker ticks, the stopped watcher and coordinator return (given the *)
(* coordinator's own fairness), and the loop goes on.  Nobody need change  *)
(* a file, run a command or stop the daemon.                               *)
RFairness ==
  /\ Fairness
  /\ WF_allVars(Tick) /\ WF_allVars(WatcherCloses)
  /\ WF_allVars(CoordinatorCloses)
  /\ WF_allVars(Restart \/ WatchEnds)

RFairSpec == RSpec /\ RFairness

-----------------------------------------------------------------------------
(* Coordinators of two incarnations never generate side by side: counting  *)
(* the workers of every incarnation, NoSameProjectOverlap and the bound on *)
(* concurrency hold across reconciliations.                                *)
OneIncarnationAtATime == NoSameProjectOverlap /\ ConcurrencyBounded

(* "The daemon reconciles project additions, removals, roots, toolchains   *)
(* ...": a watcher for the registry as it is comes up, whatever the old    *)
(* one was doing when the change was noticed, or the daemon's watch ends.  *)
Reconciles == edition # seen ~> (edition = seen \/ watcher = "ended")

(* "Creates, deletes, renames, and changes to .Build.cs ... debounce into  *)
(* one database regeneration per project": a reported change is followed   *)
(* by the start of a generation, unless the daemon's watch ends.  The code *)
(* does not keep this: see the run reconcile_lost_change.                  *)
EveryChangeRegenerates ==
  \A p \in Projects : Dirty(p) ~> (~Dirty(p) \/ watcher = "ended")
=============================================================================
