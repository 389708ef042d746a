-------------------------- MODULE CoordinatorProofs --------------------------
(***************************************************************************)
(* Proofs about Coordinator, for every set of projects, every capacity of  *)
(* the permits channel and every number of changes.                        *)
(***************************************************************************)
EXTENDS Coordinator, FiniteSetTheorems, TLAPS

Running == {p \in Projects : running[p]}

(* The WaitGroup counts the running projects, as the permits count the     *)
(* generating ones; both sets are finite.                                  *)
Counted ==
  /\ IsFiniteSet(Generating) /\ permits = Cardinality(Generating)
  /\ IsFiniteSet(Running) /\ wg = Cardinality(Running)

(* The three steps of Close come in order, and the last needs no worker. *)
ClosePhases ==
  /\ closed => cancelled
  /\ returned => closed /\ Running = {}

(* What the coordinator keeps whether or not changes reach it.  The        *)
(* counters stay natural numbers only because they count sets (Counted),   *)
(* and the sets follow the goroutines only because a project has one       *)
(* worker (NoSameProjectOverlap).                                          *)
Core ==
  /\ TypeOK
  /\ NoSameProjectOverlap
  /\ Counted
  /\ permits <= MaxConcurrent
  /\ ClosePhases

(* The inductive invariant.  A finished worker loses no change only        *)
(* because it was the only one (Core).  The two parts are kept apart: a    *)
(* new coordinator in place of an old one keeps Core and not NoLostChange  *)
(* (module ReconcileProofs).                                               *)
IInv == Core /\ NoLostChange

-----------------------------------------------------------------------------
(* Adding a new element to a finite set. *)
LEMMA GrownSet ==
  ASSUME NEW S, NEW x, NEW T, IsFiniteSet(S), x \notin S, T = S \cup {x}
  PROVE  IsFiniteSet(T) /\ Cardinality(T) = Cardinality(S) + 1
BY FS_AddElement

(* Removing an element from a finite set. *)
LEMMA ShrunkSet ==
  ASSUME NEW S, NEW x, NEW T, IsFiniteSet(S), x \in S, T = S \ {x}
  PROVE  /\ IsFiniteSet(T) /\ Cardinality(T) = Cardinality(S) - 1
         /\ Cardinality(S) \in Nat /\ Cardinality(S) > 0
         /\ Cardinality(T) \in Nat
<1>1. IsFiniteSet(T) /\ Cardinality(T) = Cardinality(S) - 1
  BY FS_RemoveElement
<1>2. Cardinality(S) \in Nat /\ Cardinality(T) \in Nat
  BY <1>1, FS_CardinalityType
<1> QED BY <1>1, <1>2

(* A worker that waits is the only one of its project. *)
LEMMA WaitingAlone ==
  ASSUME Core, NEW p \in Projects, waiting[p] > 0
  PROVE  running[p] /\ waiting[p] = 1 /\ generating[p] = 0 /\ reporting[p] = 0
<1>1. waiting[p] \in Nat /\ generating[p] \in Nat /\ reporting[p] \in Nat
  BY DEF Core, TypeOK
<1>2. waiting[p] + generating[p] + reporting[p] = IF running[p] THEN 1 ELSE 0
  BY DEF Core, NoSameProjectOverlap
<1> QED BY <1>1, <1>2

(* A worker that generates is the only one of its project. *)
LEMMA GeneratingAlone ==
  ASSUME Core, NEW p \in Projects, generating[p] > 0
  PROVE  running[p] /\ waiting[p] = 0 /\ generating[p] = 1 /\ reporting[p] = 0
<1>1. waiting[p] \in Nat /\ generating[p] \in Nat /\ reporting[p] \in Nat
  BY DEF Core, TypeOK
<1>2. waiting[p] + generating[p] + reporting[p] = IF running[p] THEN 1 ELSE 0
  BY DEF Core, NoSameProjectOverlap
<1> QED BY <1>1, <1>2

(* A worker that reports is the only one of its project. *)
LEMMA ReportingAlone ==
  ASSUME Core, NEW p \in Projects, reporting[p] > 0
  PROVE  running[p] /\ waiting[p] = 0 /\ generating[p] = 0 /\ reporting[p] = 1
<1>1. waiting[p] \in Nat /\ generating[p] \in Nat /\ reporting[p] \in Nat
  BY DEF Core, TypeOK
<1>2. waiting[p] + generating[p] + reporting[p] = IF running[p] THEN 1 ELSE 0
  BY DEF Core, NoSameProjectOverlap
<1> QED BY <1>1, <1>2

-----------------------------------------------------------------------------
(* The empty coordinator satisfies the invariant. *)
LEMMA InitIInv == Init => IInv
<1> SUFFICES ASSUME Init PROVE IInv
  OBVIOUS
<1>1. TypeOK
  <2>1. 0 \in 0..MaxChanges
    BY MaxChangesAssumption
  <2>2. /\ version \in [Projects -> 0..MaxChanges]
        /\ built \in [Projects -> 0..MaxChanges]
    BY <2>1 DEF Init
  <2>3. running \in [Projects -> BOOLEAN] /\ pending \in [Projects -> BOOLEAN]
    BY DEF Init
  <2> QED BY <2>2, <2>3 DEF Init, TypeOK
<1>2. NoSameProjectOverlap /\ NoLostChange
  BY DEF Init, NoSameProjectOverlap, NoLostChange, Dirty
<1>3. Generating = {} /\ Running = {}
  BY DEF Init, Generating, Running
<1>4. Counted
  BY <1>3, FS_EmptySet DEF Counted, Init
<1>5. permits <= MaxConcurrent /\ ClosePhases
  BY <1>3, MaxConcurrentAssumption DEF Init, ClosePhases
<1> QED BY <1>1, <1>2, <1>4, <1>5 DEF IInv, Core

(* Steps that touch only timers, pending calls and the recorded changes.   *)
LEMMA TimerStep ==
  ASSUME Core, NEW p \in Projects,
         Invalidate(p) \/ Fire(p) \/ FireOrphan(p) \/ StartRefused(p)
  PROVE  Core' /\ (NoLostChange => NoLostChange')
<1> USE DEF projectVars, workerVars, closeVars, history, Record, Rearm, Launch,
           Enter, Leave, Idle, GiveUp
<1>1. TypeOK'
  <2>1. CASE Invalidate(p)
    <3>1. version' \in [Projects -> 0..MaxChanges]
      BY <2>1, MaxChangesAssumption DEF Core, TypeOK, Invalidate
    <3>2. /\ timer' \in [Projects -> {"nil", "armed", "spent"}]
          /\ pending' \in [Projects -> BOOLEAN]
      BY <2>1 DEF Core, TypeOK, Invalidate
    <3> QED BY <2>1, <3>1, <3>2 DEF Core, TypeOK, Invalidate
  <2>2. CASE Fire(p)
    BY <2>2 DEF Core, TypeOK, Fire
  <2>3. CASE FireOrphan(p)
    BY <2>3 DEF Core, TypeOK, FireOrphan
  <2>4. CASE StartRefused(p)
    BY <2>4 DEF Core, TypeOK, StartRefused
  <2> QED BY <2>1, <2>2, <2>3, <2>4
<1>2. UNCHANGED <<running, workerVars, closeVars>>
  BY DEF Invalidate, Fire, FireOrphan, StartRefused
<1>3. NoSameProjectOverlap'
  BY <1>2 DEF Core, NoSameProjectOverlap
<1>4. Generating' = Generating /\ Running' = Running
  BY <1>2 DEF Generating, Running
<1>5. Counted' /\ (permits <= MaxConcurrent)' /\ ClosePhases'
  BY <1>2, <1>4 DEF Core, Counted, ClosePhases
<1>6. NoLostChange => NoLostChange'
  <2>1. CASE Invalidate(p)
    BY <2>1 DEF Core, TypeOK, NoLostChange, Dirty, Invalidate
  <2>2. CASE Fire(p)
    BY <2>2 DEF Core, TypeOK, NoLostChange, Dirty, Fire
  <2>3. CASE FireOrphan(p)
    BY <2>3 DEF Core, TypeOK, NoLostChange, Dirty, FireOrphan
  <2>4. CASE StartRefused(p)
    BY <2>4 DEF Core, TypeOK, NoLostChange, ClosePhases, Dirty, StartRefused
  <2> QED BY <2>1, <2>2, <2>3, <2>4
<1> QED BY <1>1, <1>3, <1>5, <1>6 DEF Core

(* start spawns the one worker of an idle project. *)
LEMMA StartStep ==
  ASSUME Core, NEW p \in Projects, Start(p)
  PROVE  Core' /\ (NoLostChange => NoLostChange')
<1> USE DEF projectVars, workerVars, closeVars, history, Record, Rearm, Launch,
           Enter, Leave, Idle, GiveUp
<1>1. TypeOK'
  BY DEF Core, TypeOK, Start, Drop
<1>2. NoSameProjectOverlap'
  <2> SUFFICES ASSUME NEW q \in Projects
               PROVE  (waiting[q] + generating[q] + reporting[q]
                         = IF running[q] THEN 1 ELSE 0)'
    BY DEF NoSameProjectOverlap
  <2>1. waiting[q] + generating[q] + reporting[q] = IF running[q] THEN 1 ELSE 0
    BY DEF Core, NoSameProjectOverlap
  <2>2. waiting[q] \in Nat /\ generating[q] \in Nat /\ reporting[q] \in Nat
    BY DEF Core, TypeOK
  <2>3. CASE q = p
    <3>1. running'[q] /\ waiting'[q] = waiting[q] + 1 /\ ~running[q]
      BY <2>3 DEF Core, TypeOK, Start
    <3> QED BY <2>1, <2>2, <3>1 DEF Start
  <2>4. CASE q # p
    BY <2>1, <2>4 DEF Core, TypeOK, Start
  <2> QED BY <2>3, <2>4
<1>3. Generating' = Generating
  BY DEF Generating, Start
<1>4. p \notin Running /\ Running' = Running \cup {p}
  BY DEF Running, Start, Core, TypeOK
<1>5. IsFiniteSet(Running') /\ Cardinality(Running') = Cardinality(Running) + 1
  BY <1>4, GrownSet DEF Core, Counted
<1>6. Counted' /\ (permits <= MaxConcurrent)'
  BY <1>3, <1>5 DEF Core, Counted, Start
<1>7. NoLostChange => NoLostChange'
  BY DEF Core, TypeOK, NoLostChange, Dirty, Start, Drop
<1>8. ClosePhases'
  BY DEF Core, ClosePhases, Start
<1> QED BY <1>1, <1>2, <1>6, <1>7, <1>8 DEF Core

(* Taking a permit. *)
LEMMA BeginStep ==
  ASSUME Core, NEW p \in Projects, BeginGenerate(p)
  PROVE  /\ Core' /\ (NoLostChange => NoLostChange')
         /\ p \notin Generating /\ Generating' = Generating \cup {p}
<1> USE DEF projectVars, workerVars, closeVars, history, Record, Rearm, Launch,
           Enter, Leave, Idle, GiveUp
<1>0. running[p] /\ waiting[p] = 1 /\ generating[p] = 0 /\ reporting[p] = 0
  BY WaitingAlone DEF BeginGenerate
<1>1. TypeOK'
  BY MaxConcurrentAssumption DEF Core, TypeOK, BeginGenerate
<1>2. NoSameProjectOverlap'
  BY <1>0 DEF Core, TypeOK, NoSameProjectOverlap, BeginGenerate
<1>3. Running' = Running
  BY DEF Running, BeginGenerate
<1>4. p \notin Generating /\ Generating' = Generating \cup {p}
  BY <1>0 DEF Generating, BeginGenerate, Core, TypeOK
<1>5. IsFiniteSet(Generating') /\ Cardinality(Generating') = Cardinality(Generating) + 1
  BY <1>4, GrownSet DEF Core, Counted
<1>6. Counted'
  BY <1>3, <1>5 DEF Core, Counted, BeginGenerate
<1>7. (permits <= MaxConcurrent)'
  BY MaxConcurrentAssumption DEF Core, TypeOK, BeginGenerate
<1>8. NoLostChange => NoLostChange'
  BY <1>0 DEF Core, TypeOK, NoLostChange, Dirty, BeginGenerate
<1>9. ClosePhases'
  BY <1>3 DEF Core, ClosePhases, BeginGenerate
<1> QED BY <1>1, <1>2, <1>4, <1>6, <1>7, <1>8, <1>9 DEF Core

(* Freeing a permit. *)
LEMMA EndStep ==
  ASSUME Core, NEW p \in Projects, EndGenerate(p)
  PROVE  /\ Core' /\ (NoLostChange => NoLostChange')
         /\ p \in Generating /\ Generating' = Generating \ {p}
<1> USE DEF projectVars, workerVars, closeVars, history, Record, Rearm, Launch,
           Enter, Leave, Idle, GiveUp
<1>0. running[p] /\ waiting[p] = 0 /\ generating[p] = 1 /\ reporting[p] = 0
  BY GeneratingAlone DEF EndGenerate
<1>3. Running' = Running
  BY DEF Running, EndGenerate
<1>4. p \in Generating /\ Generating' = Generating \ {p}
  BY <1>0 DEF Generating, EndGenerate, Core, TypeOK
<1>5. /\ IsFiniteSet(Generating') /\ Cardinality(Generating') = Cardinality(Generating) - 1
      /\ Cardinality(Generating) \in Nat /\ Cardinality(Generating) > 0
  BY <1>4, ShrunkSet DEF Core, Counted
<1>6. Counted'
  BY <1>3, <1>5 DEF Core, Counted, EndGenerate
<1>7. permits > 0
  BY <1>5 DEF Core, Counted
<1>1. TypeOK'
  BY <1>7 DEF Core, TypeOK, EndGenerate
<1>2. NoSameProjectOverlap'
  BY <1>0 DEF Core, TypeOK, NoSameProjectOverlap, EndGenerate
<1>8. (permits <= MaxConcurrent)'
  BY MaxConcurrentAssumption DEF Core, TypeOK, EndGenerate
<1>9. NoLostChange => NoLostChange'
  BY <1>0 DEF Core, TypeOK, NoLostChange, Dirty, EndGenerate
<1>10. ClosePhases'
  BY <1>3 DEF Core, ClosePhases, EndGenerate
<1> QED BY <1>1, <1>2, <1>4, <1>6, <1>8, <1>9, <1>10 DEF Core

(* A worker ends: the project is idle again and its pending changes, if    *)
(* the coordinator is open, have a timer.                                  *)
LEMMA FinishStep ==
  ASSUME Core, NEW p \in Projects, FinishGeneration(p) \/ AbandonWait(p)
  PROVE  /\ Core' /\ (NoLostChange => NoLostChange')
         /\ Generating' = Generating
<1> USE DEF projectVars, workerVars, closeVars, history, Record, Rearm, Launch,
           Enter, Leave, Idle, GiveUp
<1>0. /\ running[p] /\ generating[p] = 0
      /\ waiting[p] + reporting[p] = 1
      /\ FinishGeneration(p) => reporting[p] = 1 /\ waiting[p] = 0
      /\ AbandonWait(p) => reporting[p] = 0 /\ waiting[p] = 1
  BY WaitingAlone, ReportingAlone DEF FinishGeneration, AbandonWait, Core, TypeOK
<1>1. finish(p) /\ UNCHANGED <<generating, permits>>
  BY DEF FinishGeneration, AbandonWait
<1>2. p \in Running /\ Running' = Running \ {p}
  BY <1>0, <1>1 DEF Running, finish, Core, TypeOK
<1>3. /\ IsFiniteSet(Running') /\ Cardinality(Running') = Cardinality(Running) - 1
      /\ Cardinality(Running) \in Nat /\ Cardinality(Running) > 0
  BY <1>2, ShrunkSet DEF Core, Counted
<1>4. wg > 0
  BY <1>3 DEF Core, Counted
<1>5. Generating' = Generating
  BY <1>1 DEF Generating
<1>6. Counted' /\ (permits <= MaxConcurrent)'
  BY <1>1, <1>3, <1>5 DEF Core, Counted, finish
<1>7. TypeOK'
  <2>1. wg' \in Nat
    BY <1>1, <1>4 DEF Core, TypeOK, finish
  <2>2. /\ timer' \in [Projects -> {"nil", "armed", "spent"}]
        /\ orphans' \in [Projects -> Nat]
    BY <1>1 DEF Core, TypeOK, finish, Drop
  <2>3. running' \in [Projects -> BOOLEAN] /\ pending' \in [Projects -> BOOLEAN]
    BY <1>1 DEF Core, TypeOK, finish
  <2>4. waiting' \in [Projects -> Nat] /\ reporting' \in [Projects -> Nat]
    BY DEF Core, TypeOK, FinishGeneration, AbandonWait
  <2> QED BY <1>1, <2>1, <2>2, <2>3, <2>4 DEF Core, TypeOK, finish
<1>8. NoSameProjectOverlap'
  BY <1>0, <1>1 DEF Core, TypeOK, NoSameProjectOverlap, FinishGeneration, AbandonWait, finish
<1>9. NoLostChange => NoLostChange'
  <2>1. CASE FinishGeneration(p)
    <3> SUFFICES ASSUME NoLostChange, ~cancelled, NEW q \in Projects, Dirty(q)
                 PROVE  (IF running[q] THEN waiting[q] > 0 \/ pending[q]
                         ELSE timer[q] = "armed" \/ orphans[q] > 0 \/ calls[q] > 0)'
      BY <1>1 DEF NoLostChange, Dirty, finish
    <3>1. IF running[q] THEN waiting[q] > 0 \/ pending[q]
          ELSE timer[q] = "armed" \/ orphans[q] > 0 \/ calls[q] > 0
      BY DEF NoLostChange
    <3>2. CASE q = p
      <4>1. pending[p]
        BY <2>1, <1>0, <3>1, <3>2
      <4>2. timer'[p] = "armed" /\ ~running'[p]
        BY <4>1, <1>1 DEF Core, TypeOK, finish
      <4> QED BY <3>2, <4>2
    <3>3. CASE q # p
      <4>1. /\ running'[q] = running[q] /\ pending'[q] = pending[q]
            /\ timer'[q] = timer[q] /\ orphans'[q] = orphans[q]
            /\ calls'[q] = calls[q] /\ waiting'[q] = waiting[q]
        BY <2>1, <1>1, <3>3 DEF Core, TypeOK, FinishGeneration, finish, Drop
      <4> QED BY <3>1, <4>1
    <3> QED BY <3>2, <3>3
  <2>2. CASE AbandonWait(p)
    BY <2>2, <1>1 DEF NoLostChange, AbandonWait, finish
  <2> QED BY <2>1, <2>2
<1>10. ClosePhases'
  BY <1>1, <1>2 DEF Core, ClosePhases, finish
<1> QED BY <1>5, <1>6, <1>7, <1>8, <1>9, <1>10 DEF Core

(* The steps of Close. *)
LEMMA CloseStep ==
  ASSUME Core, CloseCancel \/ CloseStop \/ CloseReturn
  PROVE  /\ Core' /\ (NoLostChange => NoLostChange')
         /\ Generating' = Generating
<1> USE DEF projectVars, workerVars, closeVars, history, Record, Rearm, Launch,
           Enter, Leave, Idle, GiveUp
<1>1. UNCHANGED <<running, workerVars, history>>
  BY DEF CloseCancel, CloseStop, CloseReturn
<1>2. Generating' = Generating /\ Running' = Running
  BY <1>1 DEF Generating, Running
<1>3. TypeOK'
  BY DEF Core, TypeOK, CloseCancel, CloseStop, CloseReturn
<1>4. NoSameProjectOverlap'
  BY <1>1 DEF Core, NoSameProjectOverlap
<1>5. Counted' /\ (permits <= MaxConcurrent)'
  BY <1>1, <1>2 DEF Core, Counted
<1>6. NoLostChange => NoLostChange'
  BY <1>1 DEF Core, ClosePhases, NoLostChange, Dirty, CloseCancel, CloseStop, CloseReturn
<1>7. ClosePhases'
  <2>1. CASE CloseCancel \/ CloseStop
    BY <2>1, <1>2 DEF Core, ClosePhases, CloseCancel, CloseStop
  <2>2. CASE CloseReturn
    <3>1. Running = {}
      BY <2>2, FS_EmptySet DEF CloseReturn, Core, Counted
    <3> QED BY <3>1, <2>2, <1>2 DEF Core, ClosePhases, CloseReturn
  <2> QED BY <2>1, <2>2
<1> QED BY <1>2, <1>3, <1>4, <1>5, <1>6, <1>7 DEF Core

(* A step that changes nothing. *)
LEMMA StutterStep ==
  ASSUME Core, UNCHANGED vars
  PROVE  /\ Core' /\ (NoLostChange => NoLostChange')
         /\ Generating' = Generating
<1> USE DEF vars, projectVars, workerVars, closeVars, history
<1>1. Generating' = Generating /\ Running' = Running
  BY DEF Generating, Running
<1> QED BY <1>1 DEF Core, TypeOK, NoSameProjectOverlap, Counted, NoLostChange, Dirty, ClosePhases

(* IInv is inductive. *)
LEMMA NextIInv == IInv /\ [Next]_vars => IInv'
<1> SUFFICES ASSUME IInv, [Next]_vars PROVE IInv'
  OBVIOUS
<1>1. ASSUME NEW p \in Projects,
             Invalidate(p) \/ Fire(p) \/ FireOrphan(p) \/ StartRefused(p)
      PROVE  IInv'
  BY <1>1, TimerStep DEF IInv
<1>2. ASSUME NEW p \in Projects, Start(p) PROVE IInv'
  BY <1>2, StartStep DEF IInv
<1>3. ASSUME NEW p \in Projects, BeginGenerate(p) PROVE IInv'
  BY <1>3, BeginStep DEF IInv
<1>4. ASSUME NEW p \in Projects, EndGenerate(p) PROVE IInv'
  BY <1>4, EndStep DEF IInv
<1>5. ASSUME NEW p \in Projects, FinishGeneration(p) \/ AbandonWait(p) PROVE IInv'
  BY <1>5, FinishStep DEF IInv
<1>6. CASE CloseCancel \/ CloseStop \/ CloseReturn
  BY <1>6, CloseStep DEF IInv
<1>7. CASE UNCHANGED vars
  BY <1>7, StutterStep DEF IInv
<1> QED BY <1>1, <1>2, <1>3, <1>4, <1>5, <1>6, <1>7 DEF Next, Scheduled

(* Every reachable state of the coordinator satisfies the invariant. *)
LEMMA Invariance == Spec => []IInv
BY InitIInv, NextIInv, PTL DEF Spec

-----------------------------------------------------------------------------
(* Every counter of timers, goroutines, permits and waiters stays a        *)
(* natural number and every flag a Boolean.                                *)
THEOREM TypeCorrect == Spec => []TypeOK
BY Invariance, PTL DEF IInv, Core

(* start never spawns a second worker for a project. *)
THEOREM NoOverlap == Spec => []NoSameProjectOverlap
BY Invariance, PTL DEF IInv, Core

(* At most maxConcurrent projects generate together, and the channel holds *)
(* exactly one token for each of them.                                     *)
THEOREM Bounded == Spec => []ConcurrencyBounded
<1>1. IInv => ConcurrencyBounded
  BY DEF IInv, Core, Counted, ConcurrencyBounded
<1> QED BY <1>1, Invariance, PTL

(* A change recorded by Invalidate is never dropped by an open coordinator. *)
THEOREM NothingLost == Spec => []NoLostChange
BY Invariance, PTL DEF IInv, Core

(* When Close has returned there is no worker and there never will be. *)
THEOREM ClosedIsQuiet == Spec => []QuietAfterClose
<1>1. IInv => QuietAfterClose
  BY DEF IInv, Core, NoSameProjectOverlap, ClosePhases, Running, QuietAfterClose
<1> QED BY <1>1, Invariance, PTL

-----------------------------------------------------------------------------
(* Every step of the coordinator is a step of Regeneration or a stutter. *)
LEMMA StepRefines ==
  ASSUME Core, [Next]_vars
  PROVE  [Abs!AbsNext]_Abs!absVars
<1> USE DEF projectVars, workerVars, closeVars, history, Record, Rearm, Launch,
           Enter, Leave, Idle, GiveUp
<1>1. ASSUME NEW p \in Projects, Invalidate(p)
      PROVE  Abs!Change(p)
  <2>1. Generating' = Generating
    BY <1>1 DEF Invalidate, Generating
  <2> QED BY <1>1, <2>1 DEF Abs!Change, Invalidate, Core, ClosePhases
<1>2. ASSUME NEW p \in Projects, BeginGenerate(p)
      PROVE  Abs!Begin(p)
  <2>1. p \notin Generating /\ Generating' = Generating \cup {p}
    BY <1>2, BeginStep
  <2>2. running[p]
    BY <1>2, WaitingAlone DEF BeginGenerate
  <2>3. ~returned
    BY <2>2 DEF Core, ClosePhases, Running
  <2>4. Cardinality(Generating) < MaxConcurrent
    BY <1>2 DEF BeginGenerate, Core, Counted
  <2>5. built' = [built EXCEPT ![p] = version[p]] /\ UNCHANGED <<version, returned>>
    BY <1>2 DEF BeginGenerate
  <2>6. Abs!Cardinality(Generating) = Cardinality(Generating)
    BY DEF Abs!Cardinality, Abs!IsFiniteSet, Cardinality, IsFiniteSet
  <2> QED BY <2>1, <2>3, <2>4, <2>5, <2>6 DEF Abs!Begin
<1>3. ASSUME NEW p \in Projects, EndGenerate(p)
      PROVE  Abs!End(p)
  BY <1>3, EndStep DEF Abs!End, EndGenerate
<1>4. ASSUME NEW p \in Projects,
             \/ Fire(p) \/ FireOrphan(p) \/ StartRefused(p) \/ Start(p)
             \/ FinishGeneration(p) \/ AbandonWait(p)
      PROVE  UNCHANGED Abs!absVars
  BY <1>4 DEF Abs!absVars, Generating, Fire, FireOrphan, StartRefused, Start,
              FinishGeneration, AbandonWait, finish
<1>5. CASE CloseReturn
  <2>1. Running = {}
    BY <1>5, FS_EmptySet DEF CloseReturn, Core, Counted
  <2>2. Generating = {}
    BY <2>1, GeneratingAlone DEF Generating, Running
  <2>3. Abs!Halt
    BY <1>5, <2>2, CloseStep DEF Abs!Halt, CloseReturn
  <2> QED BY <2>3 DEF Abs!AbsNext
<1>6. CASE CloseCancel \/ CloseStop
  <2>1. UNCHANGED Abs!absVars
    BY <1>6 DEF Abs!absVars, Generating, CloseCancel, CloseStop
  <2> QED BY <2>1
<1>7. CASE UNCHANGED vars
  <2>1. UNCHANGED Abs!absVars
    BY <1>7 DEF vars, Abs!absVars, Generating
  <2> QED BY <2>1
<1> QED BY <1>1, <1>2, <1>3, <1>4, <1>5, <1>6, <1>7 DEF Next, Scheduled, Abs!AbsNext

(* The coordinator, with its timers, flags, permits and Close, implements  *)
(* the abstract Regeneration (its safety part).                            *)
THEOREM Refinement == Spec => Abs!AbsSpec
<1>1. Init => Abs!AbsInit
  BY DEF Init, Abs!AbsInit, Generating
<1>2. IInv /\ [Next]_vars => [Abs!AbsNext]_Abs!absVars
  BY StepRefines DEF IInv
<1> QED BY <1>1, <1>2, Invariance, PTL DEF Spec, Abs!AbsSpec
=============================================================================
